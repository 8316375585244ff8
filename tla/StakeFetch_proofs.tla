-------------------------- MODULE StakeFetch_proofs --------------------------
(***************************************************************************)
(* Proofs about the stake tables of a node, for any number of events,       *)
(* blocks, epochs and restarts and any size of the queried ranges.          *)
(***************************************************************************)
EXTENDS StakeFetch, FiniteSetTheorems, WellFoundedInduction, TLAPS

-----------------------------------------------------------------------------
\* Extremes.

\* A set of natural numbers with a member has a smallest one.
LEMMA LeastMember ==
  ASSUME NEW T \in SUBSET Nat, T # {}
  PROVE  \E n \in T : \A m \in T : n <= m
<1>1. \E x \in T : \A y \in T : ~ (<<y, x>> \in OpToRel(<, Nat))
  BY WFMin, NatLessThanWellFounded, Zenon
<1>2. \A x, y \in T : ~ (<<y, x>> \in OpToRel(<, Nat)) => x <= y
  BY DEF OpToRel
<1> QED
  BY <1>1, <1>2, Zenon

\* A set of natural numbers with a member and a bound has a largest one.
LEMMA LargestMember ==
  ASSUME NEW T \in SUBSET Nat, T # {}, NEW b \in Nat, \A m \in T : m <= b
  PROVE  \E n \in T : \A m \in T : m <= n
<1> DEFINE U == {n \in Nat : \A m \in T : m <= n}
<1>1. PICK n \in U : \A k \in U : n <= k
  BY LeastMember, Zenon
<1>2. n \in T
  <2> SUFFICES ASSUME n \notin T PROVE FALSE
    OBVIOUS
  <2>1. \A m \in T : m <= n /\ m # n /\ m \in Nat
    OBVIOUS
  <2>2. n # 0
    <3>1. PICK m \in T : TRUE
      BY Zenon
    <3> QED
      BY <2>1, <3>1
  <2>3. n - 1 \in U
    BY <2>1, <2>2
  <2> QED
    BY <1>1, <2>3
<1> QED
  BY <1>2

-----------------------------------------------------------------------------
\* Sorting.

\* The numbers a, a + 1, ... , b as a sequence.
Run(a, b) == [i \in 1..(b - a + 1) |-> a + i - 1]

\* The size of an interval.
LEMMA IntervalSize ==
  ASSUME NEW a \in Int, NEW b \in Int, a <= b + 1
  PROVE  IsFiniteSet(a..b) /\ Cardinality(a..b) = b - a + 1
<1>1. CASE a > b
  <2>1. b - a + 1 = 0
    BY <1>1
  <2> QED
    BY <1>1, <2>1, FS_Interval
<1>2. CASE a <= b
  BY <1>2, FS_Interval
<1> QED
  BY <1>1, <1>2

\* Sorting an interval yields its numbers from the first to the last.
LEMMA SortedInterval ==
  ASSUME NEW a \in Int, NEW b \in Int, a <= b + 1
  PROVE  Sorted(a..b) = Run(a, b)
<1> DEFINE S == a..b
           below(x) == Cardinality({y \in S : y < x})
           nth(i) == CHOOSE x \in S : below(x) = i - 1
<1>1. Cardinality(S) = b - a + 1
  BY IntervalSize
<1>2. \A x \in S : below(x) = x - a
  <2> TAKE x \in S
  <2>1. {y \in S : y < x} = a..(x - 1)
    OBVIOUS
  <2>2. x - 1 \in Int /\ a <= (x - 1) + 1 /\ (x - 1) - a + 1 = x - a
    OBVIOUS
  <2>3. Cardinality(a..(x - 1)) = (x - 1) - a + 1
    BY <2>2, IntervalSize
  <2> QED
    BY <2>1, <2>2, <2>3, Zenon
<1>3. \A i \in 1..(b - a + 1) : nth(i) = a + i - 1
  <2> SUFFICES ASSUME NEW i \in 1..(b - a + 1) PROVE nth(i) = a + i - 1
    BY Zenon
  <2>1. a + i - 1 \in S /\ \A x \in S : x - a = i - 1 <=> x = a + i - 1
    OBVIOUS
  <2> HIDE DEF below
  <2>2. \E x \in S : below(x) = i - 1
    BY <1>2, <2>1
  <2>3. nth(i) \in S /\ below(nth(i)) = i - 1
    <3> HIDE DEF S
    <3> QED BY <2>2
  <2> QED
    BY <1>2, <2>1, <2>3
<1>4. Sorted(S) = [i \in 1..Cardinality(S) |-> nth(i)]
  BY DEF Sorted
<1> QED
  BY <1>1, <1>3, <1>4, Zenon DEF Run

\* A run followed by the next one is a run.
LEMMA RunsJoin ==
  ASSUME NEW k \in Nat, NEW m \in Nat, k <= m
  PROVE  Run(1, k) \o Run(k + 1, m) = Run(1, m)
<1>1. Run(1, k) \in Seq(Nat) /\ Len(Run(1, k)) = k /\ \A i \in 1..k : Run(1, k)[i] = i
  BY DEF Run
<1>2. /\ Run(k + 1, m) \in Seq(Nat) /\ Len(Run(k + 1, m)) = m - k
      /\ \A i \in 1..(m - k) : Run(k + 1, m)[i] = k + i
  BY DEF Run
<1>3. Run(1, m) \in Seq(Nat) /\ Len(Run(1, m)) = m /\ \A i \in 1..m : Run(1, m)[i] = i
  BY DEF Run
<1> DEFINE s == Run(1, k)
           t == Run(k + 1, m)
<1> HIDE DEF s, t
<1>4. /\ s \o t \in Seq(Nat) /\ Len(s \o t) = m
      /\ \A i \in 1..m : (s \o t)[i] = IF i <= k THEN s[i] ELSE t[i - k]
  BY <1>1, <1>2 DEF s, t
<1>5. \A i \in 1..m : (s \o t)[i] = i
  <2> SUFFICES ASSUME NEW i \in 1..m PROVE (s \o t)[i] = i
    BY Zenon
  <2>1. CASE i <= k
    BY <1>1, <1>4, <2>1 DEF s
  <2>2. CASE ~(i <= k)
    <3>1. i - k \in 1..(m - k) /\ k + (i - k) = i
      BY <2>2
    <3> QED
      BY <1>2, <1>4, <2>2, <3>1, Zenon DEF t
  <2> QED
    BY <2>1, <2>2, Zenon
<1>6. s \o t = Run(1, m)
  <2> DEFINE u == s \o t
             w == Run(1, m)
  <2>1. u \in Seq(Nat) /\ Len(u) = m /\ \A i \in 1..m : u[i] = i
    BY <1>4, <1>5, Zenon
  <2>2. w \in Seq(Nat) /\ Len(w) = m /\ \A i \in 1..m : w[i] = i
    BY <1>3, Zenon
  <2> HIDE DEF u, w
  <2>3. u = [i \in 1..m |-> u[i]] /\ w = [i \in 1..m |-> w[i]]
    BY <2>1, <2>2
  <2>4. u = w
    BY <2>1, <2>2, <2>3, Zenon
  <2> QED
    BY <2>4, Zenon DEF u, w
<1> QED
  BY <1>6 DEF s, t

\* Nothing is dropped from a run.
LEMMA DedupRun ==
  ASSUME NEW m \in Nat
  PROVE  Dedup(Run(1, m)) = Run(1, m)
<1> DEFINE s == Run(1, m)
           first == Sorted({i \in DOMAIN s : i = 1 \/ s[i] # s[i - 1]})
<1>1. DOMAIN s = 1..m /\ \A i \in 1..m : s[i] = i
  BY DEF Run
<1>2. {i \in DOMAIN s : i = 1 \/ s[i] # s[i - 1]} = 1..m
  <2> HIDE DEF s
  <2>1. \A i \in 1..m : i = 1 \/ (i - 1 \in 1..m /\ i # i - 1)
    OBVIOUS
  <2>2. \A i \in 1..m : i = 1 \/ s[i] # s[i - 1]
    BY <1>1, <2>1
  <2> QED
    BY <1>1, <2>2
<1>3. first = s
  <2>1. 1 \in Int /\ m \in Int /\ 1 <= m + 1
    OBVIOUS
  <2>2. Sorted(1..m) = s
    BY <2>1, SortedInterval, Zenon
  <2> QED
    BY <1>2, <2>2, Zenon
<1>4. Dedup(s) = [j \in DOMAIN first |-> s[first[j]]]
  BY DEF Dedup
<1>5. Dedup(s) = [j \in 1..m |-> j]
  <2> HIDE DEF s, first
  <2> QED
    BY <1>1, <1>3, <1>4
<1> QED
  BY <1>5 DEF Run

-----------------------------------------------------------------------------
\* The ranges that are queried.

\* The last block of the range that starts with s.
RangeEnd(s, end) == Min({s + ChunkSize - 1, end})

\* A table of the ranges of s..end, for s from n on: the recursion of Chunks.
IsRangeTable(h, n, end) ==
  h = [s \in n..(end + 1) |->
         IF RangeEnd(s, end) < s THEN {}
         ELSE {s..RangeEnd(s, end)} \cup h[RangeEnd(s, end) + 1]]

\* A range is not empty before the end, and ends there at the latest.
LEMMA RangeEndFacts ==
  ASSUME NEW end \in Nat, NEW s \in 0..(end + 1)
  PROVE  /\ RangeEnd(s, end) \in Int /\ RangeEnd(s, end) <= end
         /\ s <= end => s <= RangeEnd(s, end)
         /\ s <= end => RangeEnd(s, end) + 1 \in (s + 1)..(end + 1)
<1>1. ChunkSize \in Nat \ {0}
  BY FetchAssumption
<1>2. \A a, b \in Int : Min({a, b}) = IF a <= b THEN a ELSE b
  BY DEF Min
<1>3. s + ChunkSize - 1 \in Int
  BY <1>1
<1>4. RangeEnd(s, end) = IF s + ChunkSize - 1 <= end THEN s + ChunkSize - 1 ELSE end
  BY <1>2, <1>3 DEF RangeEnd
<1> QED
  BY <1>1, <1>4

\* The recursion of Chunks defines a function.
LEMMA RangeTableExists ==
  ASSUME NEW end \in Nat
  PROVE  \E h : IsRangeTable(h, 0, end)
<1> DEFINE Has(n) == \E h : IsRangeTable(h, n, end)
           T == {n \in 0..(end + 1) : ~Has(n)}
<1>1. Has(end + 1)
  <2> DEFINE h == [s \in (end + 1)..(end + 1) |-> {}]
  <2>1. \A s \in (end + 1)..(end + 1) : RangeEnd(s, end) < s
    BY RangeEndFacts
  <2>2. IsRangeTable(h, end + 1, end)
    BY <2>1 DEF IsRangeTable
  <2> QED
    BY <2>2, Zenon
<1>2. \A n \in 0..end : Has(n + 1) => Has(n)
  <2> SUFFICES ASSUME NEW n \in 0..end, NEW h0, IsRangeTable(h0, n + 1, end)
               PROVE  Has(n)
    BY Zenon
  <2> DEFINE row(g, s) == IF RangeEnd(s, end) < s THEN {}
                          ELSE {s..RangeEnd(s, end)} \cup g[RangeEnd(s, end) + 1]
             h == [s \in n..(end + 1) |-> row(h0, s)]
  <2>1. \A s \in (n + 1)..(end + 1) : s \in n..(end + 1) /\ s \in 0..(end + 1)
    OBVIOUS
  <2>2. \A s \in (n + 1)..(end + 1) : h[s] = h0[s]
    <3> SUFFICES ASSUME NEW s \in (n + 1)..(end + 1) PROVE h[s] = h0[s]
      BY Zenon
    <3>1. h[s] = row(h0, s)
      BY <2>1, Zenon
    <3>2. h0[s] = row(h0, s)
      BY Zenon DEF IsRangeTable
    <3> QED
      BY <3>1, <3>2, Zenon
  <2>3. \A s \in n..(end + 1) : ~(RangeEnd(s, end) < s) =>
                               RangeEnd(s, end) + 1 \in (n + 1)..(end + 1)
    <3> TAKE s \in n..(end + 1)
    <3>1. s \in 0..(end + 1)
      OBVIOUS
    <3>2. /\ RangeEnd(s, end) \in Int /\ RangeEnd(s, end) <= end
          /\ s <= end => RangeEnd(s, end) + 1 \in (s + 1)..(end + 1)
      BY <3>1, RangeEndFacts, Zenon
    <3> QED
      BY <3>2
  <2>4. \A s \in n..(end + 1) : h[s] = row(h, s)
    <3> SUFFICES ASSUME NEW s \in n..(end + 1) PROVE h[s] = row(h, s)
      BY Zenon
    <3>1. h[s] = row(h0, s)
      BY Zenon
    <3>2. CASE RangeEnd(s, end) < s
      BY <3>1, <3>2, Zenon
    <3>3. CASE ~(RangeEnd(s, end) < s)
      <4>1. h[RangeEnd(s, end) + 1] = h0[RangeEnd(s, end) + 1]
        BY <2>2, <2>3, <3>3, Zenon
      <4> HIDE DEF h
      <4> QED
        BY <3>1, <3>3, <4>1, Zenon
    <3> QED
      BY <3>2, <3>3
  <2>5. h = [s \in n..(end + 1) |-> row(h, s)]
    BY <2>4, Zenon
  <2> QED
    BY <2>5, Zenon DEF IsRangeTable
<1> HIDE DEF Has
<1>3. T = {}
  <2> SUFFICES ASSUME T # {} PROVE FALSE
    OBVIOUS
  <2>1. T \in SUBSET Nat /\ end + 1 \in Nat /\ \A m \in T : m <= end + 1
    OBVIOUS
  <2>2. PICK n \in T : \A m \in T : m <= n
    BY <2>1, LargestMember, Zenon
  <2>3. n # end + 1
    BY <1>1
  <2>4. n \in 0..end /\ n + 1 \in 0..(end + 1) /\ ~(n + 1 <= n)
    BY <2>3
  <2>5. n + 1 \notin T
    BY <2>2, <2>4, Zenon
  <2> QED
    BY <1>2, <2>4, <2>5
<1>4. Has(0)
  BY <1>3
<1> QED
  BY <1>4 DEF Has

\* The ranges of s..end cover it.
LEMMA RangesCover ==
  ASSUME NEW end \in Nat, NEW h, IsRangeTable(h, 0, end), NEW s \in 0..(end + 1)
  PROVE  UNION h[s] = s..end
<1> DEFINE T == {n \in 0..(end + 1) : UNION h[n] # n..end}
<1>0. \A n \in 0..(end + 1) :
        h[n] = IF RangeEnd(n, end) < n THEN {}
               ELSE {n..RangeEnd(n, end)} \cup h[RangeEnd(n, end) + 1]
  BY Zenon DEF IsRangeTable
<1>1. T = {}
  <2> SUFFICES ASSUME T # {} PROVE FALSE
    BY Zenon
  <2>1. T \in SUBSET Nat /\ end + 1 \in Nat /\ \A m \in T : m <= end + 1
    OBVIOUS
  <2>2. PICK n \in T : \A m \in T : m <= n
    <3> HIDE DEF T
    <3> QED BY <2>1, LargestMember, Zenon
  <2> DEFINE e == RangeEnd(n, end)
  <2>3. /\ e \in Int /\ e <= end
        /\ n <= end => n <= e
        /\ n <= end => e + 1 \in (n + 1)..(end + 1)
    BY RangeEndFacts
  <2>4. h[n] = IF e < n THEN {} ELSE {n..e} \cup h[e + 1]
    BY <1>0, Zenon
  <2> HIDE DEF e
  <2>5. CASE n = end + 1
    <3>1. h[n] = {} /\ n..end = {}
      BY <2>3, <2>4, <2>5
    <3> QED
      BY <3>1, Zenon
  <2>6. CASE n # end + 1
    <3>1. n <= end /\ ~(e < n) /\ e + 1 \in 0..(end + 1) /\ ~(e + 1 <= n)
      BY <2>3, <2>6
    <3>2. UNION h[e + 1] = (e + 1)..end
      BY <2>2, <3>1, Zenon
    <3>3. UNION h[n] = (n..e) \cup UNION h[e + 1]
      BY <2>4, <3>1, Zenon
    <3>4. (n..e) \cup ((e + 1)..end) = n..end
      BY <2>3, <3>1
    <3> QED
      BY <3>2, <3>3, <3>4, Zenon
  <2> QED
    BY <2>5, <2>6
<1> QED
  BY <1>1, Zenon

\* The ranges that fetch_events_from_contract queries leave out no block
\* between the first and the last, and include no other.
LEMMA ContractEventsExact ==
  ASSUME NEW start \in Nat, NEW end \in Nat
  PROVE  ContractEvents(start, end) = {e \in Log : BlockOf[e] \in start..end}
<1> DEFINE h == CHOOSE h : IsRangeTable(h, 0, end)
<1>1. IsRangeTable(h, 0, end)
  BY RangeTableExists, Zenon
<1>2. Chunks(start, end) = IF start > end THEN {} ELSE h[start]
  BY DEF Chunks, IsRangeTable, RangeEnd
<1> HIDE DEF h
<1>3. UNION Chunks(start, end) = start..end
  <2>1. CASE start > end
    BY <1>2, <2>1
  <2>2. CASE ~(start > end)
    <3>1. start \in 0..(end + 1)
      BY <2>2
    <3> QED
      BY <1>1, <1>2, <2>2, <3>1, RangesCover, Zenon
  <2> QED
    BY <2>1, <2>2
<1>4. \A b : b \in start..end <=> \E c \in Chunks(start, end) : b \in c
  <2> DEFINE C == Chunks(start, end)
  <2> HIDE DEF C
  <2>1. \A b : b \in UNION C <=> \E c \in C : b \in c
    BY Zenon
  <2> QED
    BY <1>3, <2>1, Zenon DEF C
<1> QED
  BY <1>4, Zenon DEF ContractEvents

-----------------------------------------------------------------------------
\* What a caller knows.

\* The events up to block b, in order.
Exact(b) == Sorted(UpTo(Log, b))

\* The call of c: what is loaded are all the events before the block where the
\* query starts, and what is to be stored are all the events up to to_block.
CallOK(c) ==
  /\ pc[c] \in {"idle", "load"} => from[c] = -1 /\ got[c] = << >>
  /\ pc[c] = "query" => \/ from[c] = -1 /\ got[c] = << >>
                        \/ from[c] \in 1..to[c] /\ got[c] = Exact(from[c] - 1)
  /\ pc[c] \in {"store", "write", "keep"} => got[c] = Exact(to[c])
  /\ c \in Epochs /\ pc[c] # "idle" => to[c] = RootBlock[c]

\* Only the file storage writes in several steps, for one caller at a time,
\* and nobody else moves the stored block meanwhile.
Writing ==
  /\ \A c, d \in Caller : pc[c] = "write" /\ pc[d] = "write" => c = d
  /\ \A c \in Caller : pc[c] = "write" => backend = "fs" /\ marker <= to[c]

\* An inductive invariant.
Sound == /\ TypeOK /\ MarkerCovers /\ TableExact /\ Writing
         /\ \A c \in Caller : CallOK(c)

\* The events are ordered by their blocks, so those up to a block come first.
LEMMA EventsUpTo ==
  ASSUME NEW b \in Int
  PROVE  \E k \in 0..NumEvents : UpTo(Log, b) = 1..k
<1>0. NumEvents \in Nat /\ \A e \in Log : BlockOf[e] \in Int
  BY FetchAssumption DEF Block
<1> DEFINE T == UpTo(Log, b)
<1>1. CASE T = {}
  BY <1>0, <1>1
<1>2. CASE T # {}
  <2>1. T \in SUBSET Nat /\ \A m \in T : m <= NumEvents
    BY <1>0 DEF UpTo, Log
  <2>2. PICK k \in T : \A m \in T : m <= k
    <3> HIDE DEF T
    <3> QED BY <1>0, <1>2, <2>1, LargestMember, Zenon
  <2>3. k \in Log /\ BlockOf[k] <= b
    BY <2>2 DEF UpTo
  <2>4. \A e \in Log : e <= k => BlockOf[e] <= b
    <3> TAKE e \in Log
    <3>1. e < k => BlockOf[e] <= BlockOf[k]
      BY <2>3, FetchAssumption
    <3>2. e \in Nat /\ k \in Nat
      BY <1>0, <2>3 DEF Log
    <3> QED
      BY <1>0, <2>3, <3>1, <3>2
  <2>5. T = 1..k
    BY <1>0, <2>2, <2>3, <2>4 DEF UpTo, Log
  <2> QED
    BY <1>0, <2>3, <2>5 DEF Log
<1> QED
  BY <1>1, <1>2

\* The events up to a block as a sequence.
LEMMA ExactFacts ==
  ASSUME NEW b \in Int
  PROVE  Exact(b) \in Seq(Log) /\ Range(Exact(b)) = UpTo(Log, b)
<1>1. PICK k \in 0..NumEvents : UpTo(Log, b) = 1..k
  BY EventsUpTo
<1>0. NumEvents \in Nat
  BY FetchAssumption
<1>2. Exact(b) = Run(1, k)
  <2>1. 1 \in Int /\ k \in Int /\ 1 <= k + 1
    BY <1>0
  <2> QED
    BY <1>1, <2>1, SortedInterval DEF Exact
<1>3. Run(1, k) = [i \in 1..k |-> i]
  BY <1>0 DEF Run
<1>4. [i \in 1..k |-> i] \in Seq(Log) /\ Range([i \in 1..k |-> i]) = 1..k
  BY <1>0 DEF Range, Log
<1> QED
  BY <1>1, <1>2, <1>3, <1>4

\* What is stored up to q and what the contract answers from q + 1 on are
\* together the events up to the end, each once.
LEMMA RestFromContract ==
  ASSUME NEW q \in Int, NEW b \in Nat, NEW start \in Nat, q <= b, 
         {e \in Log : BlockOf[e] \in start..b} = UpTo(Log, b) \ UpTo(Log, q)
  PROVE  Dedup(Exact(q) \o Sorted(ContractEvents(start, b))) = Exact(b)
<1>0. NumEvents \in Nat /\ \A e \in Log : BlockOf[e] \in Int
  BY FetchAssumption DEF Block
<1>1. PICK k \in 0..NumEvents : UpTo(Log, q) = 1..k
  BY EventsUpTo
<1>2. PICK m \in 0..NumEvents : UpTo(Log, b) = 1..m
  BY EventsUpTo
<1>3. k \in Nat /\ m \in Nat
  BY <1>0
<1>4. k <= m
  <2>1. UpTo(Log, q) \subseteq UpTo(Log, b)
    BY <1>0 DEF UpTo
  <2>2. 1..k \subseteq 1..m
    BY <1>1, <1>2, <2>1
  <2> QED
    BY <1>3, <2>2
<1>5. ContractEvents(start, b) = (k + 1)..m
  <2>1. ContractEvents(start, b) = {e \in Log : BlockOf[e] \in start..b}
    BY ContractEventsExact
  <2>2. (1..m) \ (1..k) = (k + 1)..m
    BY <1>3, <1>4
  <2> QED
    BY <1>1, <1>2, <2>1, <2>2
<1>6. /\ Sorted(1..k) = Run(1, k) /\ Sorted(1..m) = Run(1, m)
      /\ Sorted((k + 1)..m) = Run(k + 1, m)
  <2>1. /\ 1 \in Int /\ k \in Int /\ m \in Int /\ k + 1 \in Int
        /\ 1 <= k + 1 /\ 1 <= m + 1 /\ k + 1 <= m + 1
    BY <1>3, <1>4
  <2> QED
    BY <2>1, SortedInterval, Zenon
<1>7. Run(1, k) \o Run(k + 1, m) = Run(1, m)
  BY <1>3, <1>4, RunsJoin, Zenon
<1>8. Dedup(Run(1, m)) = Run(1, m)
  BY <1>3, DedupRun, Zenon
<1> QED
  BY <1>1, <1>2, <1>5, <1>6, <1>7, <1>8, Zenon DEF Exact

\* A whole query: nothing was stored.
LEMMA AllFromContract ==
  ASSUME NEW b \in Nat
  PROVE  Dedup(<< >> \o Sorted(ContractEvents(InitBlock, b))) = Exact(b)
<1>1. InitBlock \in Nat /\ \A e \in Log : BlockOf[e] \in Int /\ BlockOf[e] >= InitBlock
  BY FetchAssumption DEF Block
<1>2. UpTo(Log, -1) = {}
  BY <1>1 DEF UpTo
<1>3. {e \in Log : BlockOf[e] \in InitBlock..b} = UpTo(Log, b) \ UpTo(Log, -1)
  BY <1>1, <1>2 DEF UpTo
<1>4. Exact(-1) = << >>
  <2>1. {} = 1..0 /\ 1 \in Int /\ 0 \in Int /\ 1 <= 0 + 1
    OBVIOUS
  <2>2. Sorted(1..0) = Run(1, 0)
    BY <2>1, SortedInterval, Zenon
  <2>3. Run(1, 0) = << >>
    BY DEF Run
  <2> QED
    BY <1>2, <2>1, <2>2, <2>3, Zenon DEF Exact
<1>5. -1 \in Int /\ -1 <= b
  OBVIOUS
<1>6. Dedup(Exact(-1) \o Sorted(ContractEvents(InitBlock, b))) = Exact(b)
  BY <1>1, <1>3, <1>5, RestFromContract
<1> QED
  BY <1>4, <1>6, Zenon

\* A query for what follows the stored block.
LEMMA RestAfterStored ==
  ASSUME NEW b \in Nat, NEW f \in 1..b
  PROVE  Dedup(Exact(f - 1) \o Sorted(ContractEvents(f, b))) = Exact(b)
<1>1. \A e \in Log : BlockOf[e] \in Int
  BY FetchAssumption DEF Block
<1>2. {e \in Log : BlockOf[e] \in f..b} = UpTo(Log, b) \ UpTo(Log, f - 1)
  BY <1>1 DEF UpTo
<1>3. f - 1 \in Int /\ f \in Nat /\ f - 1 <= b
  OBVIOUS
<1> QED
  BY <1>2, <1>3, RestFromContract

-----------------------------------------------------------------------------
\* The steps.

\* The calls other than that of c do not change.
Elsewhere(c) ==
  \A d \in Caller \ {c} :
    pc'[d] = pc[d] /\ to'[d] = to[d] /\ from'[d] = from[d] /\ got'[d] = got[d]

\* The types of the calls, after a step of c.
CallTypes ==
  /\ pc \in [Caller -> {"idle", "load", "query", "store", "write", "keep"}]
  /\ to \in [Caller -> Block] /\ from \in [Caller -> Block \cup {-1}]
  /\ got \in [Caller -> Seq(Log)]

\* Only c has to be looked at.
LEMMA OneCall ==
  ASSUME \A d \in Caller : CallOK(d), NEW c \in Caller, Elsewhere(c), CallOK(c)'
  PROVE  \A d \in Caller : CallOK(d)'
<1> SUFFICES ASSUME NEW d \in Caller, d # c PROVE CallOK(d)'
  OBVIOUS
<1>1. CallOK(d)
  OBVIOUS
<1>2. pc'[d] = pc[d] /\ to'[d] = to[d] /\ from'[d] = from[d] /\ got'[d] = got[d]
  BY Zenon DEF Elsewhere
<1> QED
  BY <1>1, <1>2 DEF CallOK, Exact

\* Nobody starts to write and the stored block stays.
LEMMA NoNewWriter ==
  ASSUME Writing, NEW c \in Caller, Elsewhere(c), pc'[c] # "write",
         backend' = backend, marker' = marker
  PROVE  Writing'
  BY DEF Writing, Elsewhere

\* The call of c ends.
LEMMA LeaveOK ==
  ASSUME CallTypes, NEW c \in Caller, Leave(c)
  PROVE  CallTypes' /\ Elsewhere(c) /\ CallOK(c)' /\ pc'[c] = "idle"
<1>1. 0 \in Block /\ << >> \in Seq(Log)
  BY FetchAssumption DEF Block
<1>2. CallTypes' /\ Elsewhere(c)
  BY <1>1 DEF CallTypes, Leave, Elsewhere
<1>3. pc'[c] = "idle" /\ from'[c] = -1 /\ got'[c] = << >>
  BY DEF CallTypes, Leave
<1>4. CallOK(c)'
  BY <1>3 DEF CallOK
<1> QED
  BY <1>2, <1>3, <1>4

\* The call of c has its events.
LEMMA ReturnOK ==
  ASSUME CallTypes, NEW c \in Caller, CallOK(c), pc[c] \in {"store", "write"}, Return(c)
  PROVE  CallTypes' /\ Elsewhere(c) /\ CallOK(c)' /\ pc'[c] # "write"
<1>1. CASE c = Loop \/ got[c] = << >>
  BY <1>1, LeaveOK DEF Return
<1>2. CASE ~(c = Loop \/ got[c] = << >>)
  <2>1. pc' = [pc EXCEPT ![c] = "keep"] /\ to' = to /\ from' = from /\ got' = got
    BY <1>2 DEF Return
  <2>2. CallTypes' /\ Elsewhere(c) /\ pc'[c] = "keep"
    BY <2>1 DEF CallTypes, Elsewhere
  <2>3. CallOK(c)'
    BY <2>1, <2>2 DEF CallOK, Exact
  <2> QED
    BY <2>2, <2>3
<1> QED
  BY <1>1, <1>2

\* The rest of the state, for a step that leaves the storage alone.
LEMMA StorageStays ==
  ASSUME Sound, UNCHANGED <<backend, stored, tables, crashes>>, finalized' \in Block,
         CallTypes', Writing', \A c \in Caller : CallOK(c)'
  PROVE  Sound'
<1>1. /\ backend' = backend /\ files' = files /\ torn' = torn /\ marker' = marker
      /\ kept' = kept /\ tables' = tables /\ crashes' = crashes
  BY DEF stored
<1>2. TypeOK'
  BY <1>1 DEF Sound, TypeOK, CallTypes
<1>3. MarkerCovers' /\ TableExact'
  BY <1>1, Zenon DEF Sound, MarkerCovers, TableExact
<1> QED
  BY <1>2, <1>3 DEF Sound

\* A step of c that leaves the storage alone and does not start to write.
LEMMA QuietStep ==
  ASSUME Sound, NEW c \in Caller, UNCHANGED <<backend, finalized, stored, tables, crashes>>,
         CallTypes', Elsewhere(c), CallOK(c)', pc'[c] # "write"
  PROVE  Sound'
<1>1. \A d \in Caller : CallOK(d)'
  BY OneCall DEF Sound
<1>2. backend' = backend /\ marker' = marker /\ finalized' = finalized
  BY DEF stored
<1>3. Writing'
  BY <1>2, NoNewWriter DEF Sound
<1>4. finalized' \in Block
  BY <1>2 DEF Sound, TypeOK
<1> QED
  BY <1>1, <1>3, <1>4, StorageStays

\* What the invariant says of one call.
LEMMA CallFacts ==
  ASSUME Sound, NEW c \in Caller
  PROVE  /\ CallTypes /\ CallOK(c) /\ to[c] \in Block /\ from[c] \in Block \cup {-1}
         /\ to[c] \in Nat /\ marker \in Int /\ marker >= -1
         /\ marker # -1 => marker \in Block
<1>1. CallTypes /\ CallOK(c) /\ marker \in Block \cup {-1}
  BY DEF Sound, TypeOK, CallTypes
<1>2. to[c] \in Block /\ from[c] \in Block \cup {-1}
  BY <1>1 DEF CallTypes
<1> QED
  BY <1>1, <1>2, FetchAssumption DEF Block

\* A call begins.
LEMMA BeginSound ==
  ASSUME Sound, NEW c \in Caller, NEW b \in Block, pc[c] = "idle", Begin(c, b),
         c \in Epochs => b = RootBlock[c]
  PROVE  Sound'
<1>1. CallTypes /\ CallOK(c)
  BY CallFacts
<1>2. CallTypes' /\ Elsewhere(c) /\ pc'[c] = "load" /\ to'[c] = b
  BY <1>1 DEF Begin, CallTypes, Elsewhere
<1>3. CallOK(c)'
  BY <1>1, <1>2 DEF CallOK, Begin
<1> QED
  BY <1>2, <1>3, QuietStep DEF Begin

\* L1 advances.
LEMMA FinalizeSound == ASSUME Sound, Finalize PROVE Sound'
<1>1. finalized' \in Block
  BY FetchAssumption DEF Finalize, Sound, TypeOK, Block
<1>2. /\ pc' = pc /\ to' = to /\ from' = from /\ got' = got
      /\ backend' = backend /\ marker' = marker
  BY DEF Finalize, call, stored
<1>3. CallTypes' /\ Writing' /\ \A c \in Caller : CallOK(c)'
  BY <1>2 DEF Sound, TypeOK, CallTypes, Writing, CallOK, Exact
<1> QED
  BY <1>1, <1>3, StorageStays DEF Finalize

\* Nothing is stored.
LEMMA LoadNothingSound ==
  ASSUME Sound, NEW c \in Caller, LoadNothing(c) PROVE Sound'
<1>1. CallTypes /\ CallOK(c)
  BY CallFacts
<1>2. CallTypes' /\ Elsewhere(c) /\ pc'[c] = "query"
  BY <1>1 DEF LoadNothing, CallTypes, Elsewhere
<1>3. CallOK(c)'
  BY <1>1, <1>2 DEF CallOK, LoadNothing
<1> QED
  BY <1>2, <1>3, QuietStep DEF LoadNothing

\* What is loaded up to a block is all there is up to it: the stored block
\* covers it and no file of it has lost its content.
LEMMA LoadStoredSound ==
  ASSUME Sound, NEW c \in Caller, LoadStored(c) PROVE Sound'
<1> DEFINE q == Min({marker, to[c]})
<1>1. /\ CallTypes /\ CallOK(c) /\ to[c] \in Block /\ to[c] \in Nat /\ marker \in Nat
      /\ marker \in Block
  BY CallFacts DEF LoadStored, Block
<1>2. q \in Nat /\ q <= marker /\ q <= to[c] /\ q \in Block
  <2>1. q = IF marker <= to[c] THEN marker ELSE to[c]
    BY <1>1 DEF Min
  <2> QED
    BY <1>1, <2>1
<1>a. /\ UpTo(torn, q) = {} /\ pc[c] = "load"
      /\ got' = [got EXCEPT ![c] = Sorted(UpTo(files, q))]
      /\ pc' = [pc EXCEPT ![c] = IF q = to[c] THEN "store" ELSE "query"]
      /\ from' = [from EXCEPT ![c] = IF q = to[c] THEN -1 ELSE q + 1]
      /\ to' = to
  BY DEF LoadStored
<1> HIDE DEF q
<1>3. UpTo(files, q) = UpTo(Log, q)
  <2>1. \A e \in Log : BlockOf[e] \in Int
    BY FetchAssumption DEF Block
  <2>2. UpTo(Log, marker) \subseteq files \cup torn /\ files \subseteq Log /\ torn \subseteq Log
    BY DEF Sound, MarkerCovers, TypeOK
  <2> QED
    BY <1>1, <1>2, <1>a, <2>1, <2>2 DEF UpTo
<1>4. got' = [got EXCEPT ![c] = Exact(q)] /\ Exact(q) \in Seq(Log)
  BY <1>2, <1>3, <1>a, ExactFacts DEF Exact
<1>5. Elsewhere(c) /\ to'[c] = to[c] /\ got'[c] = Exact(q)
  BY <1>1, <1>4, <1>a DEF CallTypes, Elsewhere
<1>6. CASE q = to[c]
  <2>1. pc'[c] = "store" /\ from'[c] = -1 /\ CallTypes'
    BY <1>1, <1>4, <1>6, <1>a DEF CallTypes
  <2>2. CallOK(c)'
    BY <1>1, <1>5, <1>6, <1>a, <2>1 DEF CallOK, Exact
  <2> QED
    BY <1>5, <2>1, <2>2, QuietStep DEF LoadStored
<1>7. CASE q # to[c]
  <2>0. q + 1 \in 1..to[c] /\ q + 1 \in Block /\ (q + 1) - 1 = q
    <3>1. MaxBlock \in Nat
      BY FetchAssumption
    <3> QED
      BY <1>1, <1>2, <1>7, <3>1 DEF Block
  <2>1. pc'[c] = "query" /\ from'[c] = q + 1 /\ CallTypes'
    BY <1>1, <1>4, <1>7, <1>a, <2>0 DEF CallTypes
  <2>2. CallOK(c)'
    BY <1>1, <1>5, <1>a, <2>0, <2>1 DEF CallOK, Exact
  <2> QED
    BY <1>5, <2>1, <2>2, QuietStep DEF LoadStored
<1> QED
  BY <1>6, <1>7

\* The contract answers.
LEMMA QuerySound ==
  ASSUME Sound, NEW c \in Caller, Query(c) PROVE Sound'
<1> DEFINE start == IF from[c] = -1 THEN InitBlock ELSE from[c]
<1>1. CallTypes /\ CallOK(c) /\ to[c] \in Nat /\ from[c] \in Block \cup {-1}
  BY CallFacts
<1>2. /\ pc[c] = "query" /\ pc' = [pc EXCEPT ![c] = "store"] /\ to' = to /\ from' = from
      /\ got' = [got EXCEPT ![c] = Dedup(got[c] \o Sorted(ContractEvents(start, to[c])))]
  BY DEF Query
<1>3. Dedup(got[c] \o Sorted(ContractEvents(start, to[c]))) = Exact(to[c])
  <2>1. \/ from[c] = -1 /\ got[c] = << >>
        \/ from[c] \in 1..to[c] /\ got[c] = Exact(from[c] - 1)
    BY <1>1, <1>2 DEF CallOK
  <2>2. CASE from[c] = -1 /\ got[c] = << >>
    BY <1>1, <2>2, AllFromContract
  <2>3. CASE from[c] \in 1..to[c] /\ got[c] = Exact(from[c] - 1)
    <3>1. start = from[c]
      BY <1>1, <2>3
    <3> QED
      BY <1>1, <2>3, <3>1, RestAfterStored
  <2> QED
    BY <2>1, <2>2, <2>3
<1>4. Exact(to[c]) \in Seq(Log)
  BY <1>1, ExactFacts
<1>5. CallTypes' /\ Elsewhere(c) /\ pc'[c] = "store" /\ got'[c] = Exact(to[c]) /\ to'[c] = to[c]
  BY <1>1, <1>2, <1>3, <1>4 DEF CallTypes, Elsewhere
<1>6. CallOK(c)'
  BY <1>1, <1>2, <1>5 DEF CallOK, Exact
<1> QED
  BY <1>5, <1>6, QuietStep DEF Query

\* What the invariant says of the storage, for a step that changes it.
StorageOK ==
  /\ files \subseteq Log /\ torn \subseteq Log /\ marker \in Block \cup {-1}
  /\ kept \subseteq Epochs \X Seq(Log) /\ tables \subseteq Epochs \X Seq(Log)
  /\ MarkerCovers /\ TableExact

\* A step of c that changes the storage.
LEMMA StorageStep ==
  ASSUME Sound, NEW c \in Caller, UNCHANGED <<backend, finalized, crashes>>,
         CallTypes', Elsewhere(c), CallOK(c)', StorageOK', Writing'
  PROVE  Sound'
<1>1. \A d \in Caller : CallOK(d)'
  BY OneCall DEF Sound
<1>2. TypeOK'
  BY DEF Sound, TypeOK, CallTypes, StorageOK
<1> QED
  BY <1>1, <1>2 DEF Sound, StorageOK

\* What is to be stored is a set of events, which are all up to to_block.
LEMMA GotFacts ==
  ASSUME Sound, NEW c \in Caller, pc[c] \in {"store", "write"}
  PROVE  Range(got[c]) = UpTo(Log, to[c]) /\ Range(got[c]) \subseteq Log
<1>1. CallOK(c) /\ to[c] \in Int
  BY CallFacts
<1>2. got[c] = Exact(to[c])
  BY <1>1 DEF CallOK
<1> QED
  BY <1>1, <1>2, ExactFacts DEF UpTo

\* There is nothing to store.
LEMMA StoreNothingSound ==
  ASSUME Sound, NEW c \in Caller, StoreNothing(c) PROVE Sound'
<1>1. CallTypes' /\ Elsewhere(c) /\ CallOK(c)' /\ pc'[c] # "write"
  BY CallFacts, ReturnOK DEF StoreNothing
<1> QED
  BY <1>1, QuietStep DEF StoreNothing

\* One transaction.
LEMMA StoreRowsSound ==
  ASSUME Sound, NEW c \in Caller, StoreRows(c) PROVE Sound'
<1>1. CallTypes' /\ Elsewhere(c) /\ CallOK(c)' /\ pc'[c] # "write"
  BY CallFacts, ReturnOK DEF StoreRows
<1>2. Range(got[c]) = UpTo(Log, to[c]) /\ Range(got[c]) \subseteq Log
  BY GotFacts DEF StoreRows
<1>3. /\ files' = files \cup Range(got[c]) /\ marker' = to[c] /\ torn' = torn
      /\ kept' = kept /\ tables' = tables /\ backend' = backend
  BY DEF StoreRows
<1>4. StorageOK'
  <2>1. /\ files \subseteq Log /\ torn \subseteq Log /\ to[c] \in Block
        /\ kept \subseteq Epochs \X Seq(Log) /\ tables \subseteq Epochs \X Seq(Log)
    BY CallFacts DEF Sound, TypeOK
  <2>2. TableExact'
    BY <1>3 DEF Sound, TableExact
  <2>3. MarkerCovers'
    BY <1>2, <1>3 DEF MarkerCovers
  <2> QED
    BY <1>2, <1>3, <2>1, <2>2, <2>3 DEF StorageOK
<1>5. Writing'
  <2>1. \A d \in Caller : pc[d] # "write"
    BY DEF Sound, Writing, StoreRows
  <2>2. \A d \in Caller : pc'[d] # "write"
    BY <1>1, <2>1 DEF Elsewhere
  <2> QED
    BY <2>2 DEF Writing
<1> QED
  BY <1>1, <1>4, <1>5, StorageStep DEF StoreRows

\* The lock is taken.
LEMMA StoreFilesSound ==
  ASSUME Sound, NEW c \in Caller, StoreFiles(c) PROVE Sound'
<1>1. CallTypes /\ CallOK(c)
  BY CallFacts
<1>2. /\ pc[c] = "store" /\ pc' = [pc EXCEPT ![c] = "write"] /\ to' = to /\ from' = from
      /\ got' = got /\ backend' = backend /\ marker' = marker /\ finalized' = finalized
      /\ backend = "fs" /\ marker <= to[c]
  BY DEF StoreFiles, stored
<1>3. CallTypes' /\ Elsewhere(c) /\ pc'[c] = "write"
  BY <1>1, <1>2 DEF CallTypes, Elsewhere
<1>4. CallOK(c)'
  BY <1>1, <1>2, <1>3 DEF CallOK, Exact
<1>5. \A d \in Caller : CallOK(d)'
  BY <1>3, <1>4, OneCall DEF Sound
<1>6. Writing'
  <2>1. \A d \in Caller \ {c} : pc'[d] # "write"
    BY <1>3 DEF StoreFiles, Unlocked, Elsewhere
  <2> QED
    BY <1>2, <2>1 DEF Writing
<1>7. finalized' \in Block
  BY <1>2 DEF Sound, TypeOK
<1> QED
  BY <1>3, <1>5, <1>6, <1>7, StorageStays DEF StoreFiles

\* The event written next is one of those that are missing.
LEMMA NextMissing ==
  ASSUME Sound, NEW c \in Caller, pc[c] = "write", Missing(c) # {}
  PROVE  Min(Missing(c)) \in Log
<1>1. Range(got[c]) \subseteq Log
  BY GotFacts
<1>2. Missing(c) \in SUBSET Nat /\ Missing(c) \subseteq Log
  BY <1>1, FetchAssumption DEF Missing, Log
<1>3. \E n \in Missing(c) : \A m \in Missing(c) : n <= m
  BY <1>2, LeastMember
<1>4. Min(Missing(c)) \in Missing(c)
  BY <1>3 DEF Min
<1> QED
  BY <1>2, <1>4

\* An event is written, or its file only created.
LEMMA WriteEventSound ==
  ASSUME Sound, NEW c \in Caller, WriteEvent(c) \/ TearEvent(c) PROVE Sound'
<1>0. pc[c] = "write" /\ Missing(c) # {}
  BY DEF WriteEvent, TearEvent
<1>1. /\ files \subseteq files' /\ torn \subseteq torn' /\ files' \subseteq Log /\ torn' \subseteq Log
  BY <1>0, NextMissing DEF WriteEvent, TearEvent, Sound, TypeOK
<1>2. /\ pc' = pc /\ to' = to /\ from' = from /\ got' = got /\ backend' = backend
      /\ marker' = marker /\ kept' = kept /\ tables' = tables /\ crashes' = crashes
      /\ finalized' = finalized
  BY DEF WriteEvent, TearEvent, call
<1>3. TypeOK'
  BY <1>1, <1>2 DEF Sound, TypeOK
<1>4. MarkerCovers' /\ TableExact' /\ Writing'
  BY <1>1, <1>2 DEF Sound, MarkerCovers, TableExact, Writing
<1>5. \A d \in Caller : CallOK(d)'
  BY <1>2 DEF Sound, CallOK, Exact
<1> QED
  BY <1>3, <1>4, <1>5 DEF Sound

\* The stored block moves once all the events up to it have their files.
LEMMA WriteMarkerSound ==
  ASSUME Sound, NEW c \in Caller, WriteMarker(c) PROVE Sound'
<1>1. CallTypes' /\ Elsewhere(c) /\ CallOK(c)' /\ pc'[c] # "write"
  BY CallFacts, ReturnOK DEF WriteMarker
<1>2. Range(got[c]) = UpTo(Log, to[c]) /\ Range(got[c]) \subseteq files \cup torn
  BY GotFacts DEF WriteMarker, Missing
<1>3. /\ files' = files /\ marker' = to[c] /\ torn' = torn
      /\ kept' = kept /\ tables' = tables /\ backend' = backend
  BY DEF WriteMarker
<1>4. StorageOK'
  <2>1. /\ files \subseteq Log /\ torn \subseteq Log /\ to[c] \in Block
        /\ kept \subseteq Epochs \X Seq(Log) /\ tables \subseteq Epochs \X Seq(Log)
    BY CallFacts DEF Sound, TypeOK
  <2>2. TableExact'
    BY <1>3 DEF Sound, TableExact
  <2>3. MarkerCovers'
    BY <1>2, <1>3 DEF MarkerCovers
  <2> QED
    BY <1>3, <2>1, <2>2, <2>3 DEF StorageOK
<1>5. Writing'
  <2>1. \A d \in Caller \ {c} : pc[d] # "write"
    BY DEF Sound, Writing, WriteMarker
  <2>2. \A d \in Caller : pc'[d] # "write"
    BY <1>1, <2>1 DEF Elsewhere
  <2> QED
    BY <2>2 DEF Writing
<1> QED
  BY <1>1, <1>4, <1>5, StorageStep DEF WriteMarker

\* A failure: the loop starts over with the same block, an epoch gives up.
LEMMA FailSound ==
  ASSUME Sound, NEW c \in Caller, Fail(c) PROVE Sound'
<1>1. CallTypes /\ CallOK(c)
  BY CallFacts
<1>2. CASE c = Loop
  <2>1. /\ pc' = [pc EXCEPT ![c] = "load"] /\ from' = [from EXCEPT ![c] = -1]
        /\ got' = [got EXCEPT ![c] = << >>] /\ to' = to
    BY <1>2 DEF Fail
  <2>2. /\ CallTypes' /\ Elsewhere(c) /\ pc'[c] = "load" /\ from'[c] = -1 /\ got'[c] = << >>
    BY <1>1, <2>1 DEF CallTypes, Elsewhere
  <2>3. c \notin Epochs
    BY <1>2, FetchAssumption DEF Loop
  <2>4. CallOK(c)'
    BY <2>2, <2>3 DEF CallOK
  <2> QED
    BY <2>2, <2>4, QuietStep DEF Fail
<1>3. CASE c # Loop
  <2>1. Leave(c)
    BY <1>3 DEF Fail
  <2> QED
    BY <1>1, <2>1, LeaveOK, QuietStep DEF Fail
<1> QED
  BY <1>2, <1>3

\* The table of an epoch is made from the events up to its block.
LEMMA KeepTableSound ==
  ASSUME Sound, NEW e \in Epochs, KeepTable(e) PROVE Sound'
<1> DEFINE Put(S) == {p \in S : p[1] # e} \cup {<<e, got[e]>>}
<1>0. e \in Caller
  BY DEF Caller
<1>1. CallTypes /\ CallOK(e) /\ to[e] \in Int
  BY <1>0, CallFacts
<1>2. CallTypes' /\ Elsewhere(e) /\ CallOK(e)' /\ pc'[e] = "idle"
  BY <1>0, <1>1, LeaveOK DEF KeepTable
<1>3. /\ files' = files /\ torn' = torn /\ marker' = marker /\ backend' = backend
      /\ kept' \in {kept, Put(kept)} /\ tables' = Put(tables) /\ pc[e] = "keep"
  BY DEF KeepTable
<1>4. got[e] = Exact(RootBlock[e]) /\ got[e] \in Seq(Log)
  BY <1>0, <1>1, <1>3, ExactFacts DEF CallOK, CallTypes
<1>5. ASSUME NEW S, S \subseteq Epochs \X Seq(Log),
             \A p \in S : p[2] = Sorted(UpTo(Log, RootBlock[p[1]]))
      PROVE  /\ Put(S) \subseteq Epochs \X Seq(Log)
             /\ \A p \in Put(S) : p[2] = Sorted(UpTo(Log, RootBlock[p[1]]))
  <2>1. <<e, got[e]>> \in Epochs \X Seq(Log)
    BY <1>4
  <2>2. <<e, got[e]>>[1] = e /\ <<e, got[e]>>[2] = Sorted(UpTo(Log, RootBlock[e]))
    BY <1>4 DEF Exact
  <2>3. \A p \in Put(S) : p \in S \/ p = <<e, got[e]>>
    OBVIOUS
  <2> HIDE DEF Put
  <2> QED
    BY <1>5, <2>1, <2>2, <2>3, Zenon
<1>6. /\ kept \subseteq Epochs \X Seq(Log) /\ tables \subseteq Epochs \X Seq(Log)
      /\ \A p \in kept : p[2] = Sorted(UpTo(Log, RootBlock[p[1]]))
      /\ \A p \in tables : p[2] = Sorted(UpTo(Log, RootBlock[p[1]]))
  BY DEF Sound, TypeOK, TableExact
<1> HIDE DEF Put
<1>7. /\ kept' \subseteq Epochs \X Seq(Log) /\ tables' \subseteq Epochs \X Seq(Log)
      /\ \A p \in kept' : p[2] = Sorted(UpTo(Log, RootBlock[p[1]]))
      /\ \A p \in tables' : p[2] = Sorted(UpTo(Log, RootBlock[p[1]]))
  <2>1. /\ Put(kept) \subseteq Epochs \X Seq(Log) /\ Put(tables) \subseteq Epochs \X Seq(Log)
        /\ \A p \in Put(kept) : p[2] = Sorted(UpTo(Log, RootBlock[p[1]]))
        /\ \A p \in Put(tables) : p[2] = Sorted(UpTo(Log, RootBlock[p[1]]))
    BY <1>5, <1>6, Zenon
  <2>2. kept' = kept \/ kept' = Put(kept)
    BY <1>3
  <2>3. tables' = Put(tables)
    BY <1>3
  <2> QED
    BY <1>6, <2>1, <2>2, <2>3, Zenon
<1>8. StorageOK'
  <2>1. TableExact'
    BY <1>7 DEF TableExact
  <2>2. MarkerCovers'
    BY <1>3 DEF Sound, MarkerCovers
  <2> QED
    BY <1>3, <1>7, <2>1, <2>2 DEF StorageOK, Sound, TypeOK
<1>9. Writing'
  BY <1>0, <1>2, <1>3, NoNewWriter DEF Sound
<1> QED
  BY <1>0, <1>2, <1>8, <1>9, StorageStep DEF KeepTable

\* The node stops and starts again: the calls are gone, and a file that was
\* being created may stay without its content.
LEMMA CrashSound == ASSUME Sound, Crash PROVE Sound'
<1>1. /\ files' = files /\ marker' = marker /\ kept' = kept /\ backend' = backend
      /\ finalized' = finalized /\ tables' \in {kept, {}}
      /\ crashes < MaxCrashes /\ crashes' = crashes + 1
      /\ pc' = [c \in Caller |-> "idle"] /\ to' = [c \in Caller |-> 0]
      /\ from' = [c \in Caller |-> -1] /\ got' = [c \in Caller |-> << >>]
  BY DEF Crash
<1>2. torn \subseteq torn' /\ torn' \subseteq Log
  <2>0. torn \subseteq Log
    BY DEF Sound, TypeOK
  <2>1. CASE torn' = torn
    BY <2>0, <2>1
  <2>2. CASE torn' # torn
    <3>1. PICK c \in Caller : /\ pc[c] = "write" /\ Missing(c) # {}
                              /\ torn' = torn \cup {Min(Missing(c))}
      BY <2>2 DEF Crash
    <3>2. Min(Missing(c)) \in Log
      BY <3>1, NextMissing
    <3> QED
      BY <2>0, <3>1, <3>2
  <2> QED
    BY <2>1, <2>2
<1>3. CallTypes'
  <2>1. 0 \in Block /\ << >> \in Seq(Log)
    BY FetchAssumption DEF Block
  <2> QED
    BY <1>1, <2>1 DEF CallTypes
<1>4. crashes' \in 0..MaxCrashes
  BY <1>1, FetchAssumption DEF Sound, TypeOK
<1>5. TypeOK'
  BY <1>1, <1>2, <1>3, <1>4 DEF Sound, TypeOK, CallTypes
<1>6. MarkerCovers' /\ TableExact'
  BY <1>1, <1>2 DEF Sound, MarkerCovers, TableExact
<1>7. Writing' /\ \A c \in Caller : CallOK(c)'
  BY <1>1 DEF Writing, CallOK
<1> QED
  BY <1>5, <1>6, <1>7 DEF Sound

\* The node starts with nothing.
LEMMA InitSound == Init => Sound
<1> SUFFICES ASSUME Init PROVE Sound
  OBVIOUS
<1>1. 0 \in Block /\ << >> \in Seq(Log) /\ 0 \in 0..MaxCrashes
  BY FetchAssumption DEF Block
<1>2. TypeOK
  BY <1>1 DEF Init, TypeOK
<1>3. MarkerCovers
  BY FetchAssumption DEF Init, MarkerCovers, UpTo, Block
<1>4. TableExact /\ Writing /\ \A c \in Caller : CallOK(c)
  BY DEF Init, TableExact, Writing, CallOK
<1> QED
  BY <1>2, <1>3, <1>4 DEF Sound

\* Every step keeps the invariant.
LEMMA SoundStep == Sound /\ [Next]_vars => Sound'
<1> SUFFICES ASSUME Sound, [Next]_vars PROVE Sound'
  OBVIOUS
<1>1. CASE UNCHANGED vars
  <2>1. /\ backend' = backend /\ finalized' = finalized /\ files' = files /\ torn' = torn
        /\ marker' = marker /\ kept' = kept /\ tables' = tables /\ crashes' = crashes
        /\ pc' = pc /\ to' = to /\ from' = from /\ got' = got
    BY <1>1 DEF vars, stored, call
  <2> QED
    BY <2>1 DEF Sound, TypeOK, MarkerCovers, TableExact, Writing, CallOK, Exact
<1>2. CASE Finalize
  BY <1>2, FinalizeSound
<1>3. CASE StartUpdate
  <2>1. Loop \in Caller /\ Loop \notin Epochs /\ finalized \in Block
    BY FetchAssumption DEF Caller, Loop, Sound, TypeOK
  <2> QED
    BY <1>3, <2>1, BeginSound DEF StartUpdate
<1>4. CASE Crash
  BY <1>4, CrashSound
<1>5. ASSUME NEW e \in Epochs, AddEpochRoot(e) \/ KeepTable(e) PROVE Sound'
  <2>1. e \in Caller /\ RootBlock[e] \in Block
    BY FetchAssumption DEF Caller
  <2> QED
    BY <1>5, <2>1, BeginSound, KeepTableSound DEF AddEpochRoot
<1>6. ASSUME NEW c \in Caller,
             Load(c) \/ Query(c) \/ Store(c) \/ Write(c) \/ TearEvent(c) \/ Fail(c)
      PROVE  Sound'
  <2>1. CASE Load(c)
    BY <2>1, LoadNothingSound, LoadStoredSound DEF Load
  <2>2. CASE Query(c)
    BY <2>2, QuerySound
  <2>3. CASE Store(c)
    BY <2>3, StoreNothingSound, StoreRowsSound, StoreFilesSound DEF Store
  <2>4. CASE Write(c) \/ TearEvent(c)
    BY <2>4, WriteEventSound, WriteMarkerSound DEF Write
  <2>5. CASE Fail(c)
    BY <2>5, FailSound
  <2> QED
    BY <1>6, <2>1, <2>2, <2>3, <2>4, <2>5
<1> QED
  BY <1>1, <1>2, <1>3, <1>4, <1>5, <1>6, Zenon DEF Next

-----------------------------------------------------------------------------
\* Every stake table that add_epoch_root makes or stores comes from exactly the
\* events up to the block of the epoch's root, in order and each once: not
\* from what happened to be stored, nor from the ranges that were queried.
THEOREM TablesAlwaysExact == Spec => []TableExact
<1>1. Sound => TableExact
  BY DEF Sound
<1> QED
  BY <1>1, InitSound, SoundStep, PTL DEF Spec

\* The stored block is never ahead of the stored events, whatever write a
\* crash or an error interrupts.
THEOREM MarkerAlwaysCovers == Spec => []MarkerCovers
<1>1. Sound => MarkerCovers
  BY DEF Sound
<1> QED
  BY <1>1, InitSound, SoundStep, PTL DEF Spec

\* The stored block never falls back, although callers with different blocks
\* compare theirs with it before they take the time to write.
THEOREM MarkerMonotone == Spec => MarkerNeverFallsBack
<1>1. ASSUME Sound, [Next]_vars PROVE [marker <= marker']_vars
  <2>0. marker \in Int
    BY <1>1, FetchAssumption DEF Sound, TypeOK, Block
  <2>1. CASE marker' = marker
    BY <2>0, <2>1
  <2>2. CASE \E c \in Caller : StoreRows(c) \/ WriteMarker(c)
    <3>1. PICK c \in Caller : StoreRows(c) \/ WriteMarker(c)
      BY <2>2
    <3>2. marker' = to[c] /\ marker <= to[c]
      BY <1>1, <3>1 DEF StoreRows, WriteMarker, Sound, Writing
    <3> QED
      BY <3>2
  <2>3. CASE UNCHANGED vars
    BY <2>3
  <2>4. ASSUME Next, ~\E c \in Caller : StoreRows(c) \/ WriteMarker(c) PROVE marker' = marker
    <3>1. CASE Finalize \/ StartUpdate \/ Crash
      BY <3>1 DEF Finalize, StartUpdate, Begin, Crash, stored
    <3>2. CASE \E e \in Epochs : AddEpochRoot(e) \/ KeepTable(e)
      BY <3>2 DEF AddEpochRoot, Begin, KeepTable, stored
    <3>3. CASE \E c \in Caller : Load(c) \/ Query(c) \/ Store(c) \/ Write(c) \/ TearEvent(c) \/ Fail(c)
      <4>1. PICK c \in Caller : Load(c) \/ Query(c) \/ Store(c) \/ Write(c) \/ TearEvent(c) \/ Fail(c)
        BY <3>3
      <4> QED
        BY <2>4, <4>1 DEF Load, LoadNothing, LoadStored, Query, Store, StoreNothing, StoreFiles,
                          Write, WriteEvent, TearEvent, Fail, stored
    <3> QED
      BY <2>4, <3>1, <3>2, <3>3, Zenon DEF Next
  <2> QED
    BY <1>1, <2>1, <2>2, <2>3, <2>4
<1> QED
  BY <1>1, InitSound, SoundStep, PTL DEF Spec, MarkerNeverFallsBack
=============================================================================
