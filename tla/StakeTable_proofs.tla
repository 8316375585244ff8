-------------------------- MODULE StakeTable_proofs --------------------------
(***************************************************************************)
(* Proofs about the StakeTable contract, and about the handlers of its      *)
(* events in the nodes' replay, for any number of validators, delegators,   *)
(* keys and events.                                                         *)
(***************************************************************************)
EXTENDS StakeTable, Integers, FiniteSetTheorems, WellFoundedInduction, TLAPS

-----------------------------------------------------------------------------
\* Sums over finite sets.  The library defines a sum by a recursive function
\* that removes an element chosen arbitrarily; the proofs need to remove the
\* element they care about.

\* A set of natural numbers with a member has a smallest one.
LEMMA LeastMember ==
  ASSUME NEW T \in SUBSET Nat, T # {}
  PROVE  \E n \in T : \A m \in T : n <= m
<1>1. \E x \in T : \A y \in T : ~ (<<y, x>> \in OpToRel(<, Nat))
  BY WFMin, NatLessThanWellFounded, Zenon
<1>2. \A x, y \in T : ~ (<<y, x>> \in OpToRel(<, Nat)) => x <= y
  BY DEF OpToRel
<1> QED
  BY <1>1, <1>2, Zenon

\* A set of natural numbers with a member and a bound has a largest one.
LEMMA LargestMember ==
  ASSUME NEW T \in SUBSET Nat, T # {}, NEW b \in Nat, \A m \in T : m <= b
  PROVE  \E n \in T : \A m \in T : m <= n
<1> DEFINE U == {n \in Nat : \A m \in T : m <= n}
<1>1. PICK n \in U : \A k \in U : n <= k
  BY LeastMember, Zenon
<1>2. n \in T
  <2> SUFFICES ASSUME n \notin T PROVE FALSE
    OBVIOUS
  <2>1. \A m \in T : m <= n /\ m # n /\ m \in Nat
    OBVIOUS
  <2>2. n # 0
    <3>1. PICK m \in T : TRUE
      BY Zenon
    <3> QED
      BY <2>1, <3>1
  <2>3. n - 1 \in U
    BY <2>1, <2>2
  <2> QED
    BY <1>1, <2>3
<1> QED
  BY <1>2

\* The element a sum removes first.
Pick(s) == CHOOSE x \in s : TRUE

\* h is the table of the sums of f over the sets of D.
IsSumTable(h, f, D) ==
  h = [s \in D |-> IF s = {} THEN 0 ELSE f[Pick(s)] + h[s \ {Pick(s)}]]

\* Pick returns a member.
LEMMA PickIn == ASSUME NEW s, s # {} PROVE Pick(s) \in s
  BY Zenon DEF Pick

\* The subsets of S with at most n elements.
UpToSize(S, n) == {s \in SUBSET S : Cardinality(s) <= n}

\* Removing what Pick returns makes a set smaller by one.
LEMMA PickSmaller ==
  ASSUME NEW S, IsFiniteSet(S), NEW n \in Nat, NEW s \in UpToSize(S, n + 1), s # {}
  PROVE  s \ {Pick(s)} \in UpToSize(S, n)
<1>1. IsFiniteSet(s) /\ Cardinality(s) \in Nat
  BY FS_Subset, FS_CardinalityType DEF UpToSize
<1>2. Cardinality(s \ {Pick(s)}) = Cardinality(s) - 1
  BY <1>1, FS_RemoveElement, PickIn, Zenon
<1> QED
  BY <1>1, <1>2 DEF UpToSize

\* The table of the sums over the subsets of a finite set exists.
LEMMA SumTableExists ==
  ASSUME NEW S, IsFiniteSet(S), NEW f
  PROVE  \E h : IsSumTable(h, f, SUBSET S)
<1> DEFINE Has(n) == \E h : IsSumTable(h, f, UpToSize(S, n))
           T == {n \in Nat : ~Has(n)}
<1>1. Has(0)
  <2>1. \A s \in UpToSize(S, 0) : s = {}
    BY FS_Subset, FS_EmptySet, FS_CardinalityType DEF UpToSize
  <2>2. IsSumTable([s \in UpToSize(S, 0) |-> 0], f, UpToSize(S, 0))
    BY <2>1, Zenon DEF IsSumTable
  <2> QED
    BY <2>2, Zenon
<1>2. \A n \in Nat : Has(n) => Has(n + 1)
  <2> SUFFICES ASSUME NEW n \in Nat, NEW h0, IsSumTable(h0, f, UpToSize(S, n))
               PROVE  Has(n + 1)
    BY Zenon
  <2> DEFINE D == UpToSize(S, n + 1)
             h == [s \in D |-> IF s = {} THEN 0 ELSE f[Pick(s)] + h0[s \ {Pick(s)}]]
  <2>1. UpToSize(S, n) \subseteq D
    <3>1. \A s \in SUBSET S : Cardinality(s) \in Nat
      BY FS_Subset, FS_CardinalityType
    <3> QED
      BY <3>1 DEF UpToSize
  <2>2. \A t \in UpToSize(S, n) : h[t] = h0[t]
    <3> SUFFICES ASSUME NEW t \in UpToSize(S, n) PROVE h[t] = h0[t]
      BY Zenon
    <3>1. h[t] = IF t = {} THEN 0 ELSE f[Pick(t)] + h0[t \ {Pick(t)}]
      BY <2>1, Zenon
    <3>2. h0[t] = IF t = {} THEN 0 ELSE f[Pick(t)] + h0[t \ {Pick(t)}]
      BY Zenon DEF IsSumTable
    <3> QED
      BY <3>1, <3>2, Zenon
  <2>3. \A s \in D : s # {} => h[s \ {Pick(s)}] = h0[s \ {Pick(s)}]
    BY <2>2, PickSmaller, Zenon
  <2>4. h = [s \in D |-> IF s = {} THEN 0 ELSE f[Pick(s)] + h[s \ {Pick(s)}]]
    <3> DEFINE g == [s \in D |-> IF s = {} THEN 0 ELSE f[Pick(s)] + h[s \ {Pick(s)}]]
    <3>1. \A s \in D : h[s] = g[s]
      <4> SUFFICES ASSUME NEW s \in D PROVE h[s] = g[s]
        BY Zenon
      <4>1. CASE s = {}
        BY <4>1, Zenon
      <4>2. CASE s # {}
        BY <4>2, <2>3, Zenon
      <4> QED
        BY <4>1, <4>2, Zenon
    <3> QED
      BY <3>1, Zenon
  <2> QED
    BY <2>4, Zenon DEF IsSumTable
<1> HIDE DEF Has
<1>3. T = {}
  <2> SUFFICES ASSUME T # {} PROVE FALSE
    OBVIOUS
  <2>1. PICK n \in T : \A m \in T : n <= m
    BY LeastMember, Zenon
  <2>2. n # 0
    BY <1>1
  <2>3. n - 1 \in Nat /\ ~(n <= n - 1) /\ (n - 1) + 1 = n
    BY <2>2
  <2>4. n - 1 \notin T
    BY <2>1, <2>3, Zenon
  <2> QED
    BY <1>2, <2>3, <2>4
<1>4. Has(Cardinality(S))
  BY <1>3, FS_CardinalityType
<1>5. UpToSize(S, Cardinality(S)) = SUBSET S
  BY FS_Subset DEF UpToSize
<1> QED
  BY <1>4, <1>5 DEF Has

-----------------------------------------------------------------------------

\* f and g agree on s.
SameOn(f, g, s) == \A x \in s : f[x] = g[x]

\* h is a table of sums of f with an entry for the finite set s.
HasSum(h, f, s) == IsFiniteSet(s) /\ \E S : IsSumTable(h, f, SUBSET S) /\ s \subseteq S

\* Two tables give a set the same sum when the functions agree on its members.
LEMMA SumTablesAgree ==
  ASSUME NEW h, NEW f, NEW k, NEW g, NEW s,
         HasSum(h, f, s), HasSum(k, g, s), SameOn(f, g, s)
  PROVE  h[s] = k[s]
<1>a. PICK S : IsSumTable(h, f, SUBSET S) /\ s \subseteq S
  BY Zenon DEF HasSum
<1>b. PICK R : IsSumTable(k, g, SUBSET R) /\ s \subseteq R
  BY Zenon DEF HasSum
<1>c. IsFiniteSet(s)
  BY Zenon DEF HasSum
<1> DEFINE Bad(n) == \E t \in SUBSET s : Cardinality(t) = n /\ h[t] # k[t]
           T == {n \in Nat : Bad(n)}
<1>1. T = {}
  <2> SUFFICES ASSUME T # {} PROVE FALSE
    OBVIOUS
  <2>1. PICK n \in T : \A m \in T : n <= m
    <3> HIDE DEF Bad
    <3> QED BY LeastMember, Zenon
  <2>2. PICK t \in SUBSET s : Cardinality(t) = n /\ h[t] # k[t]
    BY Zenon
  <2>3. h[t] = (IF t = {} THEN 0 ELSE f[Pick(t)] + h[t \ {Pick(t)}])
    BY <1>a, Zenon DEF IsSumTable
  <2>4. k[t] = (IF t = {} THEN 0 ELSE g[Pick(t)] + k[t \ {Pick(t)}])
    BY <1>b, Zenon DEF IsSumTable
  <2>5. t # {}
    BY <2>2, <2>3, <2>4, Zenon
  <2>6. Pick(t) \in t
    BY <2>5, PickIn, Zenon
  <2>7. Cardinality(t \ {Pick(t)}) = n - 1 /\ n - 1 \in Nat
    <3>1. IsFiniteSet(t)
      BY <1>c, FS_Subset
    <3>2. Cardinality(t \ {Pick(t)}) = Cardinality(t) - 1
      BY <3>1, <2>6, FS_RemoveElement, Zenon
    <3>3. Cardinality(t \ {Pick(t)}) \in Nat
      BY <3>1, FS_RemoveElement, FS_CardinalityType, Zenon
    <3> QED
      BY <3>2, <3>3, <2>2
  <2>8. n - 1 \notin T
    <3> HIDE DEF Bad
    <3> QED BY <2>1, <2>7
  <2>9. h[t \ {Pick(t)}] = k[t \ {Pick(t)}]
    <3>1. t \ {Pick(t)} \in SUBSET s
      BY Zenon
    <3> QED
      BY <3>1, <2>7, <2>8, Zenon
  <2>10. f[Pick(t)] = g[Pick(t)]
    BY <2>6, Zenon DEF SameOn
  <2> QED
    BY <2>2, <2>3, <2>4, <2>5, <2>9, <2>10, Zenon
<1>2. Cardinality(s) \in Nat
  BY <1>c, FS_CardinalityType
<1>3. ~Bad(Cardinality(s))
  <2> HIDE DEF Bad
  <2> QED BY <1>1, <1>2
<1> QED
  BY <1>3, Zenon

\* The sum is the entry of the set itself in any table that has one.
LEMMA SumFromTable ==
  ASSUME NEW S, IsFiniteSet(S), NEW f, NEW h, NEW R, IsSumTable(h, f, SUBSET R), S \subseteq R
  PROVE  SumFunctionOnSet(f, S) = h[S]
<1> DEFINE k == CHOOSE k : IsSumTable(k, f, SUBSET S)
<1>1. SumFunctionOnSet(f, S) = k[S]
  BY DEF SumFunctionOnSet, FoldFunctionOnSet, MapThenFoldSet, IsSumTable, Pick
<1>2. IsSumTable(k, f, SUBSET S)
  BY SumTableExists, Zenon
<1> HIDE DEF k
<1>3. HasSum(h, f, S) /\ HasSum(k, f, S)
  BY <1>2, Zenon DEF HasSum
<1>7. SameOn(f, f, S)
  BY Zenon DEF SameOn
<1>4. h[S] = k[S]
  BY <1>3, <1>7, SumTablesAgree
<1> QED
  BY <1>1, <1>4

\* Summing over nothing.
LEMMA SumEmpty == ASSUME NEW f PROVE SumFunctionOnSet(f, {}) = 0
<1>1. IsFiniteSet({})
  BY FS_EmptySet
<1>2. PICK h : IsSumTable(h, f, SUBSET {})
  BY <1>1, SumTableExists, Zenon
<1>3. h[{}] = 0
  BY <1>2, Zenon DEF IsSumTable
<1> QED
  BY <1>1, <1>2, <1>3, SumFromTable, Zenon

\* Removing the element that the definition removes.
LEMMA SumPick ==
  ASSUME NEW S, IsFiniteSet(S), S # {}, NEW f
  PROVE  SumFunctionOnSet(f, S) = f[Pick(S)] + SumFunctionOnSet(f, S \ {Pick(S)})
<1>1. PICK h : IsSumTable(h, f, SUBSET S)
  BY SumTableExists, Zenon
<1>2. h[S] = f[Pick(S)] + h[S \ {Pick(S)}]
  BY <1>1, Zenon DEF IsSumTable
<1>3. IsFiniteSet(S \ {Pick(S)}) /\ S \ {Pick(S)} \subseteq S /\ S \subseteq S
  BY FS_RemoveElement
<1>4. SumFunctionOnSet(f, S) = h[S]
  BY <1>1, <1>3, SumFromTable
<1>5. SumFunctionOnSet(f, S \ {Pick(S)}) = h[S \ {Pick(S)}]
  BY <1>1, <1>3, SumFromTable
<1> QED
  BY <1>2, <1>4, <1>5, Zenon

\* Only the values at the members count.
LEMMA SumEqual ==
  ASSUME NEW S, IsFiniteSet(S), NEW f, NEW g, \A x \in S : f[x] = g[x]
  PROVE  SumFunctionOnSet(f, S) = SumFunctionOnSet(g, S)
<1>1. PICK h : IsSumTable(h, f, SUBSET S)
  BY SumTableExists, Zenon
<1>2. PICK k : IsSumTable(k, g, SUBSET S)
  BY SumTableExists, Zenon
<1>3. SumFunctionOnSet(f, S) = h[S] /\ SumFunctionOnSet(g, S) = k[S]
  BY <1>1, <1>2, SumFromTable
<1>4. HasSum(h, f, S) /\ HasSum(k, g, S)
  BY <1>1, <1>2, Zenon DEF HasSum
<1>7. SameOn(f, g, S)
  BY Zenon DEF SameOn
<1>5. h[S] = k[S]
  BY <1>4, <1>7, SumTablesAgree
<1> QED
  BY <1>3, <1>5

\* A sum of natural numbers is one.
LEMMA SumType ==
  ASSUME NEW S, IsFiniteSet(S), NEW f, \A x \in S : f[x] \in Nat
  PROVE  SumFunctionOnSet(f, S) \in Nat
<1> DEFINE Bad(n) == \E t \in SUBSET S : Cardinality(t) = n /\ SumFunctionOnSet(f, t) \notin Nat
           T == {n \in Nat : Bad(n)}
<1>0. \A t \in SUBSET S : IsFiniteSet(t) /\ Cardinality(t) \in Nat
  BY FS_Subset, FS_CardinalityType
<1>1. T = {}
  <2> SUFFICES ASSUME T # {} PROVE FALSE
    OBVIOUS
  <2>1. PICK n \in T : \A m \in T : n <= m
    <3> HIDE DEF Bad
    <3> QED BY LeastMember, Zenon
  <2>2. PICK t \in SUBSET S : Cardinality(t) = n /\ SumFunctionOnSet(f, t) \notin Nat
    BY Zenon
  <2>3. t # {}
    <3>1. 0 \in Nat
      OBVIOUS
    <3> QED
      BY <2>2, <3>1, SumEmpty, Zenon
  <2> DEFINE r == t \ {Pick(t)}
  <2>4. Pick(t) \in t
    BY <2>3, PickIn, Zenon
  <2>5. SumFunctionOnSet(f, t) = f[Pick(t)] + SumFunctionOnSet(f, r)
    BY <1>0, <2>3, SumPick, Zenon
  <2>6. Cardinality(r) = n - 1 /\ n - 1 \in Nat
    <3>1. Cardinality(r) = Cardinality(t) - 1
      BY <1>0, <2>4, FS_RemoveElement
    <3>2. r \in SUBSET S
      BY Zenon
    <3> HIDE DEF r
    <3> QED
      BY <3>1, <3>2, <2>2, <1>0
  <2>7. SumFunctionOnSet(f, r) \in Nat
    <3>1. n - 1 \notin T
      <4> HIDE DEF Bad, r
      <4> QED BY <2>1, <2>6
    <3>2. r \in SUBSET S
      BY Zenon
    <3> QED
      BY <2>6, <3>1, <3>2, Zenon
  <2>8. f[Pick(t)] \in Nat
    BY <2>4, Zenon
  <2> HIDE DEF r
  <2> QED
    BY <2>2, <2>5, <2>7, <2>8
<1>2. ~Bad(Cardinality(S))
  <2>1. Cardinality(S) \in Nat
    BY <1>0, Zenon
  <2> HIDE DEF Bad
  <2> QED BY <1>1, <2>1
<1> QED
  BY <1>2, Zenon

\* Removing any element: the order in which a sum is taken does not matter.
LEMMA SumRemove ==
  ASSUME NEW S, IsFiniteSet(S), NEW f, \A x \in S : f[x] \in Nat, NEW a \in S
  PROVE  SumFunctionOnSet(f, S) = f[a] + SumFunctionOnSet(f, S \ {a})
<1> DEFINE Bad(n) ==
             \E t \in SUBSET S : \E b \in t :
               Cardinality(t) = n
                 /\ SumFunctionOnSet(f, t) # f[b] + SumFunctionOnSet(f, t \ {b})
           T == {n \in Nat : Bad(n)}
<1>0. \A t \in SUBSET S : IsFiniteSet(t) /\ Cardinality(t) \in Nat
  BY FS_Subset, FS_CardinalityType
<1>1. T = {}
  <2> SUFFICES ASSUME T # {} PROVE FALSE
    OBVIOUS
  <2>1. PICK n \in T : \A m \in T : n <= m
    <3> HIDE DEF Bad
    <3> QED BY LeastMember, Zenon
  <2>a. PICK t \in SUBSET S : \E b \in t :
          Cardinality(t) = n /\ SumFunctionOnSet(f, t) # f[b] + SumFunctionOnSet(f, t \ {b})
    BY Zenon
  <2>2. PICK b \in t :
          Cardinality(t) = n /\ SumFunctionOnSet(f, t) # f[b] + SumFunctionOnSet(f, t \ {b})
    BY <2>a, Zenon
  <2> DEFINE c == Pick(t)
             r == (t \ {b}) \ {c}
  <2>3. c \in t /\ t # {}
    BY PickIn, Zenon
  <2>4. SumFunctionOnSet(f, t) = f[c] + SumFunctionOnSet(f, t \ {c})
    BY <1>0, <2>3, SumPick, Zenon
  <2>5. b # c
    BY <2>2, <2>4, Zenon
  <2>6. \A x \in t : Cardinality(t \ {x}) = n - 1 /\ t \ {x} \in SUBSET S /\ n - 1 \in Nat
    <3> TAKE x \in t
    <3>1. Cardinality(t \ {x}) = Cardinality(t) - 1
      BY <1>0, FS_RemoveElement
    <3>2. t \ {x} \in SUBSET S
      BY Zenon
    <3> QED
      BY <3>1, <3>2, <2>2, <1>0
  <2>7. n - 1 \notin T
    <3> HIDE DEF Bad
    <3> QED BY <2>1, <2>6, <2>3
  <2>8. \A x \in t : \A y \in t \ {x} :
          SumFunctionOnSet(f, t \ {x}) = f[y] + SumFunctionOnSet(f, (t \ {x}) \ {y})
    BY <2>6, <2>7, Zenon
  <2>9. SumFunctionOnSet(f, t \ {c}) = f[b] + SumFunctionOnSet(f, r)
    <3>1. (t \ {c}) \ {b} = r
      OBVIOUS
    <3>2. SumFunctionOnSet(f, t \ {c}) = f[b] + SumFunctionOnSet(f, (t \ {c}) \ {b})
      BY <2>3, <2>5, <2>8, Zenon
    <3> QED
      BY <3>1, <3>2, Zenon
  <2>10. SumFunctionOnSet(f, t \ {b}) = f[c] + SumFunctionOnSet(f, r)
    BY <2>3, <2>5, <2>8, Zenon
  <2>11. f[b] \in Nat /\ f[c] \in Nat /\ SumFunctionOnSet(f, r) \in Nat
    <3>1. r \in SUBSET S
      BY Zenon
    <3>2. IsFiniteSet(r) /\ \A x \in r : f[x] \in Nat
      BY <3>1, <1>0, Zenon
    <3> QED
      BY <2>3, <3>2, SumType, Zenon
  <2> HIDE DEF c, r, T
  <2>12. f[c] + (f[b] + SumFunctionOnSet(f, r)) = f[b] + (f[c] + SumFunctionOnSet(f, r))
    BY <2>11
  <2> QED
    BY <2>2, <2>4, <2>9, <2>10, <2>12, Zenon
<1>2. ~Bad(Cardinality(S))
  <2>1. Cardinality(S) \in Nat
    BY <1>0, Zenon
  <2> HIDE DEF Bad
  <2> QED BY <1>1, <2>1
<1> QED
  BY <1>2, Zenon

\* A sum of zeros.
LEMMA SumZero ==
  ASSUME NEW S, IsFiniteSet(S), NEW f, \A x \in S : f[x] = 0
  PROVE  SumFunctionOnSet(f, S) = 0
<1> DEFINE Bad(n) == \E t \in SUBSET S : Cardinality(t) = n /\ SumFunctionOnSet(f, t) # 0
           T == {n \in Nat : Bad(n)}
<1>0. \A t \in SUBSET S : IsFiniteSet(t) /\ Cardinality(t) \in Nat
  BY FS_Subset, FS_CardinalityType
<1>1. T = {}
  <2> SUFFICES ASSUME T # {} PROVE FALSE
    OBVIOUS
  <2>1. PICK n \in T : \A m \in T : n <= m
    <3> HIDE DEF Bad
    <3> QED BY LeastMember, Zenon
  <2>2. PICK t \in SUBSET S : Cardinality(t) = n /\ SumFunctionOnSet(f, t) # 0
    BY Zenon
  <2>3. t # {}
    BY <2>2, SumEmpty, Zenon
  <2> DEFINE r == t \ {Pick(t)}
  <2>4. Pick(t) \in t
    BY <2>3, PickIn, Zenon
  <2>5. SumFunctionOnSet(f, t) = f[Pick(t)] + SumFunctionOnSet(f, r)
    BY <1>0, <2>3, SumPick, Zenon
  <2>6. Cardinality(r) = n - 1 /\ n - 1 \in Nat
    <3>1. Cardinality(r) = Cardinality(t) - 1
      BY <1>0, <2>4, FS_RemoveElement
    <3>2. r \in SUBSET S
      BY Zenon
    <3> HIDE DEF r
    <3> QED
      BY <3>1, <3>2, <2>2, <1>0
  <2>7. SumFunctionOnSet(f, r) = 0
    <3>1. n - 1 \notin T
      <4> HIDE DEF Bad, r
      <4> QED BY <2>1, <2>6
    <3>2. r \in SUBSET S
      BY Zenon
    <3> QED
      BY <2>6, <3>1, <3>2, Zenon
  <2>8. f[Pick(t)] = 0
    BY <2>4, Zenon
  <2> HIDE DEF r
  <2> QED
    BY <2>2, <2>5, <2>7, <2>8
<1>2. ~Bad(Cardinality(S))
  <2>1. Cardinality(S) \in Nat
    BY <1>0, Zenon
  <2> HIDE DEF Bad
  <2> QED BY <1>1, <2>1
<1> QED
  BY <1>2, Zenon

\* One value changes.
LEMMA SumChange ==
  ASSUME NEW S, IsFiniteSet(S), NEW a \in S,
         NEW f, \A x \in S : f[x] \in Nat,
         NEW g, \A x \in S : g[x] \in Nat,
         \A x \in S \ {a} : g[x] = f[x]
  PROVE  SumFunctionOnSet(g, S) + f[a] = SumFunctionOnSet(f, S) + g[a]
<1> DEFINE R == S \ {a}
<1>1. IsFiniteSet(R)
  BY FS_RemoveElement
<1>2. SumFunctionOnSet(f, S) = f[a] + SumFunctionOnSet(f, R)
  BY SumRemove, Zenon
<1>3. SumFunctionOnSet(g, S) = g[a] + SumFunctionOnSet(g, R)
  BY SumRemove, Zenon
<1>4. SumFunctionOnSet(g, R) = SumFunctionOnSet(f, R)
  BY <1>1, SumEqual
<1>5. SumFunctionOnSet(f, R) \in Nat
  <2>1. \A x \in R : f[x] \in Nat
    BY Zenon
  <2> QED
    BY <1>1, <2>1, SumType, Zenon
<1>6. f[a] \in Nat /\ g[a] \in Nat
  BY Zenon
<1> HIDE DEF R
<1> QED
  BY <1>2, <1>3, <1>4, <1>5, <1>6

\* No value is larger than the sum.
LEMMA SumAtLeast ==
  ASSUME NEW S, IsFiniteSet(S), NEW f, \A x \in S : f[x] \in Nat, NEW a \in S
  PROVE  f[a] <= SumFunctionOnSet(f, S)
<1> DEFINE R == S \ {a}
<1>1. SumFunctionOnSet(f, S) = f[a] + SumFunctionOnSet(f, R)
  BY SumRemove, Zenon
<1>2. IsFiniteSet(R)
  BY FS_RemoveElement
<1>3. \A x \in R : f[x] \in Nat
  BY Zenon
<1>4. SumFunctionOnSet(f, R) \in Nat
  BY <1>2, <1>3, SumType, Zenon
<1> HIDE DEF R
<1> QED
  BY <1>1, <1>4

\* A new member adds its value.
LEMMA SumAdd ==
  ASSUME NEW S, IsFiniteSet(S), NEW f, \A x \in S : f[x] \in Nat,
         NEW a, a \notin S, f[a] \in Nat
  PROVE  SumFunctionOnSet(f, S \cup {a}) = SumFunctionOnSet(f, S) + f[a]
<1> DEFINE R == S \cup {a}
<1>1. IsFiniteSet(R) /\ a \in R /\ R \ {a} = S
  BY FS_AddElement
<1>2. \A x \in R : f[x] \in Nat
  BY Zenon
<1>3. SumFunctionOnSet(f, R) = f[a] + SumFunctionOnSet(f, R \ {a})
  BY <1>1, <1>2, SumRemove, Zenon
<1>4. SumFunctionOnSet(f, S) \in Nat
  BY SumType, Zenon
<1> HIDE DEF R
<1>6. SumFunctionOnSet(f, R) = f[a] + SumFunctionOnSet(f, S)
  BY <1>1, <1>3, Zenon
<1>5. SumFunctionOnSet(f, R) = SumFunctionOnSet(f, S) + f[a]
  BY <1>6, <1>4
<1> QED
  BY <1>5 DEF R

\* A sum over fewer members is no larger.
LEMMA SumMonotone ==
  ASSUME NEW S, IsFiniteSet(S), NEW f, \A x \in S : f[x] \in Nat, NEW R \in SUBSET S
  PROVE  SumFunctionOnSet(f, R) <= SumFunctionOnSet(f, S)
<1> DEFINE Bad(n) ==
             \E t \in SUBSET S : /\ Cardinality(t) = n /\ R \subseteq t
                                 /\ ~(SumFunctionOnSet(f, R) <= SumFunctionOnSet(f, t))
           T == {n \in Nat : Bad(n)}
<1>0. \A t \in SUBSET S : /\ IsFiniteSet(t) /\ Cardinality(t) \in Nat
                          /\ SumFunctionOnSet(f, t) \in Nat
  <2> TAKE t \in SUBSET S
  <2>1. IsFiniteSet(t) /\ Cardinality(t) \in Nat
    BY FS_Subset, FS_CardinalityType
  <2>2. \A x \in t : f[x] \in Nat
    BY Zenon
  <2> QED
    BY <2>1, <2>2, SumType, Zenon
<1>1. T = {}
  <2> SUFFICES ASSUME T # {} PROVE FALSE
    OBVIOUS
  <2>1. PICK n \in T : \A m \in T : n <= m
    <3> HIDE DEF Bad
    <3> QED BY LeastMember, Zenon
  <2>2. PICK t \in SUBSET S : /\ Cardinality(t) = n /\ R \subseteq t
                              /\ ~(SumFunctionOnSet(f, R) <= SumFunctionOnSet(f, t))
    BY Zenon
  <2>3. t # R
    <3>1. SumFunctionOnSet(f, R) <= SumFunctionOnSet(f, R)
      BY <1>0
    <3> QED
      BY <2>2, <3>1, Zenon
  <2>4. PICK a \in t : a \notin R
    BY <2>2, <2>3
  <2> DEFINE r == t \ {a}
  <2>5. r \in SUBSET S /\ R \subseteq r
    BY <2>2, <2>4
  <2>6. SumFunctionOnSet(f, t) = f[a] + SumFunctionOnSet(f, r)
    <3>1. \A x \in t : f[x] \in Nat
      BY Zenon
    <3> QED
      BY <3>1, <1>0, SumRemove, Zenon
  <2>7. Cardinality(r) = n - 1 /\ n - 1 \in Nat
    <3>1. Cardinality(r) = Cardinality(t) - 1
      BY <1>0, FS_RemoveElement
    <3> HIDE DEF r
    <3> QED
      BY <3>1, <2>5, <2>2, <1>0
  <2>8. n - 1 \notin T
    <3> HIDE DEF Bad, r
    <3> QED BY <2>1, <2>7
  <2>9. SumFunctionOnSet(f, R) <= SumFunctionOnSet(f, r)
    BY <2>5, <2>7, <2>8, Zenon
  <2>10. f[a] \in Nat /\ SumFunctionOnSet(f, R) \in Nat /\ SumFunctionOnSet(f, r) \in Nat
    BY <1>0, <2>5, Zenon
  <2> HIDE DEF r
  <2> QED
    BY <2>2, <2>6, <2>9, <2>10
<1>2. ~Bad(Cardinality(S))
  <2>1. Cardinality(S) \in Nat
    BY <1>0, Zenon
  <2> HIDE DEF Bad
  <2> QED BY <1>1, <2>1
<1> QED
  BY <1>2, Zenon

-----------------------------------------------------------------------------
\* The books of the contract.

\* A validator that never registered has no delegations: registerValidator
\* starts it with a delegated amount of 0.
NothingBeforeRegistration ==
  \A v \in Validator : status[v] = "Unknown" => \A d \in Delegator : delegations[v][d] = 0

\* Only a validator that left has an unlock time, so that claimValidatorExit
\* never takes a delegation from an active one.
ExitsOnlyOnceGone == \A v \in Validator : exits[v] # 0 => status[v] = "Exited"

\* The books of the contract: an inductive invariant.
Books == TypeOK /\ Solvent /\ StakeAccounting /\ NothingBeforeRegistration /\ ExitsOnlyOnceGone

-----------------------------------------------------------------------------
\* Facts about the operators.

\* What the contract owes is a table of natural numbers, and no debt is larger
\* than all of them together.
LEMMA OwedFacts ==
  ASSUME TypeOK, NEW v \in Validator
  PROVE  /\ Owed(v) \in [Delegator -> Nat]
         /\ Total(Owed(v), Delegator) \in Nat
         /\ \A d \in Delegator :
              /\ Owed(v)[d] = delegations[v][d] + undelegations[v][d].amount
              /\ Owed(v)[d] <= Total(Owed(v), Delegator)
<1>1. /\ Owed(v) \in [Delegator -> Nat]
      /\ \A d \in Delegator : Owed(v)[d] = delegations[v][d] + undelegations[v][d].amount
  BY DEF TypeOK, Owed
<1>2. IsFiniteSet(Delegator)
  BY StakeTableAssumption
<1>3. \A d \in Delegator : Owed(v)[d] \in Nat
  BY <1>1
<1> QED
  BY <1>1, <1>2, <1>3, SumType, SumAtLeast DEF Total

\* The delegations to v and their sum.
LEMMA DelegationFacts ==
  ASSUME TypeOK, NEW v \in Validator
  PROVE  /\ Total(delegations[v], Delegator) \in Nat
         /\ \A d \in Delegator : delegations[v][d] \in Nat
         /\ \A d \in Delegator : delegations[v][d] <= Total(delegations[v], Delegator)
<1>1. \A d \in Delegator : delegations[v][d] \in Nat
  BY DEF TypeOK
<1>2. IsFiniteSet(Delegator)
  BY StakeTableAssumption
<1> QED
  BY <1>1, <1>2, SumType, SumAtLeast DEF Total

\* No debt is larger than what the contract holds.
LEMMA HeldCovers ==
  ASSUME TypeOK, Solvent, NEW v \in Validator, NEW d \in Delegator
  PROVE  /\ delegations[v][d] + undelegations[v][d].amount <= held
         /\ delegations[v][d] \in Nat /\ undelegations[v][d].amount \in Nat /\ held \in Nat
<1> DEFINE book == [w \in Validator |-> Total(Owed(w), Delegator)]
<1>1. IsFiniteSet(Validator)
  BY StakeTableAssumption
<1>2. \A w \in Validator : book[w] \in Nat
  BY OwedFacts
<1>3. book[v] <= Total(book, Validator)
  <2> HIDE DEF book
  <2> QED BY <1>1, <1>2, SumAtLeast DEF Total
<1>4. Owed(v)[d] <= book[v] /\ Owed(v)[d] \in Nat
  BY OwedFacts
<1>5. Owed(v)[d] = delegations[v][d] + undelegations[v][d].amount
  BY OwedFacts
<1>6. held = Total(book, Validator)
  BY DEF Solvent
<1>7. delegations[v][d] \in Nat /\ undelegations[v][d].amount \in Nat /\ held \in Nat
  BY DEF TypeOK
<1>8. book[v] \in Nat
  BY <1>2
<1> HIDE DEF book
<1> QED
  BY <1>3, <1>4, <1>5, <1>6, <1>7, <1>8

\* A step that changes what is owed to one delegator at one validator, and what
\* is held by as much, keeps the contract solvent.
LEMMA OneDebtChanges ==
  ASSUME TypeOK, TypeOK', Solvent, NEW v \in Validator, NEW d \in Delegator,
         \A w \in Validator : w # v =>
            delegations'[w] = delegations[w] /\ undelegations'[w] = undelegations[w],
         \A e \in Delegator : e # d =>
            delegations'[v][e] = delegations[v][e] /\ undelegations'[v][e] = undelegations[v][e],
         held' + (delegations[v][d] + undelegations[v][d].amount)
           = held + (delegations'[v][d] + undelegations'[v][d].amount)
  PROVE  Solvent'
<1> DEFINE book == [w \in Validator |-> Total(Owed(w), Delegator)]
           after == [w \in Validator |-> Total(Owed(w)', Delegator)]
<1>1. IsFiniteSet(Validator) /\ IsFiniteSet(Delegator)
  BY StakeTableAssumption
<1>2. \A w \in Validator : /\ \A e \in Delegator : Owed(w)[e] \in Nat
                           /\ \A e \in Delegator : Owed(w)'[e] \in Nat
                           /\ Total(Owed(w), Delegator) \in Nat
                           /\ Total(Owed(w)', Delegator) \in Nat
  <2> TAKE w \in Validator
  <2>1. Owed(w) \in [Delegator -> Nat] /\ Total(Owed(w), Delegator) \in Nat
    BY OwedFacts
  <2>0. /\ delegations' \in [Validator -> [Delegator -> Nat]]
        /\ undelegations' \in [Validator -> [Delegator -> [amount : Nat, unlocksAt : Nat]]]
    BY Zenon DEF TypeOK
  <2>2. Owed(w)' \in [Delegator -> Nat]
    BY <2>0 DEF Owed
  <2>3. \A e \in Delegator : Owed(w)'[e] \in Nat
    BY <2>2
  <2>4. Total(Owed(w)', Delegator) \in Nat
    BY <1>1, <2>3, SumType DEF Total
  <2> QED
    BY <2>1, <2>3, <2>4
<1>3. \A e \in Delegator \ {d} : Owed(v)'[e] = Owed(v)[e]
  BY DEF Owed
<1>4. Total(Owed(v)', Delegator) + Owed(v)[d] = Total(Owed(v), Delegator) + Owed(v)'[d]
  <2>1. /\ \A e \in Delegator : Owed(v)[e] \in Nat
        /\ \A e \in Delegator : Owed(v)'[e] \in Nat
    BY <1>2, Zenon
  <2> QED
    BY <1>1, <1>3, <2>1, SumChange DEF Total
<1>5. \A w \in Validator \ {v} : after[w] = book[w]
  BY DEF Owed
<1>6. Total(after, Validator) + book[v] = Total(book, Validator) + after[v]
  <2>1. \A w \in Validator : book[w] \in Nat /\ after[w] \in Nat
    BY <1>2
  <2> HIDE DEF book, after
  <2> QED
    BY <1>1, <1>5, <2>1, SumChange DEF Total
<1>7. /\ book[v] = Total(Owed(v), Delegator) /\ after[v] = Total(Owed(v)', Delegator)
      /\ book[v] \in Nat /\ after[v] \in Nat
  BY <1>2
<1>8. Owed(v)[d] \in Nat /\ Owed(v)'[d] \in Nat
  BY <1>2
<1>9. held' + Owed(v)[d] = held + Owed(v)'[d]
  BY DEF Owed
<1>10. held = Total(book, Validator)
  BY DEF Solvent
<1>11. Total(book, Validator) \in Nat /\ Total(after, Validator) \in Nat /\ held' \in Nat
  <2>1. \A w \in Validator : book[w] \in Nat /\ after[w] \in Nat
    BY <1>2
  <2>2. held' \in Nat
    BY DEF TypeOK
  <2> HIDE DEF book, after
  <2> QED
    BY <1>1, <2>1, <2>2, SumType DEF Total
<1>12. held' = Total(after, Validator)
  <2>1. after[v] + Owed(v)[d] = book[v] + Owed(v)'[d]
    BY <1>4, <1>7, Zenon
  <2>2. ASSUME NEW h \in Nat, NEW k \in Nat, NEW B \in Nat, NEW A \in Nat,
               NEW b \in Nat, NEW a \in Nat, NEW o \in Nat, NEW p \in Nat,
               a + o = b + p, A + b = B + a, k + o = h + p, h = B
        PROVE  k = A
    BY <2>2
  <2>3. held \in Nat
    BY DEF TypeOK
  <2> HIDE DEF book, after
  <2> QED
    BY <2>1, <2>2, <2>3, <1>6, <1>7, <1>8, <1>9, <1>10, <1>11
<1> QED
  BY <1>12 DEF Solvent, Total

\* The sum of the delegations to v after one of them changed.
LEMMA OneDelegationChanges ==
  ASSUME TypeOK, TypeOK', NEW v \in Validator, NEW d \in Delegator,
         \A e \in Delegator : e # d => delegations'[v][e] = delegations[v][e]
  PROVE  Total(delegations'[v], Delegator) + delegations[v][d]
           = Total(delegations[v], Delegator) + delegations'[v][d]
<1>1. IsFiniteSet(Delegator)
  BY StakeTableAssumption
<1>2. /\ \A e \in Delegator : delegations[v][e] \in Nat
      /\ \A e \in Delegator : delegations'[v][e] \in Nat
  BY DEF TypeOK
<1>3. \A e \in Delegator \ {d} : delegations'[v][e] = delegations[v][e]
  BY Zenon
<1> QED
  BY <1>1, <1>2, <1>3, SumChange DEF Total

-----------------------------------------------------------------------------
\* Each operation keeps the books.

\* The contract starts without accounts and tokens.
LEMMA InitBooks == Init => Books
<1> SUFFICES ASSUME Init PROVE Books
  OBVIOUS
<1>0. IsFiniteSet(Validator) /\ IsFiniteSet(Delegator)
  BY StakeTableAssumption
<1>1. TypeOK
  <2>1. None \in [amount : Nat, unlocksAt : Nat]
    BY DEF None
  <2> QED
    BY <2>1, StakeTableAssumption DEF Init, TypeOK
<1>2. \A v \in Validator : /\ \A d \in Delegator : Owed(v)[d] = 0
                           /\ \A d \in Delegator : delegations[v][d] = 0
  BY DEF Init, Owed, None
<1>3. \A v \in Validator : Total(Owed(v), Delegator) = 0
  BY <1>0, <1>2, SumZero DEF Total
<1>4. Solvent
  <2> DEFINE book == [v \in Validator |-> Total(Owed(v), Delegator)]
  <2>1. \A v \in Validator : book[v] = 0
    BY <1>3
  <2>2. Total(book, Validator) = 0
    <3> HIDE DEF book
    <3> QED BY <1>0, <2>1, SumZero DEF Total
  <2> QED
    BY <2>2 DEF Solvent, Init
<1>5. StakeAccounting
  BY DEF StakeAccounting, Init
<1>6. NothingBeforeRegistration
  BY <1>2 DEF NothingBeforeRegistration
<1>7. ExitsOnlyOnceGone
  BY DEF ExitsOnlyOnceGone, Init
<1> QED
  BY <1>1, <1>4, <1>5, <1>6, <1>7 DEF Books

\* A new event keeps the type of the log.
LEMMA EmitType ==
  ASSUME log \in Seq(Event), NEW e \in Event, Emit(e)
  PROVE  log' \in Seq(Event)
  BY DEF Emit

\* A step that moves no tokens.
LEMMA NoTokensMove ==
  ASSUME Solvent, UNCHANGED <<delegations, undelegations, held>>
  PROVE  Solvent'
  BY DEF Solvent, Owed

\* registerValidator and registerValidatorV2: nobody has delegated to an
\* account that was never registered.
LEMMA AddValidatorBooks ==
  ASSUME Books, NEW v \in Validator, NEW k \in Key, AddValidator(v, k), log' \in Seq(Event)
  PROVE  Books'
<1>1. TypeOK'
  BY DEF Books, TypeOK, AddValidator
<1>2. Solvent'
  BY NoTokensMove DEF Books, AddValidator
<1>3. StakeAccounting'
  <2> SUFFICES ASSUME NEW w \in Validator
               PROVE  delegatedAmount'[w] = IF status'[w] = "Active"
                                            THEN Total(delegations'[w], Delegator) ELSE 0
    BY DEF StakeAccounting
  <2>1. CASE w = v
    <3>1. delegatedAmount'[v] = 0 /\ delegations' = delegations
      BY DEF AddValidator, Books, TypeOK
    <3>2. \A d \in Delegator : delegations[v][d] = 0
      BY DEF Books, NothingBeforeRegistration, AddValidator, EnsureValidatorNotRegistered
    <3>3. Total(delegations[v], Delegator) = 0
      BY <3>2, StakeTableAssumption, SumZero DEF Total
    <3> QED
      BY <2>1, <3>1, <3>3
  <2>2. CASE w # v
    <3>1. /\ delegatedAmount'[w] = delegatedAmount[w] /\ status'[w] = status[w]
          /\ delegations' = delegations
      BY <2>2 DEF AddValidator, Books, TypeOK
    <3> QED
      BY <3>1 DEF Books, StakeAccounting
  <2> QED
    BY <2>1, <2>2
<1>4. NothingBeforeRegistration'
  BY DEF NothingBeforeRegistration, Books, AddValidator, TypeOK
<1>5. ExitsOnlyOnceGone'
  BY DEF ExitsOnlyOnceGone, Books, AddValidator, TypeOK, EnsureValidatorNotRegistered
<1> QED
  BY <1>1, <1>2, <1>3, <1>4, <1>5 DEF Books

\* deregisterValidator: the stake is gone, and what is owed stays owed.
LEMMA DeregisterBooks ==
  ASSUME Books, NEW v \in Validator, DeregisterValidator(v)
  PROVE  Books'
<1>0. log' \in Seq(Event)
  BY EmitType DEF DeregisterValidator, Event, Books, TypeOK
<1>1. TypeOK'
  <2>1. now + escrow \in Nat
    BY StakeTableAssumption DEF Books, TypeOK
  <2> QED
    BY <1>0, <2>1 DEF Books, TypeOK, DeregisterValidator
<1>2. Solvent'
  BY NoTokensMove DEF Books, DeregisterValidator
<1>3. StakeAccounting'
  BY DEF StakeAccounting, Books, DeregisterValidator, TypeOK
<1>4. NothingBeforeRegistration'
  BY DEF NothingBeforeRegistration, Books, DeregisterValidator, TypeOK
<1>5. ExitsOnlyOnceGone'
  BY DEF ExitsOnlyOnceGone, Books, DeregisterValidator, TypeOK
<1> QED
  BY <1>1, <1>2, <1>3, <1>4, <1>5 DEF Books

\* delegate: the tokens paid in become a delegation.
LEMMA DelegateBooks ==
  ASSUME Books, NEW v \in Validator, NEW d \in Delegator, NEW amount \in Amounts,
         Delegate(d, v, amount)
  PROVE  Books'
<1>0. amount \in Nat \ {0}
  BY StakeTableAssumption DEF Delegate
<1>a. log' \in Seq(Event)
  BY <1>0, EmitType DEF Delegate, Event, Books, TypeOK
<1>b. /\ TypeOK /\ status' = status /\ status[v] = "Active"
      /\ undelegations' = undelegations /\ held' = held + amount
      /\ delegations \in [Validator -> [Delegator -> Nat]] /\ delegations[v][d] \in Nat
  BY DEF Delegate, Books, EnsureValidatorActive, TypeOK
<1>c. delegations[v][d] + amount \in Nat
  BY <1>0, <1>b
<1>d. /\ delegations' \in [Validator -> [Delegator -> Nat]]
      /\ \A w \in Validator : w # v => delegations'[w] = delegations[w]
      /\ \A e \in Delegator : e # d => delegations'[v][e] = delegations[v][e]
      /\ delegations'[v][d] = delegations[v][d] + amount
  <2>1. delegations' = With(delegations, v, d, delegations[v][d] + amount)
    BY DEF Delegate
  <2> QED
    BY <1>b, <1>c, <2>1 DEF With
<1>1. TypeOK'
  <2>1. wallet' \in [Delegator -> Nat] /\ delegatedAmount' \in [Validator -> Nat] /\ held' \in Nat
    BY <1>0 DEF Books, TypeOK, Delegate
  <2> QED
    BY <1>a, <1>b, <1>d, <2>1 DEF TypeOK, Delegate
<1>2. Solvent'
  <2>1. undelegations[v][d].amount \in Nat /\ held \in Nat
    BY DEF Books, TypeOK
  <2>2. held' + (delegations[v][d] + undelegations[v][d].amount)
          = held + (delegations'[v][d] + undelegations'[v][d].amount)
    BY <1>0, <1>b, <1>d, <2>1
  <2> QED
    BY <1>1, <1>b, <1>d, <2>2, OneDebtChanges DEF Books
<1>3. StakeAccounting'
  <2>1. /\ delegatedAmount'[v] = delegatedAmount[v] + amount
        /\ \A w \in Validator : w # v => delegatedAmount'[w] = delegatedAmount[w]
    BY DEF Delegate, Books, TypeOK
  <2>2. delegatedAmount[v] = Total(delegations[v], Delegator)
    BY <1>b DEF Books, StakeAccounting
  <2>3. Total(delegations'[v], Delegator) + delegations[v][d]
          = Total(delegations[v], Delegator) + delegations'[v][d]
    BY <1>1, <1>b, <1>d, OneDelegationChanges
  <2>4. Total(delegations[v], Delegator) \in Nat /\ Total(delegations'[v], Delegator) \in Nat
    <3>1. \A e \in Delegator : delegations'[v][e] \in Nat
      BY <1>d
    <3> QED
      BY <3>1, <1>b, StakeTableAssumption, DelegationFacts, SumType DEF Total
  <2>5. Total(delegations'[v], Delegator) = Total(delegations[v], Delegator) + amount
    <3> DEFINE t == Total(delegations[v], Delegator)
               u == Total(delegations'[v], Delegator)
               x == delegations[v][d]
    <3>1. u + x = t + (x + amount)
      BY <1>d, <2>3, Zenon
    <3>2. amount \in Nat /\ x \in Nat /\ t \in Nat /\ u \in Nat
      BY <1>0, <1>b, <2>4, Zenon
    <3> HIDE DEF t, u, x
    <3>3. u = t + amount
      BY <3>1, <3>2
    <3> QED
      BY <3>3 DEF t, u
  <2> QED
    BY <1>b, <1>d, <2>1, <2>2, <2>5 DEF Books, StakeAccounting
<1>4. NothingBeforeRegistration'
  BY <1>b, <1>d DEF NothingBeforeRegistration, Books
<1>5. ExitsOnlyOnceGone'
  BY DEF ExitsOnlyOnceGone, Books, Delegate
<1> QED
  BY <1>1, <1>2, <1>3, <1>4, <1>5 DEF Books

\* undelegate: a delegation becomes an undelegation of the same amount.
LEMMA UndelegateBooks ==
  ASSUME Books, NEW v \in Validator, NEW d \in Delegator, NEW amount \in Amounts,
         Undelegate(d, v, amount)
  PROVE  Books'
<1>0. amount \in Nat \ {0}
  BY StakeTableAssumption DEF Undelegate
<1>a. log' \in Seq(Event)
  BY <1>0, EmitType DEF Undelegate, Event, Books, TypeOK
<1>b. /\ TypeOK /\ status' = status /\ status[v] = "Active" /\ held' = held
      /\ delegations \in [Validator -> [Delegator -> Nat]] /\ delegations[v][d] \in Nat
      /\ undelegations \in [Validator -> [Delegator -> [amount : Nat, unlocksAt : Nat]]]
      /\ amount <= delegations[v][d] /\ undelegations[v][d].amount = 0
  BY DEF Undelegate, Books, EnsureValidatorActive, TypeOK, EnsureBalance, NoUndelegation
<1>c. delegations[v][d] - amount \in Nat
  BY <1>0, <1>b
<1>d. /\ delegations' \in [Validator -> [Delegator -> Nat]]
      /\ \A w \in Validator : w # v => delegations'[w] = delegations[w]
      /\ \A e \in Delegator : e # d => delegations'[v][e] = delegations[v][e]
      /\ delegations'[v][d] = delegations[v][d] - amount
  <2>1. delegations' = With(delegations, v, d, delegations[v][d] - amount)
    BY DEF Undelegate
  <2> QED
    BY <1>b, <1>c, <2>1 DEF With
<1>e. /\ undelegations' \in [Validator -> [Delegator -> [amount : Nat, unlocksAt : Nat]]]
      /\ \A w \in Validator : w # v => undelegations'[w] = undelegations[w]
      /\ \A e \in Delegator : e # d => undelegations'[v][e] = undelegations[v][e]
      /\ undelegations'[v][d].amount = amount
  <2> DEFINE pending == [amount |-> amount, unlocksAt |-> now + escrow]
  <2>1. undelegations' = With(undelegations, v, d, pending)
    BY DEF Undelegate
  <2>2. pending \in [amount : Nat, unlocksAt : Nat] /\ pending.amount = amount
    BY <1>0, StakeTableAssumption DEF Books, TypeOK
  <2> HIDE DEF pending
  <2> QED
    BY <1>b, <2>1, <2>2 DEF With
<1>f. Total(delegations[v], Delegator) \in Nat /\ delegations[v][d] <= Total(delegations[v], Delegator)
  BY <1>b, DelegationFacts
<1>g. delegatedAmount[v] = Total(delegations[v], Delegator)
  BY <1>b DEF Books, StakeAccounting
<1>1. TypeOK'
  <2>1. delegatedAmount[v] - amount \in Nat
    BY <1>0, <1>b, <1>f, <1>g
  <2>2. delegatedAmount' \in [Validator -> Nat]
    BY <2>1 DEF Books, TypeOK, Undelegate
  <2>3. UNCHANGED <<version, status, blsKeys, exits, escrow, now, wallet, held>>
    BY Zenon DEF Undelegate
  <2> QED
    BY <1>a, <1>b, <1>d, <1>e, <2>2, <2>3, Zenon DEF TypeOK
<1>2. Solvent'
  <2>1. held \in Nat
    BY DEF Books, TypeOK
  <2>2. held' + (delegations[v][d] + undelegations[v][d].amount)
          = held + (delegations'[v][d] + undelegations'[v][d].amount)
    BY <1>0, <1>b, <1>d, <1>e, <2>1
  <2>3. \A w \in Validator : w # v =>
          delegations'[w] = delegations[w] /\ undelegations'[w] = undelegations[w]
    BY <1>d, <1>e, Zenon
  <2>4. \A e \in Delegator : e # d =>
          delegations'[v][e] = delegations[v][e] /\ undelegations'[v][e] = undelegations[v][e]
    BY <1>d, <1>e, Zenon
  <2> QED
    BY <1>1, <1>b, <2>2, <2>3, <2>4, OneDebtChanges, Zenon DEF Books
<1>3. StakeAccounting'
  <2>1. /\ delegatedAmount'[v] = delegatedAmount[v] - amount
        /\ \A w \in Validator : w # v => delegatedAmount'[w] = delegatedAmount[w]
    BY Zenon DEF Undelegate, Books, TypeOK
  <2>3. Total(delegations'[v], Delegator) + delegations[v][d]
          = Total(delegations[v], Delegator) + delegations'[v][d]
    BY <1>1, <1>b, <1>d, OneDelegationChanges
  <2>4. Total(delegations'[v], Delegator) \in Nat
    <3>1. \A e \in Delegator : delegations'[v][e] \in Nat
      BY <1>d
    <3> QED
      BY <3>1, StakeTableAssumption, SumType DEF Total
  <2>5. Total(delegations'[v], Delegator) = Total(delegations[v], Delegator) - amount
    <3> DEFINE t == Total(delegations[v], Delegator)
               u == Total(delegations'[v], Delegator)
               x == delegations[v][d]
    <3>1. u + x = t + (x - amount)
      BY <1>d, <2>3, Zenon
    <3>2. amount \in Nat /\ x \in Nat /\ t \in Nat /\ u \in Nat
      BY <1>0, <1>b, <1>f, <2>4, Zenon
    <3> HIDE DEF t, u, x
    <3>3. u = t - amount
      BY <3>1, <3>2
    <3> QED
      BY <3>3 DEF t, u
  <2> QED
    BY <1>b, <1>d, <1>g, <2>1, <2>5, Zenon DEF Books, StakeAccounting
<1>4. NothingBeforeRegistration'
  BY <1>b, <1>d DEF NothingBeforeRegistration, Books
<1>5. ExitsOnlyOnceGone'
  BY DEF ExitsOnlyOnceGone, Books, Undelegate
<1> QED
  BY <1>1, <1>2, <1>3, <1>4, <1>5 DEF Books

\* claimWithdrawal: what is paid out is no longer owed.
LEMMA ClaimWithdrawalBooks ==
  ASSUME Books, NEW v \in Validator, NEW d \in Delegator, ClaimWithdrawal(d, v)
  PROVE  Books'
<1> DEFINE amount == undelegations[v][d].amount
<1>b. /\ TypeOK /\ status' = status /\ delegations' = delegations
      /\ delegatedAmount' = delegatedAmount
      /\ undelegations \in [Validator -> [Delegator -> [amount : Nat, unlocksAt : Nat]]]
      /\ undelegations' = With(undelegations, v, d, None)
      /\ held' = held - amount
      /\ wallet' = [wallet EXCEPT ![d] = @ + amount]
  BY DEF ClaimWithdrawal, Books, TypeOK
<1>c. amount <= held /\ amount \in Nat /\ held \in Nat /\ delegations[v][d] \in Nat
  <2>1. /\ delegations[v][d] + amount <= held
        /\ delegations[v][d] \in Nat /\ amount \in Nat /\ held \in Nat
    BY HeldCovers DEF Books
  <2> HIDE DEF amount
  <2> QED
    BY <2>1
<1>e. /\ undelegations' \in [Validator -> [Delegator -> [amount : Nat, unlocksAt : Nat]]]
      /\ \A w \in Validator : w # v => undelegations'[w] = undelegations[w]
      /\ \A e \in Delegator : e # d => undelegations'[v][e] = undelegations[v][e]
      /\ undelegations'[v][d].amount = 0
  <2>1. None \in [amount : Nat, unlocksAt : Nat] /\ None.amount = 0
    BY DEF None
  <2> QED
    BY <1>b, <2>1 DEF With
<1> HIDE DEF amount
<1>1. TypeOK'
  <2>1. held' \in Nat
    BY <1>b, <1>c
  <2>2. wallet' \in [Delegator -> Nat]
    BY <1>b, <1>c DEF TypeOK
  <2> QED
    BY <1>b, <1>e, <2>1, <2>2 DEF TypeOK, ClaimWithdrawal
<1>2. Solvent'
  <2>2. held' + (delegations[v][d] + amount)
          = held + (delegations'[v][d] + undelegations'[v][d].amount)
    BY <1>b, <1>c, <1>e
  <2> QED
    BY <1>1, <1>b, <1>e, <2>2, OneDebtChanges, Zenon DEF Books, amount
<1>3. StakeAccounting'
  BY <1>b DEF StakeAccounting, Books
<1>4. NothingBeforeRegistration'
  BY <1>b DEF NothingBeforeRegistration, Books
<1>5. ExitsOnlyOnceGone'
  BY DEF ExitsOnlyOnceGone, Books, ClaimWithdrawal
<1> QED
  BY <1>1, <1>2, <1>3, <1>4, <1>5 DEF Books

\* claimValidatorExit: what is paid out is no longer owed; the validator is
\* gone, so its stake is 0 whatever is left of the delegations.
LEMMA ClaimValidatorExitBooks ==
  ASSUME Books, NEW v \in Validator, NEW d \in Delegator, ClaimValidatorExit(d, v)
  PROVE  Books'
<1> DEFINE amount == delegations[v][d]
<1>b. /\ TypeOK /\ status' = status /\ undelegations' = undelegations
      /\ delegatedAmount' = delegatedAmount
      /\ delegations \in [Validator -> [Delegator -> Nat]]
      /\ delegations' = With(delegations, v, d, 0)
      /\ held' = held - amount
      /\ wallet' = [wallet EXCEPT ![d] = @ + amount]
  BY DEF ClaimValidatorExit, Books, TypeOK
<1>c. amount <= held /\ amount \in Nat /\ held \in Nat /\ undelegations[v][d].amount \in Nat
  <2>1. /\ amount + undelegations[v][d].amount <= held
        /\ undelegations[v][d].amount \in Nat /\ amount \in Nat /\ held \in Nat
    BY HeldCovers DEF Books
  <2> HIDE DEF amount
  <2> QED
    BY <2>1
<1>d. /\ delegations' \in [Validator -> [Delegator -> Nat]]
      /\ \A w \in Validator : w # v => delegations'[w] = delegations[w]
      /\ \A e \in Delegator : e # d => delegations'[v][e] = delegations[v][e]
      /\ delegations'[v][d] = 0
  BY <1>b DEF With
<1>e. status[v] = "Exited"
  BY DEF ClaimValidatorExit, Books, ExitsOnlyOnceGone
<1> HIDE DEF amount
<1>1. TypeOK'
  <2>1. held' \in Nat
    BY <1>b, <1>c
  <2>2. wallet' \in [Delegator -> Nat]
    BY <1>b, <1>c DEF TypeOK
  <2> QED
    BY <1>b, <1>d, <2>1, <2>2 DEF TypeOK, ClaimValidatorExit
<1>2. Solvent'
  <2>2. held' + (amount + undelegations[v][d].amount)
          = held + (delegations'[v][d] + undelegations'[v][d].amount)
    BY <1>b, <1>c, <1>d
  <2> QED
    BY <1>1, <1>b, <1>d, <2>2, OneDebtChanges DEF Books, amount
<1>3. StakeAccounting'
  BY <1>b, <1>d, <1>e DEF StakeAccounting, Books
<1>4. NothingBeforeRegistration'
  BY <1>b, <1>d, <1>e DEF NothingBeforeRegistration, Books
<1>5. ExitsOnlyOnceGone'
  BY DEF ExitsOnlyOnceGone, Books, ClaimValidatorExit
<1> QED
  BY <1>1, <1>2, <1>3, <1>4, <1>5 DEF Books

\* updateConsensusKeys and updateConsensusKeysV2 move no tokens.
LEMMA ReplaceKeyBooks ==
  ASSUME Books, NEW v \in Validator, NEW k \in Key, ReplaceKey(v, k), log' \in Seq(Event)
  PROVE  Books'
<1>1. TypeOK'
  BY DEF Books, TypeOK, ReplaceKey
<1>2. Solvent'
  BY NoTokensMove DEF Books, ReplaceKey
<1>3. StakeAccounting' /\ NothingBeforeRegistration' /\ ExitsOnlyOnceGone'
  BY DEF StakeAccounting, NothingBeforeRegistration, ExitsOnlyOnceGone, Books, ReplaceKey
<1> QED
  BY <1>1, <1>2, <1>3 DEF Books

\* The steps that leave every account as it is.
LEMMA OwnerBooks ==
  ASSUME Books, UpgradeToV2 \/ (\E p \in Escrows : UpdateExitEscrowPeriod(p)) \/ Tick \/ UNCHANGED vars
  PROVE  Books'
<1>0. UNCHANGED <<status, delegatedAmount, blsKeys, exits, delegations, undelegations, wallet, held, log>>
  BY DEF UpgradeToV2, UpdateExitEscrowPeriod, Tick, vars
<1>1. version' \in 1..2 /\ escrow' \in Escrows /\ now' \in 1..MaxTime
  BY StakeTableAssumption DEF Books, TypeOK, UpgradeToV2, UpdateExitEscrowPeriod, Tick, vars
<1>2. TypeOK'
  BY <1>0, <1>1 DEF Books, TypeOK
<1>3. Solvent'
  BY <1>0, NoTokensMove DEF Books
<1>4. StakeAccounting' /\ NothingBeforeRegistration' /\ ExitsOnlyOnceGone'
  BY <1>0 DEF StakeAccounting, NothingBeforeRegistration, ExitsOnlyOnceGone, Books
<1> QED
  BY <1>2, <1>3, <1>4 DEF Books

\* Books is inductive.
LEMMA BooksStep == Books /\ [Next]_vars => Books'
<1> SUFFICES ASSUME Books, [Next]_vars PROVE Books'
  OBVIOUS
<1>0. log \in Seq(Event)
  BY DEF Books, TypeOK
<1>1. ASSUME NEW v \in Validator, NEW k \in Key, RegisterValidator(v, k) PROVE Books'
  BY <1>0, <1>1, AddValidatorBooks, EmitType DEF RegisterValidator, Event
<1>2. ASSUME NEW v \in Validator, NEW k \in Key, UpdateConsensusKeys(v, k) PROVE Books'
  BY <1>0, <1>2, ReplaceKeyBooks, EmitType DEF UpdateConsensusKeys, Event
<1>3. ASSUME NEW v \in Validator, NEW k \in Key, NEW auth \in Authentic,
             RegisterValidatorV2(v, k, auth)
      PROVE  Books'
  BY <1>0, <1>3, AddValidatorBooks, EmitType, StakeTableAssumption DEF RegisterValidatorV2, Event
<1>4. ASSUME NEW v \in Validator, NEW k \in Key, NEW auth \in Authentic,
             UpdateConsensusKeysV2(v, k, auth)
      PROVE  Books'
  BY <1>0, <1>4, ReplaceKeyBooks, EmitType, StakeTableAssumption DEF UpdateConsensusKeysV2, Event
<1> QED
  BY <1>1, <1>2, <1>3, <1>4, DeregisterBooks, DelegateBooks, UndelegateBooks,
     ClaimWithdrawalBooks, ClaimValidatorExitBooks, OwnerBooks, Zenon DEF Next

\* Books holds in every behaviour of the contract.
LEMMA AlwaysBooks == Spec => []Books
  BY InitBooks, BooksStep, PTL DEF Spec

\* No balance, delegation or undelegation ever falls below zero, and the contract
\* only emits well-formed events: for any number of accounts and any sequence of
\* calls, across the upgrade to V2.
THEOREM AmountsNeverNegative == Spec => []TypeOK
<1>1. Books => TypeOK
  BY DEF Books
<1> QED
  BY <1>1, AlwaysBooks, PTL

\* The tokens the contract holds are exactly those that delegators can still
\* claim from it, by undelegating or after a validator's exit.
THEOREM AlwaysSolvent == Spec => []Solvent
<1>1. Books => Solvent
  BY DEF Books
<1> QED
  BY <1>1, AlwaysBooks, PTL

\* delegatedAmount, which is only ever adjusted, is the sum of the delegations to
\* an active validator, and 0 for one that left.
THEOREM StakeAlwaysAccounted == Spec => []StakeAccounting
<1>1. Books => StakeAccounting
  BY DEF Books
<1> QED
  BY <1>1, AlwaysBooks, PTL

-----------------------------------------------------------------------------
\* The replay of the log, event by event.  The fold is defined by a recursive
\* function on the sets of positions, which removes the largest one first.

IsReplayTable(h, events, D) ==
  h = [s \in D |-> IF s = {} THEN Empty
                   ELSE ApplyAuthenticated(h[s \ {Max(s)}], events[Max(s)])]

\* Max of a set of positions.
LEMMA MaxPosition ==
  ASSUME NEW n \in Nat, NEW s \in SUBSET (1..n), s # {}
  PROVE  Max(s) \in s /\ \A i \in s : i <= Max(s)
<1>1. \E m \in s : \A i \in s : i <= m
  <2>1. s \in SUBSET Nat /\ \A i \in s : i <= n
    OBVIOUS
  <2> QED
    BY <2>1, LargestMember, Zenon
<1>2. \E m \in s : \A i \in s : m >= i
  BY <1>1
<1>3. Max(s) \in s /\ \A i \in s : Max(s) >= i
  BY <1>2, Zenon DEF Max
<1> QED
  BY <1>3

\* Removing the largest position.
LEMMA MaxSmaller ==
  ASSUME NEW n \in Nat, NEW k \in Nat, NEW s \in UpToSize(1..n, k + 1), s # {}
  PROVE  s \ {Max(s)} \in UpToSize(1..n, k)
<1>0. s \in SUBSET (1..n)
  BY DEF UpToSize
<1> DEFINE S == 1..n
<1>a. IsFiniteSet(S)
  BY FS_Interval
<1>1. IsFiniteSet(s) /\ Cardinality(s) \in Nat
  <2> HIDE DEF S
  <2>1. s \in SUBSET S
    BY <1>0 DEF S
  <2> QED
    BY <2>1, <1>a, FS_Subset, FS_CardinalityType, Zenon
<1>2. Cardinality(s \ {Max(s)}) = Cardinality(s) - 1
  BY <1>0, <1>1, FS_RemoveElement, MaxPosition, Zenon
<1>3. Cardinality(s) <= k + 1
  BY DEF UpToSize
<1>4. Cardinality(s \ {Max(s)}) <= k
  BY <1>1, <1>2, <1>3
<1>5. s \ {Max(s)} \in SUBSET (1..n)
  BY <1>0, Zenon
<1> QED
  BY <1>4, <1>5, Zenon DEF UpToSize

\* The recursive function exists.
LEMMA ReplayTableExists ==
  ASSUME NEW n \in Nat, NEW events
  PROVE  \E h : IsReplayTable(h, events, SUBSET (1..n))
<1> DEFINE S == 1..n
           Has(k) == \E h : IsReplayTable(h, events, UpToSize(S, k))
           T == {k \in Nat : ~Has(k)}
<1>0. IsFiniteSet(S)
  BY FS_Interval
<1>1. Has(0)
  <2>1. \A s \in UpToSize(S, 0) : s = {}
    <3> HIDE DEF S
    <3> QED
      BY <1>0, FS_Subset, FS_EmptySet, FS_CardinalityType DEF UpToSize
  <2>2. IsReplayTable([s \in UpToSize(S, 0) |-> Empty], events, UpToSize(S, 0))
    BY <2>1, Zenon DEF IsReplayTable
  <2> QED
    BY <2>2, Zenon
<1>2. \A k \in Nat : Has(k) => Has(k + 1)
  <2> SUFFICES ASSUME NEW k \in Nat, NEW h0, IsReplayTable(h0, events, UpToSize(S, k))
               PROVE  Has(k + 1)
    BY Zenon
  <2> DEFINE D == UpToSize(S, k + 1)
             h == [s \in D |-> IF s = {} THEN Empty
                               ELSE ApplyAuthenticated(h0[s \ {Max(s)}], events[Max(s)])]
  <2>1. UpToSize(S, k) \subseteq D
    <3>1. \A s \in SUBSET S : Cardinality(s) \in Nat
      BY <1>0, FS_Subset, FS_CardinalityType, Zenon
    <3> QED
      BY <3>1 DEF UpToSize
  <2>2. \A t \in UpToSize(S, k) : h[t] = h0[t]
    <3> SUFFICES ASSUME NEW t \in UpToSize(S, k) PROVE h[t] = h0[t]
      BY Zenon
    <3>1. h[t] = IF t = {} THEN Empty ELSE ApplyAuthenticated(h0[t \ {Max(t)}], events[Max(t)])
      BY <2>1, Zenon
    <3>2. h0[t] = IF t = {} THEN Empty ELSE ApplyAuthenticated(h0[t \ {Max(t)}], events[Max(t)])
      BY Zenon DEF IsReplayTable
    <3> QED
      BY <3>1, <3>2, Zenon
  <2>3. \A s \in D : s # {} => h[s \ {Max(s)}] = h0[s \ {Max(s)}]
    BY <2>2, MaxSmaller, Zenon
  <2>4. h = [s \in D |-> IF s = {} THEN Empty
                         ELSE ApplyAuthenticated(h[s \ {Max(s)}], events[Max(s)])]
    <3> DEFINE g == [s \in D |-> IF s = {} THEN Empty
                                 ELSE ApplyAuthenticated(h[s \ {Max(s)}], events[Max(s)])]
    <3>1. \A s \in D : h[s] = g[s]
      <4> SUFFICES ASSUME NEW s \in D PROVE h[s] = g[s]
        BY Zenon
      <4>1. CASE s = {}
        BY <4>1, Zenon
      <4>2. CASE s # {}
        BY <4>2, <2>3, Zenon
      <4> QED
        BY <4>1, <4>2, Zenon
    <3> QED
      BY <3>1, Zenon
  <2> QED
    BY <2>4, Zenon DEF IsReplayTable
<1> HIDE DEF Has
<1>3. T = {}
  <2> SUFFICES ASSUME T # {} PROVE FALSE
    OBVIOUS
  <2>1. PICK k \in T : \A m \in T : k <= m
    BY LeastMember, Zenon
  <2>2. k # 0
    BY <1>1
  <2>3. k - 1 \in Nat /\ ~(k <= k - 1) /\ (k - 1) + 1 = k
    BY <2>2
  <2>4. k - 1 \notin T
    BY <2>1, <2>3, Zenon
  <2> QED
    BY <1>2, <2>3, <2>4
<1>4. Has(Cardinality(S))
  BY <1>0, <1>3, FS_CardinalityType
<1>5. UpToSize(S, Cardinality(S)) = SUBSET S
  BY <1>0, FS_Subset DEF UpToSize
<1> QED
  BY <1>4, <1>5, Zenon DEF Has

\* The set of the first n + 1 positions without the largest one.
LEMMA FirstPositions ==
  ASSUME NEW n \in Nat
  PROVE  Max(1..(n + 1)) = n + 1 /\ (1..(n + 1)) \ {n + 1} = 1..n /\ 1..(n + 1) # {}
<1>1. 1..(n + 1) # {} /\ (1..(n + 1)) \ {n + 1} = 1..n
  OBVIOUS
<1>2. Max(1..(n + 1)) \in 1..(n + 1) /\ \A i \in 1..(n + 1) : i <= Max(1..(n + 1))
  <2>1. n + 1 \in Nat /\ 1..(n + 1) \in SUBSET (1..(n + 1))
    OBVIOUS
  <2> QED
    BY <1>1, <2>1, MaxPosition, Zenon
<1> DEFINE m == Max(1..(n + 1))
<1>3. m \in 1..(n + 1) /\ n + 1 <= m
  BY <1>2
<1> HIDE DEF m
<1>4. m = n + 1
  BY <1>3
<1> QED
  BY <1>1, <1>4 DEF m

\* h is the function of the replay of n events.
Replays(h, events, n) == IsReplayTable(h, events, SUBSET (1..n))

\* The first n events are the same.
SameEvents(events, more, n) == \A i \in 1..n : events[i] = more[i]

\* Two replays of the same events are in the same state after each of them.
LEMMA ReplayTablesAgree ==
  ASSUME NEW n \in Nat, NEW N \in Nat, n <= N, NEW events, NEW more, SameEvents(events, more, n),
         NEW h, Replays(h, events, n), NEW g, Replays(g, more, N)
  PROVE  h[1..n] = g[1..n]
<1> DEFINE T == {k \in 0..n : h[1..k] # g[1..k]}
<1>1. T = {}
  <2> SUFFICES ASSUME T # {} PROVE FALSE
    OBVIOUS
  <2>0. T \in SUBSET Nat
    OBVIOUS
  <2>1. PICK k \in T : \A m \in T : k <= m
    BY <2>0, LeastMember, Zenon
  <2>2. k \in 0..n /\ h[1..k] # g[1..k]
    OBVIOUS
  <2>3. 1..k \in SUBSET (1..n) /\ 1..k \in SUBSET (1..N)
    BY <2>2
  <2>4. /\ h[1..k] = IF 1..k = {} THEN Empty
                     ELSE ApplyAuthenticated(h[(1..k) \ {Max(1..k)}], events[Max(1..k)])
        /\ g[1..k] = IF 1..k = {} THEN Empty
                     ELSE ApplyAuthenticated(g[(1..k) \ {Max(1..k)}], more[Max(1..k)])
    BY <2>3, Zenon DEF IsReplayTable, Replays
  <2>5. 1..k # {}
    BY <2>2, <2>4, Zenon
  <2>6. k - 1 \in Nat /\ (k - 1) + 1 = k /\ k \in 1..n /\ k - 1 \in 0..n /\ ~(k <= k - 1)
    BY <2>2, <2>5
  <2>7. Max(1..k) = k /\ (1..k) \ {k} = 1..(k - 1)
    <3>1. /\ Max(1..((k - 1) + 1)) = (k - 1) + 1
          /\ (1..((k - 1) + 1)) \ {(k - 1) + 1} = 1..(k - 1)
      BY <2>6, FirstPositions, Zenon
    <3> QED
      BY <2>6, <3>1, Zenon
  <2>8. h[1..(k - 1)] = g[1..(k - 1)]
    BY <2>1, <2>6
  <2> QED
    BY <2>2, <2>4, <2>5, <2>6, <2>7, <2>8, Zenon DEF SameEvents
<1> QED
  BY <1>1

\* The replay in terms of such a function.
LEMMA ReplayFromTable ==
  ASSUME NEW events, NEW n \in Nat, DOMAIN events = 1..n
  PROVE  \E h : IsReplayTable(h, events, SUBSET (1..n)) /\ Replay(events) = h[1..n]
<1> DEFINE h == CHOOSE h : IsReplayTable(h, events, SUBSET (1..n))
<1>1. Replay(events) = h[1..n]
  BY DEF Replay, MapThenFoldSet, IsReplayTable
<1>2. IsReplayTable(h, events, SUBSET (1..n))
  BY ReplayTableExists, Zenon
<1> QED
  BY <1>1, <1>2, Zenon

\* A node that has seen no event.
LEMMA ReplayNothing == Replay(<< >>) = Empty
<1>1. 0 \in Nat /\ DOMAIN << >> = 1..0 /\ 1..0 = {}
  OBVIOUS
<1>2. PICK h : IsReplayTable(h, << >>, SUBSET (1..0)) /\ Replay(<< >>) = h[1..0]
  BY <1>1, ReplayFromTable, Zenon
<1>3. h[1..0] = Empty
  BY <1>1, <1>2, Zenon DEF IsReplayTable
<1> QED
  BY <1>2, <1>3, Zenon

\* A node that sees one event more.
LEMMA ReplayMore ==
  ASSUME NEW events \in Seq(Event), NEW e \in Event
  PROVE  Replay(Append(events, e)) = ApplyAuthenticated(Replay(events), e)
<1> DEFINE n == Len(events)
           more == Append(events, e)
<1>1. /\ n \in Nat /\ n + 1 \in Nat /\ n <= n + 1
      /\ DOMAIN events = 1..n /\ DOMAIN more = 1..(n + 1)
      /\ more[n + 1] = e
      /\ \A i \in 1..n : events[i] = more[i]
  OBVIOUS
<1> HIDE DEF n, more
<1>2. PICK h : IsReplayTable(h, events, SUBSET (1..n)) /\ Replay(events) = h[1..n]
  BY <1>1, ReplayFromTable, Zenon
<1>3. PICK g : IsReplayTable(g, more, SUBSET (1..(n + 1))) /\ Replay(more) = g[1..(n + 1)]
  BY <1>1, ReplayFromTable, Zenon
<1>4. h[1..n] = g[1..n]
  <2>1. Replays(h, events, n) /\ Replays(g, more, n + 1) /\ SameEvents(events, more, n)
    BY <1>1, <1>2, <1>3, Zenon DEF Replays, SameEvents
  <2> QED
    BY <1>1, <2>1, ReplayTablesAgree
<1>5. g[1..(n + 1)] = ApplyAuthenticated(g[1..n], e)
  <2>1. 1..(n + 1) \in SUBSET (1..(n + 1))
    BY Zenon
  <2>2. g[1..(n + 1)] = IF 1..(n + 1) = {} THEN Empty
          ELSE ApplyAuthenticated(g[(1..(n + 1)) \ {Max(1..(n + 1))}], more[Max(1..(n + 1))])
    BY <1>3, <2>1, Zenon DEF IsReplayTable
  <2> QED
    BY <1>1, <2>2, FirstPositions, Zenon
<1>6. Replay(more) = ApplyAuthenticated(Replay(events), e)
  BY <1>2, <1>3, <1>4, <1>5, Zenon
<1> QED
  BY <1>6 DEF more

-----------------------------------------------------------------------------
\* What one event does to the state of a replay.

IsEntry(x) ==
  /\ x = [key |-> x.key, stake |-> x.stake, delegators |-> x.delegators, order |-> x.order]
  /\ x.key \in Key /\ x.stake \in Nat /\ x.order \in Nat
  /\ DOMAIN x.delegators \subseteq Delegator
  /\ x.delegators \in [DOMAIN x.delegators -> Nat \ {0}]

\* A state of the replay: the validators are in the order of their
\* registration, which no two of them share.
IsTable(r) ==
  /\ r = [registered |-> r.registered, info |-> r.info, keys |-> r.keys]
  /\ r.registered \in Nat
  /\ r.info = [v \in DOMAIN r.info |-> r.info[v]]
  /\ DOMAIN r.info \subseteq Validator
  /\ \A v \in DOMAIN r.info : IsEntry(r.info[v]) /\ r.info[v].order < r.registered
  /\ \A v, w \in DOMAIN r.info : r.info[v].order = r.info[w].order => v = w

\* A state is not the error.
LEMMA TableNotFailed == ASSUME NEW r, IsTable(r) PROVE r # Failed
<1>1. DOMAIN r = {"registered", "info", "keys"}
  <2>1. DOMAIN [registered |-> r.registered, info |-> r.info, keys |-> r.keys]
          = {"registered", "info", "keys"}
    OBVIOUS
  <2> QED
    BY <2>1, Zenon DEF IsTable
<1>2. DOMAIN Failed = {"failed"}
  BY DEF Failed
<1>3. "failed" # "registered" /\ "failed" # "info" /\ "failed" # "keys"
  OBVIOUS
<1> QED
  BY <1>1, <1>2, <1>3, Zenon

\* The state of a node that has seen no event.
LEMMA EmptyIsTable == IsTable(Empty) /\ DOMAIN Empty.info = {} /\ Empty.keys = {}
<1>1. /\ Empty.registered = 0 /\ Empty.keys = {} /\ Empty.info = << >>
      /\ Empty = [registered |-> 0, info |-> << >>, keys |-> {}]
  BY DEF Empty
<1>2. DOMAIN << >> = {} /\ << >> = [v \in {} |-> << >>[v]]
  OBVIOUS
<1> QED
  BY <1>1, <1>2 DEF IsTable

\* A registration is added at the end of the table.
Registered(s, e, t) ==
  /\ IsTable(t)
  /\ DOMAIN t.info = DOMAIN s.info \cup {e.validator}
  /\ t.keys = s.keys \cup {e.key}
  /\ \A w \in DOMAIN s.info : t.info[w] = s.info[w]
  /\ t.info[e.validator].key = e.key /\ t.info[e.validator].stake = 0
  /\ t.info[e.validator].delegators = << >>

\* What the handler of validators_from_l1_events does.
LEMMA RegisterEffect ==
  ASSUME NEW s, IsTable(s), NEW e, e.validator \in Validator, e.key \in Key,
         e.key \notin s.keys, e.validator \notin DOMAIN s.info,
         NEW t, t = ApplyRegister(s, e)
  PROVE  Registered(s, e, t)
<1> DEFINE v == e.validator
           new == [key |-> e.key, stake |-> 0, delegators |-> << >>, order |-> s.registered]
           info == [w \in DOMAIN s.info \cup {v} |-> IF w = v THEN new ELSE s.info[w]]
<1>1. t = [registered |-> s.registered + 1, info |-> info, keys |-> s.keys \cup {e.key}]
  BY Zenon DEF ApplyRegister
<1>2. t.registered = s.registered + 1 /\ t.info = info /\ t.keys = s.keys \cup {e.key}
  BY <1>1
<1>3. /\ DOMAIN info = DOMAIN s.info \cup {v} /\ info[v] = new
      /\ \A w \in DOMAIN s.info : info[w] = s.info[w]
      /\ info = [w \in DOMAIN info |-> info[w]]
  BY Zenon
<1>4. IsEntry(new) /\ new.order = s.registered /\ new.key = e.key /\ new.stake = 0
        /\ new.delegators = << >>
  <2>1. s.registered \in Nat
    BY DEF IsTable
  <2>2. DOMAIN << >> \subseteq Delegator /\ << >> \in [{} -> Nat \ {0}] /\ DOMAIN << >> = {}
    OBVIOUS
  <2> QED
    BY <2>1, <2>2 DEF IsEntry
<1>5. \A w \in DOMAIN s.info : IsEntry(s.info[w]) /\ s.info[w].order < s.registered
                                /\ s.info[w].order \in Nat
  BY DEF IsTable, IsEntry
<1>6. s.registered \in Nat /\ DOMAIN s.info \subseteq Validator
      /\ \A w, x \in DOMAIN s.info : s.info[w].order = s.info[x].order => w = x
  BY DEF IsTable
<1> HIDE DEF new, info
<1>7. \A w \in DOMAIN info : IsEntry(info[w]) /\ info[w].order < s.registered + 1
  BY <1>3, <1>4, <1>5, <1>6
<1>8. \A w, x \in DOMAIN info : info[w].order = info[x].order => w = x
  BY <1>3, <1>4, <1>5, <1>6
<1>9. IsTable(t)
  <2>1. s.registered + 1 \in Nat /\ DOMAIN info \subseteq Validator
    BY <1>3, <1>6
  <2> QED
    BY <1>1, <1>2, <1>3, <1>7, <1>8, <2>1 DEF IsTable
<1> QED
  BY <1>2, <1>3, <1>4, <1>9 DEF Registered

\* A validator leaves the table.
Deregistered(s, e, t) ==
  /\ IsTable(t)
  /\ DOMAIN t.info = DOMAIN s.info \ {e.validator}
  /\ t.keys = s.keys
  /\ \A w \in DOMAIN t.info : t.info[w] = s.info[w]

\* What the handler of validators_from_l1_events does.
LEMMA DeregisterEffect ==
  ASSUME NEW s, IsTable(s), NEW e, e.validator \in DOMAIN s.info,
         NEW t, t = ApplyDeregister(s, e)
  PROVE  Deregistered(s, e, t)
<1> DEFINE info == Restrict(s.info, DOMAIN s.info \ {e.validator})
<1>0. s = [registered |-> s.registered, info |-> s.info, keys |-> s.keys]
  BY DEF IsTable
<1>1. /\ t = [registered |-> s.registered, info |-> info, keys |-> s.keys]
      /\ t.registered = s.registered /\ t.info = info /\ t.keys = s.keys
  BY <1>0 DEF ApplyDeregister
<1>2. /\ DOMAIN info = DOMAIN s.info \ {e.validator}
      /\ \A w \in DOMAIN info : info[w] = s.info[w]
      /\ info = [w \in DOMAIN info |-> info[w]]
  BY Zenon DEF Restrict
<1> HIDE DEF info
<1> QED
  BY <1>1, <1>2 DEF IsTable, Deregistered

\* The entry of one validator is replaced; its place in the order stays.
LEMMA EntryEffect ==
  ASSUME NEW s, IsTable(s), NEW v \in DOMAIN s.info, NEW x, IsEntry(x), x.order = s.info[v].order,
         NEW t, t = [s EXCEPT !.info[v] = x]
  PROVE  /\ IsTable(t)
         /\ DOMAIN t.info = DOMAIN s.info /\ t.keys = s.keys
         /\ t.info[v] = x
         /\ \A w \in DOMAIN s.info : w # v => t.info[w] = s.info[w]
<1> DEFINE info == [s.info EXCEPT ![v] = x]
<1>0. s = [registered |-> s.registered, info |-> s.info, keys |-> s.keys]
  BY DEF IsTable
<1>a. s.info = [w \in DOMAIN s.info |-> s.info[w]]
  BY DEF IsTable
<1>1. /\ t = [registered |-> s.registered, info |-> info, keys |-> s.keys]
      /\ t.registered = s.registered /\ t.info = info /\ t.keys = s.keys
  BY <1>0
<1>2. /\ DOMAIN info = DOMAIN s.info /\ info[v] = x
      /\ \A w \in DOMAIN s.info : w # v => info[w] = s.info[w]
      /\ info = [w \in DOMAIN info |-> info[w]]
  BY <1>a
<1> HIDE DEF info
<1>3. \A w \in DOMAIN info : info[w].order = s.info[w].order
  BY <1>2
<1>4. /\ \A w \in DOMAIN info : IsEntry(info[w]) /\ info[w].order < s.registered
      /\ \A w, u \in DOMAIN info : info[w].order = info[u].order => w = u
  BY <1>2, <1>3 DEF IsTable
<1> QED
  BY <1>1, <1>2, <1>4 DEF IsTable

\* The entry of v has another stake and other delegators.
Restaked(s, v, stake, ds, t) ==
  /\ IsTable(t)
  /\ DOMAIN t.info = DOMAIN s.info /\ t.keys = s.keys
  /\ t.info[v].stake = stake /\ t.info[v].delegators = ds
  /\ t.info[v].key = s.info[v].key
  /\ \A w \in DOMAIN s.info : w # v => t.info[w] = s.info[w]

\* What WithStake does.
LEMMA StakeEffect ==
  ASSUME NEW s, IsTable(s), NEW v \in DOMAIN s.info, NEW stake \in Nat,
         NEW ds, DOMAIN ds \subseteq Delegator, ds \in [DOMAIN ds -> Nat \ {0}],
         NEW t, t = WithStake(s, v, stake, ds)
  PROVE  Restaked(s, v, stake, ds, t)
<1> DEFINE old == s.info[v]
           x == [key |-> old.key, stake |-> stake, delegators |-> ds, order |-> old.order]
<1>1. IsEntry(old)
  BY DEF IsTable
<1>2. /\ x.key = old.key /\ x.stake = stake /\ x.delegators = ds /\ x.order = old.order
      /\ x = [key |-> old.key, stake |-> stake, delegators |-> ds, order |-> old.order]
  OBVIOUS
<1>3. IsEntry(x)
  BY <1>1, <1>2 DEF IsEntry
<1>4. t = [s EXCEPT !.info[v] = x]
  BY DEF WithStake
<1> HIDE DEF x
<1> QED
  BY <1>2, <1>3, <1>4, EntryEffect DEF Restaked

\* A delegation is added to the delegator's entry, which is made if need be.
Delegated(s, e, t) ==
  /\ IsTable(t)
  /\ DOMAIN t.info = DOMAIN s.info /\ t.keys = s.keys
  /\ \A w \in DOMAIN s.info : t.info[w].key = s.info[w].key
  /\ \A w \in DOMAIN s.info : w # e.validator => t.info[w] = s.info[w]
  /\ t.info[e.validator].stake = s.info[e.validator].stake + e.amount
  /\ t.info[e.validator].delegators =
       [d \in DOMAIN s.info[e.validator].delegators \cup {e.delegator} |->
          (IF d \in DOMAIN s.info[e.validator].delegators
           THEN s.info[e.validator].delegators[d] ELSE 0)
          + (IF d = e.delegator THEN e.amount ELSE 0)]

\* What the handler of validators_from_l1_events does.
LEMMA DelegateEffect ==
  ASSUME NEW s, IsTable(s), NEW e, e.validator \in DOMAIN s.info,
         e.delegator \in Delegator, e.amount \in Nat \ {0},
         NEW t, t = ApplyDelegate(s, e)
  PROVE  Delegated(s, e, t)
<1> DEFINE old == s.info[e.validator]
           ds == old.delegators
           new == [d \in DOMAIN ds \cup {e.delegator} |->
                    (IF d \in DOMAIN ds THEN ds[d] ELSE 0) + (IF d = e.delegator THEN e.amount ELSE 0)]
<1>1. t = WithStake(s, e.validator, old.stake + e.amount, new)
  BY DEF ApplyDelegate
<1>2. IsEntry(old)
  BY DEF IsTable
<1>3. old.stake + e.amount \in Nat
  BY <1>2 DEF IsEntry
<1>4. DOMAIN new \subseteq Delegator /\ new \in [DOMAIN new -> Nat \ {0}]
  <2>1. DOMAIN ds \subseteq Delegator /\ \A d \in DOMAIN ds : ds[d] \in Nat \ {0}
    BY <1>2 DEF IsEntry
  <2> HIDE DEF ds
  <2>2. DOMAIN new = DOMAIN ds \cup {e.delegator}
    OBVIOUS
  <2>3. \A d \in DOMAIN new : new[d] \in Nat \ {0}
    BY <2>1
  <2> HIDE DEF new
  <2>4. new = [d \in DOMAIN new |-> new[d]]
    BY Zenon DEF new
  <2> QED
    BY <2>1, <2>2, <2>3, <2>4, Zenon
<1> HIDE DEF new
<1>5. /\ IsTable(t)
      /\ DOMAIN t.info = DOMAIN s.info /\ t.keys = s.keys
      /\ t.info[e.validator].stake = old.stake + e.amount
      /\ t.info[e.validator].delegators = new
      /\ t.info[e.validator].key = s.info[e.validator].key
      /\ \A w \in DOMAIN s.info : w # e.validator => t.info[w] = s.info[w]
  <2>1. Restaked(s, e.validator, old.stake + e.amount, new, t)
    <3> DEFINE stake == old.stake + e.amount
    <3>1. t = WithStake(s, e.validator, stake, new) /\ stake \in Nat
      BY <1>1, <1>3
    <3> HIDE DEF stake
    <3>2. Restaked(s, e.validator, stake, new, t)
      BY <1>4, <3>1, StakeEffect, Zenon
    <3> QED
      BY <3>2 DEF stake
  <2> QED
    BY <2>1, Zenon DEF Restaked
<1> QED
  BY <1>5, Zenon DEF new, Delegated

\* An undelegation is taken from the delegator's entry, which is dropped when
\* nothing is left; one that asks for too much ends the replay.
Undelegated(s, e, t) ==
  \/ /\ t = Failed
     /\ \/ s.info[e.validator].stake < e.amount
        \/ e.delegator \notin DOMAIN s.info[e.validator].delegators
        \/ s.info[e.validator].delegators[e.delegator] < e.amount
  \/ /\ IsTable(t)
     /\ DOMAIN t.info = DOMAIN s.info /\ t.keys = s.keys
     /\ \A w \in DOMAIN s.info : t.info[w].key = s.info[w].key
     /\ \A w \in DOMAIN s.info : w # e.validator => t.info[w] = s.info[w]
     /\ t.info[e.validator].stake = s.info[e.validator].stake - e.amount
     /\ t.info[e.validator].delegators =
          LET ds == s.info[e.validator].delegators
          IN  IF ds[e.delegator] = e.amount THEN Restrict(ds, DOMAIN ds \ {e.delegator})
              ELSE [ds EXCEPT ![e.delegator] = @ - e.amount]

\* What the handler of validators_from_l1_events does.
LEMMA UndelegateEffect ==
  ASSUME NEW s, IsTable(s), NEW e, e.validator \in DOMAIN s.info,
         e.delegator \in Delegator, e.amount \in Nat \ {0},
         NEW t, t = ApplyUndelegate(s, e)
  PROVE  Undelegated(s, e, t)
<1> DEFINE old == s.info[e.validator]
           ds == old.delegators
           new == IF ds[e.delegator] = e.amount THEN Restrict(ds, DOMAIN ds \ {e.delegator})
                  ELSE [ds EXCEPT ![e.delegator] = @ - e.amount]
<1>1. CASE old.stake < e.amount \/ e.delegator \notin DOMAIN ds \/ ds[e.delegator] < e.amount
  BY <1>1, Zenon DEF ApplyUndelegate, Undelegated
<1>2. CASE ~(old.stake < e.amount) /\ e.delegator \in DOMAIN ds /\ ~(ds[e.delegator] < e.amount)
  <2>1. t = WithStake(s, e.validator, old.stake - e.amount, new)
    BY <1>2, Zenon DEF ApplyUndelegate
  <2>2. IsEntry(old)
    BY DEF IsTable
  <2>3. old.stake - e.amount \in Nat
    BY <1>2, <2>2 DEF IsEntry
  <2>4. DOMAIN new \subseteq Delegator /\ new \in [DOMAIN new -> Nat \ {0}]
    <3>1. DOMAIN ds \subseteq Delegator /\ ds \in [DOMAIN ds -> Nat \ {0}]
      BY <2>2, Zenon DEF IsEntry
    <3> HIDE DEF ds
    <3>2. CASE ds[e.delegator] = e.amount
      BY <3>1, <3>2 DEF Restrict
    <3>3. CASE ds[e.delegator] # e.amount
      <4>1. ds[e.delegator] - e.amount \in Nat \ {0}
        BY <1>2, <3>1, <3>3
      <4>2. new = [ds EXCEPT ![e.delegator] = ds[e.delegator] - e.amount]
        BY <3>3
      <4> HIDE DEF new
      <4> QED
        BY <1>2, <3>1, <4>1, <4>2
    <3> QED
      BY <3>2, <3>3, Zenon
  <2> HIDE DEF new
  <2>5. /\ IsTable(t)
        /\ DOMAIN t.info = DOMAIN s.info /\ t.keys = s.keys
        /\ t.info[e.validator].stake = old.stake - e.amount
        /\ t.info[e.validator].delegators = new
        /\ t.info[e.validator].key = s.info[e.validator].key
        /\ \A w \in DOMAIN s.info : w # e.validator => t.info[w] = s.info[w]
    <3>1. Restaked(s, e.validator, old.stake - e.amount, new, t)
      <4> DEFINE stake == old.stake - e.amount
      <4>1. t = WithStake(s, e.validator, stake, new) /\ stake \in Nat
        BY <2>1, <2>3
      <4> HIDE DEF stake
      <4>2. Restaked(s, e.validator, stake, new, t)
        BY <2>4, <4>1, StakeEffect, Zenon
      <4> QED
        BY <4>2 DEF stake
    <3> QED
      BY <3>1, Zenon DEF Restaked
  <2>6. \A w \in DOMAIN s.info : t.info[w].key = s.info[w].key
    BY <2>5, Zenon
  <2> QED
    BY <2>5, <2>6, Zenon DEF new, Undelegated
<1> QED
  BY <1>1, <1>2, Zenon

\* A key update replaces the key and records it nowhere else.
KeyUpdated(s, e, t) ==
  /\ IsTable(t)
  /\ DOMAIN t.info = DOMAIN s.info /\ t.keys = s.keys
  /\ \A w \in DOMAIN s.info : w # e.validator => t.info[w] = s.info[w]
  /\ t.info[e.validator].key = e.key
  /\ t.info[e.validator].stake = s.info[e.validator].stake
  /\ t.info[e.validator].delegators = s.info[e.validator].delegators

\* What the handler of validators_from_l1_events does.
LEMMA KeyUpdateEffect ==
  ASSUME NEW s, IsTable(s), NEW e, e.validator \in DOMAIN s.info, e.key \in Key,
         e.key \notin s.keys, NEW t, t = ApplyKeyUpdate(s, e)
  PROVE  KeyUpdated(s, e, t)
<1> DEFINE old == s.info[e.validator]
           x == [old EXCEPT !.key = e.key]
<1>1. IsEntry(old)
  BY DEF IsTable
<1>2. /\ x.key = e.key /\ x.stake = old.stake /\ x.delegators = old.delegators
      /\ x.order = old.order
      /\ x = [key |-> e.key, stake |-> old.stake, delegators |-> old.delegators, order |-> old.order]
  BY <1>1 DEF IsEntry
<1>3. IsEntry(x)
  BY <1>1, <1>2 DEF IsEntry
<1>4. t = [s EXCEPT !.info[e.validator] = x]
  BY DEF ApplyKeyUpdate
<1> HIDE DEF x
<1> QED
  BY <1>2, <1>3, <1>4, EntryEffect DEF KeyUpdated

\* Which handler an event gets.
LEMMA ApplyCases ==
  ASSUME NEW s, NEW e, s # Failed
  PROVE  /\ e.kind \in Registrations => Apply(s, e) = ApplyRegister(s, e)
         /\ e.kind \notin Registrations /\ e.validator \notin DOMAIN s.info => Apply(s, e) = Failed
         /\ e.validator \in DOMAIN s.info =>
              /\ e.kind = "Deregister" => Apply(s, e) = ApplyDeregister(s, e)
              /\ e.kind = "Delegate" => Apply(s, e) = ApplyDelegate(s, e)
              /\ e.kind = "Undelegate" => Apply(s, e) = ApplyUndelegate(s, e)
              /\ e.kind \in KeyUpdates => Apply(s, e) = ApplyKeyUpdate(s, e)
  BY DEF Apply, Registrations, KeyUpdates

\* What an event carries.
LEMMA EventFields ==
  ASSUME NEW e \in Event
  PROVE  /\ e.validator \in Validator
         /\ e.kind \in Registrations \cup KeyUpdates => e.key \in Key
         /\ e.kind \in {"Delegate", "Undelegate"} =>
              e.delegator \in Delegator /\ e.amount \in Nat \ {0}
         /\ \/ e.kind \in Registrations \/ e.kind \in KeyUpdates
            \/ e.kind \in {"Deregister", "Delegate", "Undelegate"}
  BY DEF Event, Registrations, KeyUpdates
=============================================================================
