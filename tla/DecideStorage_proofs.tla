------------------------ MODULE DecideStorage_proofs ------------------------
(***************************************************************************)
(* Proofs about the hand-over of decided leaves, for any chain, any number  *)
(* of crashes and either backend.                                           *)
(***************************************************************************)
EXTENDS DecideStorage, WellFoundedInduction, TLAPS

\* What waits in the event queue: chains in ascending order, behind everything
\* that is stored or being stored.
QueueInv ==
  /\ \A i \in 1..Len(events) :
       /\ events[i][1] <= events[i][2] /\ events[i][2] <= lastDecided
       /\ \A j \in 1..Len(events) : i < j => events[i][2] < events[j][1]
       /\ \A k \in leaves : k <= events[i][1]
       /\ \A c \in chain : c < events[i][1]
  /\ \A k \in leaves \cup chain : k <= lastDecided

\* The genesis leaf is the first to be stored, and what is being stored is not
\* older than all that is there, nor overtaken by the last processed view.
ChainInv ==
  /\ leaves = {} => \/ pc = "idle" /\ events # << >> /\ events[1] = <<0, 0>>
                    \/ pc = "store" /\ chain = {0}
  /\ chain # {} => pc = "store"
  /\ \A c \in chain : /\ c = 0 \/ \E k \in leaves : k <= c
                      /\ c \in leaves \/ ViewOf[c] > processed

\* The newest leaf is the one append_decided_leaves was called for.
NewestInv ==
  pc # "idle" => \E m \in leaves \cup chain :
                   ViewOf[m] = call /\ \A k \in leaves \cup chain : k <= m

\* What is not in the batch has been taken: with files the oldest leaf, with
\* the database the leaves up to the last processed view.
TakenInv ==
  /\ backend = "fs" =>
       \A h \in leaves : (\A k \in leaves : h <= k) => h = 0 \/ h \in taken
  /\ \A h \in leaves : ViewOf[h] <= processed => h \in taken
  /\ processed >= 0 => \E k \in leaves : processed <= ViewOf[k]

\* The batch, and what is left of it to hand on.
BatchInv ==
  /\ pc = "consume" =>
       /\ batch \subseteq leaves /\ todo \subseteq batch
       /\ batch \ todo \subseteq taken
       /\ backend = "fs" => \A h \in leaves : h \in batch \cup taken
       /\ backend # "fs" =>
            /\ batch # {} /\ todo \in {batch, {}}
            /\ \A h \in leaves, b \in batch : ViewOf[h] > processed /\ h <= b => h \in batch
  /\ pc = "prune" => backend # "fs" /\ \A h \in leaves : ViewOf[h] <= processed

StorageInv == TypeOK /\ QueueInv /\ ChainInv /\ NewestInv /\ TakenInv /\ BatchInv

-----------------------------------------------------------------------------
\* Facts about the operators.

\* Min of a set of leaves is its smallest element.
LEMMA MinFacts ==
  \A S \in SUBSET Height : S # {} => Min(S) \in S /\ \A k \in S : Min(S) <= k
<1> SUFFICES ASSUME NEW S \in SUBSET Height, S # {}
             PROVE  Min(S) \in S /\ \A k \in S : Min(S) <= k
  OBVIOUS
<1>1. S \subseteq Nat
  BY StorageAssumption DEF Height
<1>2. \E x \in S : \A y \in S : ~ (<<y, x>> \in OpToRel(<, Nat))
  BY <1>1, WFMin, NatLessThanWellFounded, Zenon
<1>3. \A x, y \in S : ~ (<<y, x>> \in OpToRel(<, Nat)) => x <= y
  BY <1>1 DEF OpToRel
<1>4. \E x \in S : \A y \in S : x <= y
  BY <1>2, <1>3, Zenon
<1> QED
  BY <1>4, Zenon DEF Min

\* Max of a set of leaves is its largest element.
LEMMA MaxFacts ==
  \A S \in SUBSET Height : S # {} => Max(S) \in S /\ \A k \in S : k <= Max(S)
<1> SUFFICES ASSUME NEW S \in SUBSET Height, S # {}
             PROVE  Max(S) \in S /\ \A k \in S : k <= Max(S)
  OBVIOUS
<1> DEFINE T == {MaxHeight - k : k \in S}
<1>0. \A k \in S : MaxHeight - k \in Height
  BY StorageAssumption DEF Height
<1>1. T \in SUBSET Height /\ T # {}
  BY <1>0, Zenon
<1>2. Min(T) \in T /\ \A t \in T : Min(T) <= t
  BY <1>1, MinFacts, Zenon
<1>3. PICK x \in S : Min(T) = MaxHeight - x
  BY <1>2, Zenon
<1>4. \A k \in S : MaxHeight - x <= MaxHeight - k
  BY <1>2, <1>3
<1>5. \A k \in S : x >= k
  BY <1>4, StorageAssumption DEF Height
<1>6. Max(S) \in S /\ \A k \in S : Max(S) >= k
  BY <1>5, Zenon DEF Max
<1> QED
  BY <1>6, StorageAssumption DEF Height

\* Leaves and their views have the same order.
LEMMA ViewFacts ==
  /\ \A h \in Height : h \in Nat /\ ViewOf[h] \in View /\ ViewOf[h] \in Nat
  /\ View \subseteq Nat
  /\ 0 \in Height /\ ViewOf[0] = 0
  /\ \A g, h \in Height : ViewOf[g] <= ViewOf[h] <=> g <= h
<1>1. Height \subseteq Nat /\ 0 \in Height /\ MaxHeight \in Height
  BY StorageAssumption DEF Height
<1>2. \A h \in Height : ViewOf[h] \in Nat
  BY StorageAssumption
<1>3. \A g, h \in Height : g < h => ViewOf[g] < ViewOf[h]
  BY StorageAssumption, Zenon
<1>4. \A g, h \in Height : ViewOf[g] <= ViewOf[h] <=> g <= h
  BY <1>1, <1>2, <1>3
<1>5. \A h \in Height : h <= MaxHeight
  BY StorageAssumption DEF Height
<1>6. \A h \in Height : ViewOf[h] \in View
  BY <1>1, <1>2, <1>4, <1>5 DEF View
<1> QED
  BY <1>1, <1>2, <1>4, <1>6, StorageAssumption DEF View

\* The event queue after its head was taken, and after an event was added.
LEMMA QueueFacts ==
  ASSUME NEW q \in Seq(Height \X Height)
  PROVE  /\ \A i \in 1..Len(q) : q[i] \in Height \X Height
         /\ q # << >> => /\ Len(q) >= 1 /\ Head(q) = q[1]
                         /\ Tail(q) \in Seq(Height \X Height)
                         /\ Len(Tail(q)) = Len(q) - 1
                         /\ \A i \in 1..(Len(q) - 1) : Tail(q)[i] = q[i + 1]
         /\ \A e \in Height \X Height :
              /\ Append(q, e) \in Seq(Height \X Height)
              /\ Len(Append(q, e)) = Len(q) + 1
              /\ Append(q, e)[Len(q) + 1] = e
              /\ \A i \in 1..Len(q) : Append(q, e)[i] = q[i]
  OBVIOUS

-----------------------------------------------------------------------------
\* The invariant holds initially and is preserved by every action.

\* Before the first event there is nothing but the genesis leaf to come.
LEMMA InitInv == Init => StorageInv
<1> SUFFICES ASSUME Init PROVE StorageInv
  OBVIOUS
<1>1. events \in Seq(Height \X Height) /\ Len(events) = 1 /\ events[1] = <<0, 0>>
  BY ViewFacts DEF Init
<1>2. TypeOK
  BY <1>1, ViewFacts, StorageAssumption DEF Init, TypeOK
<1>3. QueueInv
  BY <1>1 DEF Init, QueueInv
<1>4. ChainInv /\ NewestInv /\ TakenInv /\ BatchInv
  BY <1>1 DEF Init, ChainInv, NewestInv, TakenInv, BatchInv
<1> QED
  BY <1>2, <1>3, <1>4 DEF StorageInv

\* Decide adds a chain behind all others.
LEMMA DecideInv ==
  ASSUME StorageInv, NEW a \in Height, NEW b \in Height, Decide(a, b)
  PROVE  StorageInv'
<1>0. TypeOK /\ QueueInv /\ ChainInv /\ NewestInv /\ TakenInv /\ BatchInv
  BY DEF StorageInv
<1>1. /\ lastDecided < a /\ a <= b /\ events' = Append(events, <<a, b>>) /\ lastDecided' = b
      /\ UNCHANGED <<backend, leaves, da, processed, pc, call, chain, batch, todo, payloads,
                     taken, takenDa, crashes>>
  BY DEF Decide, stored, work, consumer
<1>2. /\ events' \in Seq(Height \X Height) /\ Len(events') = Len(events) + 1
      /\ events'[Len(events) + 1] = <<a, b>>
      /\ \A i \in 1..Len(events) : events'[i] = events[i] /\ events[i] \in Height \X Height
      /\ events \in Seq(Height \X Height)
  BY <1>0, <1>1, QueueFacts DEF TypeOK
<1>3. TypeOK'
  BY <1>0, <1>1, <1>2 DEF TypeOK
<1>4. QueueInv'
  <2>1. lastDecided \in Nat /\ a \in Nat /\ b \in Nat /\ Len(events) \in Nat
    BY <1>0, <1>2, ViewFacts DEF TypeOK
  <2>2. /\ \A i \in 1..Len(events) : events[i][1] \in Nat /\ events[i][2] \in Nat
        /\ \A k \in leaves \cup chain : k \in Nat
    BY <1>0, <1>2, ViewFacts, Zenon DEF TypeOK
  <2>3. \A k \in leaves \cup chain : k < a /\ k <= b
    BY <1>0, <1>1, <2>1, <2>2 DEF QueueInv
  <2>4. \A i \in 1..Len(events) : events[i][2] < a /\ events[i][2] <= b
    BY <1>0, <1>1, <2>1, <2>2 DEF QueueInv
  <2> QED
    BY <1>0, <1>1, <1>2, <2>1, <2>2, <2>3, <2>4 DEF QueueInv
<1>5. ChainInv'
  <2>1. leaves = {} /\ events # << >> => events'[1] = events[1] /\ events' # << >>
    BY <1>2
  <2> QED
    BY <1>0, <1>1, <2>1 DEF ChainInv
<1>6. NewestInv' /\ TakenInv' /\ BatchInv'
  BY <1>0, <1>1 DEF NewestInv, TakenInv, BatchInv
<1> QED
  BY <1>3, <1>4, <1>5, <1>6 DEF StorageInv

\* AppendDa touches no leaf.
LEMMA AppendDaInv ==
  ASSUME StorageInv, NEW v \in DaViews, AppendDa(v)
  PROVE  StorageInv'
<1>0. TypeOK /\ QueueInv /\ ChainInv /\ NewestInv /\ TakenInv /\ BatchInv
  BY DEF StorageInv
<1>1. /\ da' = da \cup {v}
      /\ UNCHANGED <<backend, leaves, processed, lastDecided, events, pc, call, chain, batch, todo,
                     payloads, taken, takenDa, crashes>>
  BY DEF AppendDa, work, consumer
<1>2. TypeOK'
  BY <1>0, <1>1, StorageAssumption DEF TypeOK
<1>3. QueueInv' /\ ChainInv' /\ NewestInv'
  BY <1>0, <1>1 DEF QueueInv, ChainInv, NewestInv
<1>4. TakenInv' /\ BatchInv'
  BY <1>0, <1>1 DEF TakenInv, BatchInv
<1> QED
  BY <1>2, <1>3, <1>4 DEF StorageInv

\* The chain of an event taken from the queue is behind all stored leaves.
LEMMA TakeEventInv == StorageInv /\ TakeEvent => StorageInv'
<1> SUFFICES ASSUME StorageInv, TakeEvent PROVE StorageInv'
  OBVIOUS
<1> DEFINE a == events[1][1]
           b == events[1][2]
<1>0. TypeOK /\ QueueInv /\ ChainInv /\ NewestInv /\ TakenInv /\ BatchInv
  BY DEF StorageInv
<1>1. /\ events \in Seq(Height \X Height) /\ Len(events) >= 1 /\ Head(events) = events[1]
      /\ events[1] \in Height \X Height
      /\ Tail(events) \in Seq(Height \X Height)
      /\ Len(Tail(events)) = Len(events) - 1
      /\ \A i \in 1..(Len(events) - 1) : Tail(events)[i] = events[i + 1]
      /\ \A i \in 1..Len(events) : events[i] \in Height \X Height
  BY <1>0, QueueFacts DEF TypeOK, TakeEvent
<1>2. /\ pc = "idle" /\ pc' = "store" /\ events' = Tail(events)
      /\ chain' = a..b /\ call' = ViewOf[b]
      /\ UNCHANGED <<backend, leaves, da, processed, lastDecided, batch, todo, payloads,
                     taken, takenDa, crashes>>
  BY <1>1 DEF TakeEvent, stored, consumer
<1>3. a \in Height /\ b \in Height /\ a <= b /\ a..b \subseteq Height
  <2>1. a \in Height /\ b \in Height /\ a <= b
    BY <1>0, <1>1 DEF QueueInv
  <2> QED
    BY <2>1, StorageAssumption DEF Height
<1>4. TypeOK'
  <2>1. chain' \subseteq Height /\ call' \in View /\ pc' \in {"idle", "store", "consume", "prune"}
    BY <1>2, <1>3, ViewFacts
  <2> QED
    BY <1>0, <1>1, <1>2, <2>1, Zenon DEF TypeOK
<1>5. \A k \in leaves : k <= a
  BY <1>0, <1>1 DEF QueueInv
<1>6. QueueInv'
  <2>1. /\ \A i \in 1..Len(events) : events[i][1] \in Nat /\ events[i][2] \in Nat
        /\ \A k \in leaves : k \in Nat
        /\ a \in Nat /\ b \in Nat /\ lastDecided \in Nat /\ Len(events) \in Nat
    BY <1>0, <1>1, <1>3, ViewFacts DEF TypeOK
  <2>2. b <= lastDecided /\ \A k \in leaves : k <= lastDecided
    BY <1>0, <1>1 DEF QueueInv
  <2>3. \A k \in leaves' \cup chain' : k <= lastDecided'
    BY <1>2, <2>1, <2>2
  <2>4. ASSUME NEW i \in 1..Len(events')
        PROVE  /\ events'[i] = events[i + 1] /\ i + 1 \in 1..Len(events) /\ 1 < i + 1
    BY <1>1, <1>2, <2>1
  <2>5. ASSUME NEW i \in 1..Len(events')
        PROVE  /\ events'[i][1] <= events'[i][2] /\ events'[i][2] <= lastDecided'
               /\ \A k \in leaves' : k <= events'[i][1]
    BY <1>0, <1>2, <2>4 DEF QueueInv
  <2>6. ASSUME NEW i \in 1..Len(events')
        PROVE  \A c \in chain' : c < events'[i][1]
    <3>1. b < events'[i][1] /\ events'[i][1] \in Nat
      BY <1>0, <1>1, <2>1, <2>4 DEF QueueInv
    <3> QED
      BY <1>2, <2>1, <3>1
  <2>7. ASSUME NEW i \in 1..Len(events'), NEW j \in 1..Len(events'), i < j
        PROVE  events'[i][2] < events'[j][1]
    <3>1. i + 1 < j + 1
      BY <1>1, <1>2, <2>7
    <3> QED
      BY <1>0, <2>4, <3>1 DEF QueueInv
  <2> QED
    BY <2>3, <2>5, <2>6, <2>7 DEF QueueInv
<1>7. ChainInv'
  <2>1. leaves = {} => a = 0 /\ b = 0 /\ chain' = {0}
    BY <1>0, <1>2 DEF ChainInv
  <2>2. \A c \in chain' : c = 0 \/ \E k \in leaves : k <= c
    BY <1>2, <1>3, <1>5, <2>1, ViewFacts, <1>0 DEF TypeOK
  <2>3. ASSUME NEW c \in chain', c \notin leaves PROVE ViewOf[c] > processed
    <3>0. c \in Height /\ c >= a
      BY <1>2, <1>3, <2>3
    <3>1. c \in Nat /\ a \in Nat /\ ViewOf[c] \in Nat /\ (processed \in Nat \/ processed = -1)
      BY <1>0, <1>3, <3>0, ViewFacts, Zenon DEF TypeOK
    <3>2. CASE processed >= 0
      <4>1. PICK k \in leaves : processed <= ViewOf[k]
        BY <1>0, <3>2 DEF TakenInv
      <4>2. k \in Height /\ k \in Nat /\ ViewOf[k] \in Nat /\ k # c /\ k <= a
        BY <1>0, <1>5, <2>3, ViewFacts, Zenon DEF TypeOK
      <4>3. ~ (c <= k)
        BY <3>0, <3>1, <4>2
      <4>4. ~ (ViewOf[c] <= ViewOf[k])
        BY <3>0, <4>2, <4>3, ViewFacts, Zenon
      <4> QED
        BY <3>1, <4>1, <4>2, <4>4
    <3> QED
      BY <3>1, <3>2
  <2> QED
    BY <1>2, <2>1, <2>2, <2>3 DEF ChainInv
<1>8. NewestInv'
  <2>1. b \in chain' /\ \A k \in leaves' \cup chain' : k <= b
    BY <1>0, <1>2, <1>3, <1>5, ViewFacts DEF TypeOK
  <2> QED
    BY <1>2, <2>1 DEF NewestInv
<1>9. TakenInv' /\ BatchInv'
  BY <1>0, <1>2 DEF TakenInv, BatchInv
<1> QED
  BY <1>4, <1>6, <1>7, <1>8, <1>9 DEF StorageInv

\* Leaves of the chain are stored: nothing older than all that is there, unless
\* it is the genesis leaf, and nothing the last processed view has passed.
LEMMA StoreLeavesInv == StorageInv /\ StoreLeaves => StorageInv'
<1> SUFFICES ASSUME StorageInv, StoreLeaves PROVE StorageInv'
  OBVIOUS
<1> DEFINE new == IF backend = "fs" THEN {Max(chain)} ELSE chain
<1>0. TypeOK /\ QueueInv /\ ChainInv /\ NewestInv /\ TakenInv /\ BatchInv
  BY DEF StorageInv
<1>1. /\ pc = "store" /\ pc' = "store" /\ chain # {}
      /\ leaves' = leaves \cup new /\ chain' = chain \ new
      /\ UNCHANGED <<backend, da, processed, lastDecided, events, call, batch, todo, payloads,
                     taken, takenDa, crashes>>
  BY DEF StoreLeaves, consumer
<1>2. new \subseteq chain /\ new # {} /\ chain \subseteq Height
  BY <1>0, <1>1, MaxFacts, Zenon DEF TypeOK
<1> HIDE DEF new
<1>3. /\ \A k \in leaves' : k \in leaves \/ k \in new
      /\ leaves' \cup chain' = leaves \cup chain
      /\ leaves \subseteq leaves' /\ chain' \subseteq chain /\ leaves' # {}
  BY <1>1, <1>2
<1>4. TypeOK'
  BY <1>0, <1>1, <1>2, Zenon DEF TypeOK
<1>5. QueueInv'
  <2>1. \A i \in 1..Len(events) : \A c \in chain : c <= events[i][1]
    BY <1>0, <1>2, QueueFacts, ViewFacts DEF QueueInv, TypeOK
  <2> QED
    BY <1>0, <1>1, <1>2, <1>3, <2>1, Zenon DEF QueueInv
<1>6. ChainInv'
  BY <1>0, <1>1, <1>2, <1>3, Zenon DEF ChainInv
<1>7. NewestInv'
  BY <1>0, <1>1, <1>3, Zenon DEF NewestInv
<1>8. TakenInv'
  <2>1. ASSUME backend = "fs", NEW h \in leaves', \A k \in leaves' : h <= k
        PROVE  h = 0 \/ h \in taken
    <3>1. CASE h \in leaves
      BY <1>0, <1>3, <2>1, <3>1, Zenon DEF TakenInv
    <3>2. CASE h \in new
      <4>1. CASE h # 0
        <5>1. PICK k \in leaves : k <= h
          BY <1>0, <1>2, <3>2, <4>1, Zenon DEF ChainInv
        <5>2. h <= k /\ h \in Nat /\ k \in Nat
          BY <1>0, <1>2, <1>3, <2>1, <3>2, ViewFacts DEF TypeOK
        <5>3. h = k
          BY <5>1, <5>2
        <5> QED
          BY <3>1, <5>3
      <4> QED
        BY <4>1
    <3> QED
      BY <1>3, <3>1, <3>2
  <2>2. ASSUME NEW h \in leaves', ViewOf[h] <= processed PROVE h \in taken
    <3>1. CASE h \in leaves
      BY <1>0, <2>2, <3>1, Zenon DEF TakenInv
    <3>2. CASE h \in new
      <4>1. ~ (ViewOf[h] > processed)
        <5>1. ViewOf[h] \in Int /\ processed \in Int
          BY <1>0, <1>2, <3>2, ViewFacts DEF TypeOK
        <5> QED
          BY <2>2, <5>1
      <4> QED
        BY <1>0, <1>2, <3>1, <3>2, <4>1, Zenon DEF ChainInv
    <3> QED
      BY <1>3, <3>1, <3>2
  <2> QED
    BY <1>0, <1>1, <1>3, <2>1, <2>2, Zenon DEF TakenInv
<1>9. BatchInv'
  BY <1>1 DEF BatchInv
<1> QED
  BY <1>4, <1>5, <1>6, <1>7, <1>8, <1>9 DEF StorageInv

\* A call that fails while storing: the genesis leaf is there already.
LEMMA StoreErrorInv ==
  ASSUME 0 \notin StoreFails, StorageInv, StoreError
  PROVE  StorageInv'
<1>0. TypeOK /\ QueueInv /\ ChainInv /\ NewestInv /\ TakenInv /\ BatchInv
  BY DEF StorageInv
<1>1. /\ pc = "store" /\ chain \cap StoreFails # {} /\ pc' = "idle" /\ chain' = {}
      /\ UNCHANGED <<backend, leaves, da, processed, lastDecided, events, call, batch, todo,
                     payloads, taken, takenDa, crashes>>
  BY DEF StoreError, stored, consumer
<1>2. leaves # {}
  BY <1>0, <1>1 DEF ChainInv
<1>3. TypeOK'
  BY <1>0, <1>1 DEF TypeOK
<1>4. QueueInv'
  BY <1>0, <1>1 DEF QueueInv
<1>5. ChainInv' /\ NewestInv' /\ BatchInv'
  BY <1>1, <1>2 DEF ChainInv, NewestInv, BatchInv
<1>6. TakenInv'
  BY <1>0, <1>1 DEF TakenInv
<1> QED
  BY <1>3, <1>4, <1>5, <1>6 DEF StorageInv

\* During a call all leaves are up to the view it was called for, and the leaf
\* of that view is among them once they are stored.
LEMMA NewestStored ==
  ASSUME StorageInv, pc # "idle", chain = {}
  PROVE  \E m \in leaves : /\ ViewOf[m] = call
                           /\ \A k \in leaves : k <= m /\ ViewOf[k] <= call
<1>0. TypeOK /\ NewestInv
  BY DEF StorageInv
<1>1. PICK m \in leaves : ViewOf[m] = call /\ \A k \in leaves : k <= m
  BY <1>0 DEF NewestInv
<1>2. \A k \in leaves : ViewOf[k] <= ViewOf[m]
  BY <1>0, <1>1, ViewFacts, Zenon DEF TypeOK
<1> QED
  BY <1>1, <1>2

\* What is read from the files: all leaves but the oldest, which was taken.
LEMMA FsBatchFacts ==
  ASSUME StorageInv, pc = "store", chain = {}, backend = "fs"
  PROVE  FsBatch \subseteq leaves /\ \A h \in leaves : h \in FsBatch \cup taken
<1> DEFINE known == {h \in leaves : ViewOf[h] <= call}
<1>0. TypeOK /\ TakenInv
  BY DEF StorageInv
<1>1. known = leaves /\ leaves # {}
  BY NewestStored
<1>2. FsBatch = leaves \ ({Min(leaves)} \ {0})
  BY <1>1, Zenon DEF FsBatch
<1>3. Min(leaves) \in leaves /\ \A k \in leaves : Min(leaves) <= k
  BY <1>0, <1>1, MinFacts, Zenon DEF TypeOK
<1>4. Min(leaves) = 0 \/ Min(leaves) \in taken
  BY <1>0, <1>3, Zenon DEF TakenInv
<1> QED
  BY <1>2, <1>4

\* What is read from the database: a run of new leaves from the oldest on.
LEMMA SqlBatchFacts ==
  ASSUME TypeOK
  PROVE  /\ SqlBatch \subseteq leaves
         /\ SqlBatch = {} => \A h \in leaves : ViewOf[h] <= processed
         /\ \A h \in leaves, b \in SqlBatch : ViewOf[h] > processed /\ h <= b => h \in SqlBatch
<1> DEFINE new == {h \in leaves : ViewOf[h] > processed}
<1>1. SqlBatch = {h \in new : Min(new)..h \subseteq new}
  BY DEF SqlBatch
<1>2. leaves \subseteq Height /\ new \subseteq Height
  BY DEF TypeOK
<1>3. \A h \in leaves : h \in Nat /\ ViewOf[h] \in Int
  BY <1>2, ViewFacts
<1>4. processed \in Int
  BY ViewFacts DEF TypeOK
<1>5. SqlBatch = {} => new = {}
  <2>1. SUFFICES ASSUME new # {} PROVE SqlBatch # {}
    OBVIOUS
  <2>2. Min(new) \in new /\ Min(new) \in Nat
    BY <1>2, <1>3, <2>1, MinFacts
  <2>3. Min(new)..Min(new) = {Min(new)}
    BY <2>2
  <2> QED
    BY <1>1, <2>2, <2>3, Zenon
<1>6. ASSUME NEW h \in leaves, NEW b \in SqlBatch, ViewOf[h] > processed, h <= b
      PROVE  h \in SqlBatch
  <2>1. h \in new /\ b \in new /\ Min(new)..b \subseteq new
    BY <1>1, <1>6
  <2>2. Min(new) \in Nat
    BY <1>2, <1>3, <2>1, MinFacts
  <2>3. h \in Nat /\ b \in Nat
    BY <1>3, <2>1
  <2>4. Min(new)..h \subseteq Min(new)..b
    BY <1>6, <2>2, <2>3
  <2> QED
    BY <1>1, <2>1, <2>4, Zenon
<1> QED
  BY <1>1, <1>3, <1>4, <1>5, <1>6

\* Leaves are read for the consumer.
LEMMA ReadBatchInv == StorageInv /\ ReadBatch => StorageInv'
<1> SUFFICES ASSUME StorageInv, ReadBatch PROVE StorageInv'
  OBVIOUS
<1> DEFINE next == IF backend = "fs" THEN FsBatch ELSE SqlBatch
<1>0. TypeOK /\ QueueInv /\ ChainInv /\ NewestInv /\ TakenInv /\ BatchInv
  BY DEF StorageInv
<1>1. /\ pc = "store" /\ chain = {} /\ batch' = next /\ todo' = next
      /\ payloads' = {ViewOf[h] : h \in next} \cap da
      /\ pc' = IF next = {} /\ backend = "sql" THEN "prune" ELSE "consume"
      /\ UNCHANGED <<backend, leaves, da, processed, lastDecided, events, call, chain,
                     taken, takenDa, crashes>>
  BY DEF ReadBatch, stored, consumer
<1>2. /\ next \subseteq leaves
      /\ backend = "fs" => \A h \in leaves : h \in next \cup taken
      /\ backend # "fs" =>
           /\ next = {} => \A h \in leaves : ViewOf[h] <= processed
           /\ \A h \in leaves, b \in next : ViewOf[h] > processed /\ h <= b => h \in next
  BY <1>0, <1>1, FsBatchFacts, SqlBatchFacts, Zenon
<1>3. backend # "fs" => backend = "sql"
  BY <1>0, StorageAssumption, Zenon DEF TypeOK
<1> HIDE DEF next
<1>4. TypeOK'
  <2>1. payloads' \subseteq da
    BY <1>1
  <2>2. pc' \in {"idle", "store", "consume", "prune"}
    BY <1>1
  <2> QED
    BY <1>0, <1>1, <1>2, <2>1, <2>2, Zenon DEF TypeOK
<1>5. QueueInv'
  BY <1>0, <1>1 DEF QueueInv
<1>6. ChainInv' /\ NewestInv'
  <2>1. leaves # {}
    BY <1>0, <1>1 DEF ChainInv
  <2> QED
    BY <1>0, <1>1, <2>1 DEF ChainInv, NewestInv
<1>7. TakenInv'
  BY <1>0, <1>1 DEF TakenInv
<1>8. BatchInv'
  BY <1>1, <1>2, <1>3 DEF BatchInv
<1> QED
  BY <1>4, <1>5, <1>6, <1>7, <1>8 DEF StorageInv

\* The consumer takes leaves of the batch.
LEMMA ConsumeInv == StorageInv /\ Consume => StorageInv'
<1> SUFFICES ASSUME StorageInv, Consume PROVE StorageInv'
  OBVIOUS
<1> DEFINE now == IF backend = "fs" THEN {Min(todo)} ELSE todo
<1>0. TypeOK /\ QueueInv /\ ChainInv /\ NewestInv /\ TakenInv /\ BatchInv
  BY DEF StorageInv
<1>1. /\ pc = "consume" /\ todo # {} /\ pc' = "consume"
      /\ taken' = taken \cup now /\ todo' = todo \ now
      /\ takenDa' = takenDa \cup ({ViewOf[h] : h \in now} \cap payloads)
      /\ UNCHANGED <<backend, leaves, da, processed, lastDecided, events, call, chain, batch,
                     payloads, crashes>>
  BY DEF Consume, stored
<1>2. now \subseteq todo /\ todo \subseteq Height /\ todo \subseteq batch
  BY <1>0, <1>1, MinFacts, Zenon DEF TypeOK
<1>3. backend # "fs" => todo' = {}
  BY <1>1
<1> HIDE DEF now
<1>4. TypeOK'
  <2>1. takenDa' \subseteq takenDa \cup payloads /\ taken' \subseteq Height /\ todo' \subseteq batch'
    BY <1>0, <1>1, <1>2 DEF TypeOK
  <2> QED
    BY <1>0, <1>1, <2>1, Zenon DEF TypeOK
<1>5. QueueInv'
  BY <1>0, <1>1 DEF QueueInv
<1>6. ChainInv' /\ NewestInv'
  BY <1>0, <1>1 DEF ChainInv, NewestInv
<1>7. TakenInv'
  BY <1>0, <1>1, Zenon DEF TakenInv
<1>8. BatchInv'
  BY <1>0, <1>1, <1>2, <1>3 DEF BatchInv
<1> QED
  BY <1>4, <1>5, <1>6, <1>7, <1>8 DEF StorageInv

\* The database deletes a batch that was taken, but for its newest leaf, and
\* moves the last processed view to that leaf.
LEMMA DeleteProcessedInv == StorageInv /\ DeleteProcessed => StorageInv'
<1> SUFFICES ASSUME StorageInv, DeleteProcessed PROVE StorageInv'
  OBVIOUS
<1> DEFINE top == Max(batch)
<1>0. TypeOK /\ QueueInv /\ ChainInv /\ NewestInv /\ TakenInv /\ BatchInv
  BY DEF StorageInv
<1>1. /\ backend = "sql" /\ pc = "consume" /\ todo = {} /\ pc' = "store"
      /\ processed' = ViewOf[top] /\ da' = da \ Covered(batch)
      /\ leaves' = leaves \ (batch \ {top})
      /\ UNCHANGED <<backend, lastDecided, events, call, chain, batch, todo, payloads,
                     taken, takenDa, crashes>>
  BY DEF DeleteProcessed, consumer
<1>2. /\ batch \subseteq leaves /\ batch # {} /\ batch \subseteq taken /\ chain = {}
      /\ \A h \in leaves, b \in batch : ViewOf[h] > processed /\ h <= b => h \in batch
  BY <1>0, <1>1 DEF BatchInv, ChainInv
<1>3. /\ top \in batch /\ \A k \in batch : k <= top
  BY <1>0, <1>2, MaxFacts, Zenon DEF TypeOK
<1> HIDE DEF top
<1>4. leaves' \subseteq leaves /\ top \in leaves' /\ top \in Height /\ leaves \subseteq Height
  BY <1>0, <1>1, <1>2, <1>3 DEF TypeOK
<1>5. TypeOK'
  <2>1. processed' \in View /\ da' \subseteq da
    BY <1>1, <1>4, ViewFacts
  <2> QED
    BY <1>0, <1>1, <1>4, <2>1, Zenon DEF TypeOK
<1>6. QueueInv'
  BY <1>0, <1>1, <1>2, <1>4 DEF QueueInv
<1>7. ChainInv'
  BY <1>0, <1>1, <1>2, <1>4 DEF ChainInv
<1>8. NewestInv'
  <2>1. PICK m \in leaves : ViewOf[m] = call /\ \A k \in leaves : k <= m
    BY <1>1, <1>2, NewestStored
  <2>2. m \in batch => m = top
    BY <1>3, <1>4, <2>1, ViewFacts
  <2>3. m \in leaves'
    BY <1>1, <2>1, <2>2
  <2> QED
    BY <1>1, <1>2, <1>4, <2>1, <2>3 DEF NewestInv
<1>9. TakenInv'
  <2>1. ASSUME NEW h \in leaves', ViewOf[h] <= ViewOf[top] PROVE h \in taken
    <3>1. h \in Height /\ h \in leaves /\ h <= top
      BY <1>4, <2>1, ViewFacts, Zenon
    <3>2. CASE ViewOf[h] <= processed
      BY <1>0, <3>1, <3>2 DEF TakenInv
    <3>3. CASE ~ (ViewOf[h] <= processed)
      <4>1. ViewOf[h] > processed
        BY <1>0, <3>1, <3>3, ViewFacts DEF TypeOK
      <4> QED
        BY <1>2, <1>3, <3>1, <4>1, Zenon
    <3> QED
      BY <3>2, <3>3
  <2>2. ViewOf[top] <= ViewOf[top]
    BY <1>4, ViewFacts
  <2> QED
    BY <1>1, <1>4, <2>1, <2>2 DEF TakenInv
<1>10. BatchInv'
  BY <1>1 DEF BatchInv
<1> QED
  BY <1>5, <1>6, <1>7, <1>8, <1>9, <1>10 DEF StorageInv

\* A call ends, having deleted leaves the consumer had taken, but not the one
\* of the view it was called for.
LEMMA EndOfCall ==
  ASSUME StorageInv, pc \in {"consume", "prune"}, Finish,
         leaves' \subseteq leaves, da' \subseteq da,
         \A h \in leaves : ViewOf[h] = call => h \in leaves',
         leaves' = leaves \/ leaves \subseteq taken,
         UNCHANGED <<backend, processed, lastDecided, events, chain, taken, takenDa, crashes>>
  PROVE  StorageInv'
<1>0. TypeOK /\ QueueInv /\ ChainInv /\ NewestInv /\ TakenInv /\ BatchInv
  BY DEF StorageInv
<1>1. pc' = "idle" /\ call' = 0 /\ batch' = {} /\ todo' = {} /\ payloads' = {}
  BY DEF Finish
<1>2. chain = {} /\ pc # "idle"
  BY <1>0 DEF ChainInv
<1>3. PICK m \in leaves : ViewOf[m] = call /\ \A k \in leaves : k <= m /\ ViewOf[k] <= call
  BY <1>2, NewestStored
<1>4. m \in leaves'
  BY <1>3
<1>5. TypeOK'
  BY <1>0, <1>1, ViewFacts DEF TypeOK
<1>6. QueueInv'
  BY <1>0, <1>2 DEF QueueInv
<1>7. ChainInv' /\ NewestInv' /\ BatchInv'
  BY <1>1, <1>2, <1>4 DEF ChainInv, NewestInv, BatchInv
<1>8. TakenInv'
  <2>1. processed >= 0 => processed <= ViewOf[m]
    <3>1. ASSUME processed >= 0, NEW k \in leaves, processed <= ViewOf[k]
          PROVE  processed <= ViewOf[m]
      <4>1. ViewOf[k] <= ViewOf[m] /\ ViewOf[k] \in Int /\ ViewOf[m] \in Int /\ processed \in Int
        BY <1>0, <1>3, ViewFacts DEF TypeOK
      <4> QED
        BY <3>1, <4>1
    <3> QED
      BY <1>0, <3>1 DEF TakenInv
  <2>2. CASE leaves' = leaves
    BY <1>0, <2>2 DEF TakenInv
  <2>3. CASE leaves \subseteq taken
    BY <1>4, <2>1, <2>3 DEF TakenInv
  <2> QED
    BY <2>2, <2>3
<1> QED
  BY <1>5, <1>6, <1>7, <1>8 DEF StorageInv

\* What the garbage collection of the files may delete.
LEMMA CollectGarbageEffect ==
  ASSUME StorageInv, NEW r \in Retentions, CollectGarbage(r)
  PROVE  /\ pc = "consume" /\ Finish /\ leaves' \subseteq leaves /\ da' \subseteq da
         /\ \A h \in leaves : ViewOf[h] = call => h \in leaves'
         /\ leaves \subseteq taken
         /\ UNCHANGED <<backend, processed, lastDecided, events, chain, taken, takenDa, crashes>>
<1>1. /\ backend = "fs" /\ pc = "consume" /\ todo = {} /\ Finish
      /\ UNCHANGED <<backend, processed, lastDecided, events, chain, taken, takenDa, crashes>>
  BY DEF CollectGarbage, consumer
<1>2. PICK D, L : /\ L \subseteq {h \in leaves : ViewOf[h] # call /\ ViewOf[h] \in Garbage(View, r)}
                  /\ da' = da \ D /\ leaves' = leaves \ L
  BY Zenon DEF CollectGarbage
<1>3. leaves \subseteq taken
  BY <1>1 DEF StorageInv, BatchInv
<1> QED
  BY <1>1, <1>2, <1>3

\* What pruning the database deletes.
LEMMA PruneEffect ==
  ASSUME StorageInv, NEW r \in Retentions, Prune(r)
  PROVE  /\ pc = "prune" /\ Finish /\ leaves' \subseteq leaves /\ da' \subseteq da
         /\ \A h \in leaves : ViewOf[h] = call => h \in leaves'
         /\ leaves \subseteq taken
         /\ UNCHANGED <<backend, processed, lastDecided, events, chain, taken, takenDa, crashes>>
<1>1. /\ pc = "prune" /\ Finish
      /\ da' = {v \in da : v >= PruneView(r)}
      /\ leaves' = {h \in leaves : ViewOf[h] >= PruneView(r)}
      /\ UNCHANGED <<backend, processed, lastDecided, events, chain, taken, takenDa, crashes>>
  BY DEF Prune, consumer
<1>2. call \in Nat /\ r \in Nat
  BY ViewFacts, StorageAssumption DEF StorageInv, TypeOK
<1>3. call >= PruneView(r)
  BY <1>2 DEF PruneView
<1>4. leaves \subseteq taken
  BY <1>1 DEF StorageInv, BatchInv, TakenInv
<1> QED
  BY <1>1, <1>3, <1>4

\* A call that fails deletes nothing.
LEMMA FailInv == StorageInv /\ Fail => StorageInv'
<1> SUFFICES ASSUME StorageInv, Fail PROVE StorageInv'
  OBVIOUS
<1>1. /\ pc \in {"consume", "prune"} /\ Finish
      /\ UNCHANGED <<backend, leaves, da, processed, lastDecided, events, chain, taken, takenDa, crashes>>
  BY DEF Fail, stored, consumer
<1> QED
  BY <1>1, EndOfCall

\* A restart forgets the queue and begins with the leaves in storage.
LEMMA RestartInv == StorageInv /\ Restart => StorageInv'
<1> SUFFICES ASSUME StorageInv, Restart PROVE StorageInv'
  OBVIOUS
<1>0. TypeOK /\ QueueInv /\ ChainInv /\ NewestInv /\ TakenInv /\ BatchInv
  BY DEF StorageInv
<1>1. /\ crashes' = IF pc = "idle" THEN crashes ELSE crashes + 1
      /\ pc # "idle" => crashes < MaxCrashes
      /\ lastDecided' = IF leaves = {} THEN 0 ELSE Max(leaves)
      /\ events' = IF leaves \subseteq {0} THEN << <<0, 0>> >> ELSE << >>
      /\ pc' = IF leaves = {} THEN "idle" ELSE "store"
      /\ call' = IF leaves = {} THEN 0 ELSE ViewOf[Max(leaves)]
      /\ chain' = {} /\ batch' = {} /\ todo' = {} /\ payloads' = {}
      /\ UNCHANGED <<backend, leaves, da, processed, taken, takenDa>>
  BY DEF Restart, stored, consumer
<1>2. leaves # {} => Max(leaves) \in leaves /\ \A k \in leaves : k <= Max(leaves)
  BY <1>0, MaxFacts, Zenon DEF TypeOK
<1>3. /\ events' \in Seq(Height \X Height)
      /\ leaves \subseteq {0} => Len(events') = 1 /\ events'[1] = <<0, 0>>
      /\ ~ (leaves \subseteq {0}) => Len(events') = 0
  BY <1>1, ViewFacts
<1>4. TypeOK'
  <2>1. lastDecided' \in Height /\ call' \in View /\ pc' \in {"idle", "store", "consume", "prune"}
    BY <1>0, <1>1, <1>2, ViewFacts DEF TypeOK
  <2>2. crashes' \in 0..MaxCrashes
    BY <1>0, <1>1, StorageAssumption DEF TypeOK
  <2>3. chain' \subseteq Height /\ batch' \subseteq Height /\ todo' \subseteq batch' /\ payloads' \subseteq View
    BY <1>1
  <2> QED
    BY <1>0, <1>1, <1>3, <2>1, <2>2, <2>3, Zenon DEF TypeOK
<1>5. QueueInv'
  <2>1. lastDecided' \in Nat /\ \A k \in leaves : k <= lastDecided'
    BY <1>1, <1>2, <1>4, ViewFacts DEF TypeOK
  <2>2. leaves' = leaves /\ chain' = {}
    BY <1>1
  <2>3. CASE leaves \subseteq {0}
    BY <1>3, <2>1, <2>2, <2>3 DEF QueueInv
  <2>4. CASE ~ (leaves \subseteq {0})
    BY <1>3, <2>1, <2>2, <2>4 DEF QueueInv
  <2> QED
    BY <2>3, <2>4
<1>6. ChainInv'
  <2>1. leaves = {} => pc' = "idle" /\ events' # << >> /\ events'[1] = <<0, 0>>
    BY <1>1
  <2> QED
    BY <1>1, <2>1 DEF ChainInv
<1>7. NewestInv'
  BY <1>1, <1>2 DEF NewestInv
<1>8. TakenInv' /\ BatchInv'
  BY <1>0, <1>1 DEF TakenInv, BatchInv
<1> QED
  BY <1>4, <1>5, <1>6, <1>7, <1>8 DEF StorageInv

\* Every step preserves the invariant.
LEMMA StepInv ==
  ASSUME 0 \notin StoreFails, StorageInv, [Next]_vars
  PROVE  StorageInv'
<1>1. ASSUME NEW r \in Retentions, CollectGarbage(r) PROVE StorageInv'
  BY <1>1, CollectGarbageEffect, EndOfCall
<1>2. ASSUME NEW r \in Retentions, Prune(r) PROVE StorageInv'
  BY <1>2, PruneEffect, EndOfCall
<1>3. CASE UNCHANGED vars
  BY <1>3, Zenon DEF StorageInv, TypeOK, QueueInv, ChainInv, NewestInv, TakenInv, BatchInv,
                     vars, stored, work, consumer
<1> QED
  BY <1>1, <1>2, <1>3, DecideInv, AppendDaInv, TakeEventInv, StoreLeavesInv, StoreErrorInv,
     ReadBatchInv, ConsumeInv, DeleteProcessedInv, FailInv, RestartInv, Zenon DEF Next, Work

\* The invariant holds in every state.
LEMMA AlwaysInv == ASSUME 0 \notin StoreFails PROVE Spec => []StorageInv
<1>1. StorageInv /\ [Next]_vars => StorageInv'
  BY StepInv
<1> QED
  BY <1>1, InitInv, PTL DEF Spec

-----------------------------------------------------------------------------
\* The theorems.

\* A step that deletes leaves, and what it leaves.
LEMMA DeletionEffect ==
  ASSUME StorageInv, [Next]_vars
  PROVE  \A h \in leaves \ leaves' :
           h \in taken /\ \E m \in leaves \cap leaves' : \A k \in leaves : k <= m
<1> SUFFICES ASSUME NEW h \in leaves, h \notin leaves'
             PROVE  h \in taken /\ \E m \in leaves \cap leaves' : \A k \in leaves : k <= m
  OBVIOUS
<1>0. TypeOK /\ ChainInv /\ BatchInv
  BY DEF StorageInv
<1>1. ASSUME pc \in {"consume", "prune"}, leaves \subseteq taken,
             \A k \in leaves : ViewOf[k] = call => k \in leaves'
      PROVE  h \in taken /\ \E m \in leaves \cap leaves' : \A k \in leaves : k <= m
  <2>1. pc # "idle" /\ chain = {}
    BY <1>0, <1>1 DEF ChainInv
  <2> QED
    BY <1>1, <2>1, NewestStored
<1>2. ASSUME NEW r \in Retentions, CollectGarbage(r) \/ Prune(r)
      PROVE  h \in taken /\ \E m \in leaves \cap leaves' : \A k \in leaves : k <= m
  <2>1. CASE CollectGarbage(r)
    BY <1>1, <2>1, CollectGarbageEffect
  <2>2. CASE Prune(r)
    BY <1>1, <2>2, PruneEffect
  <2> QED
    BY <1>2, <2>1, <2>2
<1>3. CASE DeleteProcessed
  <2>1. /\ pc = "consume" /\ backend = "sql" /\ todo = {} /\ leaves' = leaves \ (batch \ {Max(batch)})
    BY <1>3 DEF DeleteProcessed
  <2>2. batch \subseteq taken /\ batch \subseteq leaves /\ chain = {} /\ pc # "idle" /\ batch # {}
    BY <1>0, <2>1 DEF BatchInv, ChainInv
  <2>3. PICK m \in leaves : \A k \in leaves : k <= m
    BY <2>2, NewestStored
  <2>4. Max(batch) \in batch /\ \A k \in batch : k <= Max(batch)
    BY <1>0, <2>2, MaxFacts, Zenon DEF TypeOK
  <2>5. m \in batch => m = Max(batch)
    BY <1>0, <2>2, <2>3, <2>4, ViewFacts DEF TypeOK
  <2> QED
    BY <2>1, <2>2, <2>3, <2>5
<1>4. \/ DeleteProcessed
      \/ \E r \in Retentions : CollectGarbage(r) \/ Prune(r)
      \/ leaves \subseteq leaves'
  <2>1. TakeEvent \/ ReadBatch \/ Consume \/ StoreError \/ Fail \/ Restart \/ UNCHANGED vars
          => leaves' = leaves
    BY Zenon DEF TakeEvent, ReadBatch, Consume, StoreError, Fail, Restart, vars, stored
  <2>2. StoreLeaves => leaves \subseteq leaves'
    BY DEF StoreLeaves
  <2>3. ASSUME NEW a, NEW b, Decide(a, b) PROVE leaves' = leaves
    BY <2>3, Zenon DEF Decide, stored
  <2>4. ASSUME NEW v, AppendDa(v) PROVE leaves' = leaves
    BY <2>4, Zenon DEF AppendDa
  <2> QED
    BY <2>1, <2>2, <2>3, <2>4, Zenon DEF Next, Work
<1> QED
  BY <1>2, <1>3, <1>4, Zenon

\* The consumer takes every leaf before it is deleted from storage.
THEOREM LeavesTakenFirst ==
  ASSUME 0 \notin StoreFails PROVE Spec => TakenBeforeDeleted
<1>1. StorageInv /\ [Next]_vars => [\A h \in leaves \ leaves' : h \in taken]_vars
  BY DeletionEffect, Zenon
<1> QED
  BY <1>1, AlwaysInv, PTL DEF Spec, TakenBeforeDeleted

\* The newest leaf ever stored stays, so that a restart resumes from it.
THEOREM RestartsFromNewest ==
  ASSUME 0 \notin StoreFails PROVE Spec => NewestLeafStays
<1>1. ASSUME StorageInv, StorageInv', [Next]_vars, leaves # {}
      PROVE  leaves' # {} /\ Max(leaves) <= Max(leaves')
  <2>1. leaves \subseteq Height /\ leaves' \subseteq Height
    BY <1>1 DEF StorageInv, TypeOK
  <2>2. Max(leaves) \in leaves /\ \A k \in leaves : k <= Max(leaves)
    BY <1>1, <2>1, MaxFacts, Zenon
  <2>3. Max(leaves) \in leaves'
    <3>1. CASE leaves \subseteq leaves'
      BY <2>2, <3>1
    <3>2. CASE ~ (leaves \subseteq leaves')
      <4>1. PICK m \in leaves \cap leaves' : \A k \in leaves : k <= m
        BY <1>1, <3>2, DeletionEffect
      <4>2. m = Max(leaves)
        BY <2>1, <2>2, <4>1, ViewFacts
      <4> QED
        BY <4>1, <4>2
    <3> QED
      BY <3>1, <3>2
  <2> QED
    BY <2>1, <2>3, MaxFacts, Zenon
<1>2. StorageInv /\ StorageInv' /\ [Next]_vars
        => [leaves # {} => leaves' # {} /\ Max(leaves) <= Max(leaves')]_vars
  BY <1>1, Zenon
<1> QED
  BY <1>2, AlwaysInv, PTL DEF Spec, NewestLeafStays

\* The consumer takes no leaf before an older one that is in storage.
THEOREM LeavesTakenInOrder ==
  ASSUME 0 \notin StoreFails PROVE Spec => TakenInOrder
<1>1. ASSUME StorageInv, Consume, NEW h \in taken' \ taken, NEW k \in leaves, k < h
      PROVE  k \in taken'
  <2>0. TypeOK /\ TakenInv /\ BatchInv
    BY <1>1 DEF StorageInv
  <2>1. /\ pc = "consume" /\ todo # {}
        /\ taken' = taken \cup (IF backend = "fs" THEN {Min(todo)} ELSE todo)
    BY <1>1 DEF Consume
  <2>2. /\ batch \subseteq leaves /\ todo \subseteq batch /\ batch \ todo \subseteq taken
        /\ leaves \subseteq Height /\ todo \subseteq Height
    BY <2>0, <2>1 DEF BatchInv, TypeOK
  <2>3. CASE backend = "fs"
    <3>1. h = Min(todo) /\ k \in batch \cup taken
      BY <1>1, <2>0, <2>1, <2>3 DEF BatchInv
    <3>2. Min(todo) \in todo /\ \A j \in todo : Min(todo) <= j
      BY <2>1, <2>2, MinFacts, Zenon
    <3>3. h \in Nat /\ k \in Nat
      BY <2>2, <3>1, <3>2, ViewFacts
    <3>4. k \notin todo
      BY <1>1, <3>1, <3>2, <3>3
    <3> QED
      BY <2>1, <2>2, <3>1, <3>4
  <2>4. CASE backend # "fs"
    <3>1. h \in todo /\ todo = batch
      BY <1>1, <2>0, <2>1, <2>4 DEF BatchInv
    <3>2. h \in Nat /\ k \in Nat /\ ViewOf[k] \in Int /\ processed \in Int
      BY <2>0, <2>2, <3>1, ViewFacts DEF TypeOK
    <3>3. CASE ViewOf[k] <= processed
      BY <2>0, <2>1, <3>3 DEF TakenInv
    <3>4. CASE ~ (ViewOf[k] <= processed)
      <4>1. ViewOf[k] > processed /\ k <= h
        BY <1>1, <3>2, <3>4
      <4>2. k \in batch
        BY <2>0, <2>1, <2>4, <3>1, <4>1, Zenon DEF BatchInv
      <4> QED
        BY <2>1, <2>4, <3>1, <4>2
    <3> QED
      BY <3>3, <3>4
  <2> QED
    BY <2>3, <2>4
<1>2. [Next]_vars => Consume \/ taken' = taken
  <2>1. ASSUME \/ TakeEvent \/ StoreLeaves \/ ReadBatch \/ DeleteProcessed
               \/ StoreError \/ Fail \/ Restart \/ UNCHANGED vars
        PROVE  taken' = taken
    BY <2>1, Zenon DEF TakeEvent, StoreLeaves, ReadBatch, DeleteProcessed, StoreError, Fail, Restart,
                 vars, consumer
  <2>2. ASSUME NEW r, CollectGarbage(r) \/ Prune(r) PROVE taken' = taken
    BY <2>2, Zenon DEF CollectGarbage, Prune, consumer
  <2>3. ASSUME NEW a, NEW b, Decide(a, b) PROVE taken' = taken
    BY <2>3, Zenon DEF Decide, consumer
  <2>4. ASSUME NEW v, AppendDa(v) PROVE taken' = taken
    BY <2>4, Zenon DEF AppendDa, consumer
  <2> QED
    BY <2>1, <2>2, <2>3, <2>4, Zenon DEF Next, Work
<1>3. StorageInv /\ [Next]_vars
        => [\A h \in taken' \ taken : \A k \in leaves : k < h => k \in taken']_vars
  BY <1>1, <1>2, Zenon
<1> QED
  BY <1>3, AlwaysInv, PTL DEF Spec, TakenInOrder

-----------------------------------------------------------------------------
\* Payloads.

\* With files, the payload of a leaf in the batch was read with it, since nobody
\* stores one meanwhile, and goes to the consumer with the leaf.
PayloadInv ==
  backend = "fs" =>
    /\ pc # "prune"
    /\ pc = "consume" =>
         /\ \A h \in batch : ViewOf[h] \in da => ViewOf[h] \in payloads
         /\ \A h \in batch \ todo : ViewOf[h] \in payloads => ViewOf[h] \in takenDa

\* Nothing but the reading of a batch, the consumer and the storing of a payload
\* touches what PayloadInv speaks of while a batch is handed on.
LEMMA PayloadStep == PayloadInv /\ [Next]_vars => PayloadInv'
<1> SUFFICES ASSUME PayloadInv, [Next]_vars, backend' = "fs"
             PROVE  PayloadInv'
  BY DEF PayloadInv
<1>1. ASSUME \/ TakeEvent \/ StoreLeaves \/ StoreError \/ Fail \/ Restart \/ UNCHANGED vars
             \/ \E a, b \in Height : Decide(a, b)
      PROVE  PayloadInv'
  <2>1. CASE TakeEvent \/ StoreLeaves \/ StoreError \/ Fail \/ Restart
    <3>1. pc' \in {"idle", "store"}
      BY <2>1 DEF TakeEvent, StoreLeaves, StoreError, Fail, Finish, Restart
    <3> QED
      BY <3>1 DEF PayloadInv
  <2>2. CASE UNCHANGED vars \/ \E a, b \in Height : Decide(a, b)
    <3>1. /\ backend' = backend /\ pc' = pc /\ batch' = batch /\ todo' = todo /\ da' = da
          /\ payloads' = payloads /\ takenDa' = takenDa
      BY <2>2 DEF Decide, vars, stored, work, consumer
    <3> QED
      BY <3>1 DEF PayloadInv
  <2> QED
    BY <1>1, <2>1, <2>2
<1>2. ASSUME ReadBatch PROVE PayloadInv'
  <2>1. /\ pc' = "consume" /\ todo' = batch' /\ da' = da
        /\ payloads' = {ViewOf[h] : h \in batch'} \cap da
    BY <1>2 DEF ReadBatch, stored
  <2> QED
    BY <2>1 DEF PayloadInv
<1>3. ASSUME Consume PROVE PayloadInv'
  <2>1. PICK now : /\ takenDa' = takenDa \cup ({ViewOf[h] : h \in now} \cap payloads)
                   /\ todo' = todo \ now
    BY <1>3, Zenon DEF Consume
  <2>2. /\ backend' = backend /\ pc' = pc /\ pc = "consume" /\ batch' = batch /\ da' = da
        /\ payloads' = payloads
    BY <1>3 DEF Consume, stored
  <2> QED
    BY <2>1, <2>2 DEF PayloadInv
<1>4. ASSUME NEW v, AppendDa(v) PROVE PayloadInv'
  <2>1. backend' = backend /\ pc' = pc
    BY <1>4 DEF AppendDa
  <2>2. pc' = "idle"
    BY <1>4, <2>1 DEF AppendDa
  <2> QED
    BY <2>2 DEF PayloadInv
<1>5. ASSUME NEW r, CollectGarbage(r) \/ Prune(r) PROVE PayloadInv'
  <2>1. pc' = "idle"
    BY <1>5 DEF CollectGarbage, Prune, Finish
  <2> QED
    BY <2>1 DEF PayloadInv
<1>6. ASSUME DeleteProcessed PROVE PayloadInv'
  BY <1>6 DEF DeleteProcessed, PayloadInv
<1> QED
  BY <1>1, <1>2, <1>3, <1>4, <1>5, <1>6, Zenon DEF Next, Work

\* With files, collect_garbage deletes no payload of the leaves it was called for
\* that the consumer has not got, whatever fails and whenever the node stops.
THEOREM PayloadsHandedOver == Spec => FilePayloadsHandedOver
<1> DEFINE HandedOver == backend = "fs" => \A h \in batch : ViewOf[h] \in da \ da' => ViewOf[h] \in takenDa
<1>1. Init => PayloadInv
  BY DEF Init, PayloadInv
<1>2. ASSUME PayloadInv, [Next]_vars PROVE [HandedOver]_vars
  <2>1. ASSUME NEW r, CollectGarbage(r) PROVE HandedOver
    <3>1. backend = "fs" /\ pc = "consume" /\ todo = {}
      BY <2>1 DEF CollectGarbage
    <3> QED
      BY <1>2, <3>1 DEF PayloadInv
  <2>2. ASSUME NEW r, Prune(r) \/ DeleteProcessed PROVE HandedOver
    BY <1>2, <2>2 DEF Prune, DeleteProcessed, PayloadInv
  <2>3. ASSUME \/ TakeEvent \/ StoreLeaves \/ ReadBatch \/ Consume \/ StoreError \/ Fail \/ Restart
               \/ UNCHANGED vars \/ (\E a, b \in Height : Decide(a, b)) \/ \E v \in DaViews : AppendDa(v)
        PROVE  HandedOver
    <3>1. da \subseteq da'
      BY <2>3 DEF TakeEvent, StoreLeaves, ReadBatch, Consume, StoreError, Fail, Restart, Decide,
                  AppendDa, vars, stored
    <3> QED
      BY <3>1
  <2> QED
    BY <1>2, <2>1, <2>2, <2>3, Zenon DEF Next, Work
<1> QED
  BY <1>1, <1>2, PayloadStep, PTL DEF Spec, FilePayloadsHandedOver
=============================================================================
