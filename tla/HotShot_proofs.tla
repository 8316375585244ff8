--------------------------- MODULE HotShot_proofs ---------------------------
(***************************************************************************)
(* Proofs about the voting core of HotShot for every committee, every tree  *)
(* of leaves and every bound: what the replicas guarantee while they run,   *)
(* how far they implement CommonLedger, and what is left of that when they  *)
(* restart.                                                                 *)
(***************************************************************************)
EXTENDS HotShotLedger, HotShotRestart, TLAPS

\* A helper of the type proof: storing a leaf keeps the maps well typed.
LEMMA UpdateLeafType ==
  ASSUME TypeOK, NEW n \in Honest, NEW l \in Leaf,
         UpdateLeaf(n, l) \/ UpdateLeafWithDelta(n, l)
  PROVE  /\ saved' \in [Honest -> SUBSET Leaf]
         /\ stateMap' \in [Honest -> [Views -> Leaf \cup {NoLeaf}]]
         /\ withDelta' \in [Honest -> SUBSET Views]
<1>0. View[l] \in Views
  BY LeafAssumption
<1>1. ASSUME InsertLeaf(n, l)
      PROVE  /\ saved' \in [Honest -> SUBSET Leaf]
             /\ stateMap' \in [Honest -> [Views -> Leaf \cup {NoLeaf}]]
  <2>1. saved' \in [Honest -> SUBSET Leaf]
    BY <1>1, Zenon DEF TypeOK, InsertLeaf
  <2>2. stateMap[n] \in [Views -> Leaf \cup {NoLeaf}]
    BY DEF TypeOK
  <2>3. [stateMap[n] EXCEPT ![View[l]] = l] \in [Views -> Leaf \cup {NoLeaf}]
    BY <1>0, <2>2
  <2>4. stateMap' \in [Honest -> [Views -> Leaf \cup {NoLeaf}]]
    BY <1>1, <2>3 DEF TypeOK, InsertLeaf
  <2> QED
    BY <2>1, <2>4
<1>2. withDelta' \in [Honest -> SUBSET Views]
  <2>1. withDelta \in [Honest -> SUBSET Views]
    BY DEF TypeOK
  <2>2. CASE UpdateLeaf(n, l)
    BY <2>1, <2>2 DEF UpdateLeaf
  <2>3. CASE UpdateLeafWithDelta(n, l)
    BY <1>0, <2>1, <2>3 DEF UpdateLeafWithDelta
  <2> QED
    BY <2>2, <2>3
<1>3. CASE InsertLeaf(n, l)
  BY <1>1, <1>2, <1>3
<1>4. CASE UNCHANGED <<stateMap, saved>>
  BY <1>2, <1>4 DEF TypeOK
<1> QED
  BY <1>3, <1>4 DEF UpdateLeaf, UpdateLeafWithDelta

\* What a step does not store keeps its type.
LEMMA StorageKept ==
  TypeOK /\ UNCHANGED storage => /\ actedView' \in [Honest -> Nat]
                                 /\ restartView' \in [Honest -> Nat]
                                 /\ anchor' \in [Honest -> Leaf]
  BY DEF TypeOK, storage

\* Every variable keeps its type under every step of every task.
LEMMA TypeStep == TypeOK /\ [Next]_vars => TypeOK'
<1> SUFFICES ASSUME TypeOK, [Next]_vars PROVE TypeOK'
  OBVIOUS
<1> USE LeafAssumption
<1>1. CASE UNCHANGED vars
  BY <1>1, StorageKept, Zenon DEF TypeOK, vars
<1>2. ASSUME NEW n \in Honest, NEW l \in Leaf \ {Genesis}, RecvWithoutParent(n, l)
      PROVE  TypeOK'
  <2>1. View[l] \in Nat /\ View[Parent[l]] \in Nat /\ Parent[l] \in Leaf
    BY Zenon
  <2>2. lockedView' \in [Honest -> Nat] /\ pendingView' \in [Honest -> Nat]
    BY <1>2, <2>1, Zenon DEF TypeOK, RecvWithoutParent, BroadcastViewChange, Larger
  <2>3. highQc' \in [Honest -> Leaf]
    BY <1>2, <2>1 DEF TypeOK, RecvWithoutParent, UpdateHighQc
  <2> QED
    BY <1>2, <2>2, <2>3, UpdateLeafType, StorageKept, Zenon DEF TypeOK, RecvWithoutParent
<1>3. ASSUME NEW n \in Honest, NEW l \in Leaf \ {Genesis}, RecvWithParent(n, l)
      PROVE  TypeOK'
  <2>1. View[l] \in Views /\ View[l] \in Nat /\ Parent[l] \in Leaf
    BY Zenon
  <2>2. pendingView' \in [Honest -> Nat]
    BY <1>3, <2>1, Zenon DEF TypeOK, RecvWithParent, BroadcastViewChange, Larger
  <2>3. highQc' \in [Honest -> Leaf]
    BY <1>3, <2>1 DEF TypeOK, RecvWithParent, UpdateHighQc
  <2>4. validated' \in [Honest -> Seq(Leaf)]
    <3>1. validated \in [Honest -> Seq(Leaf)] /\ Append(validated[n], l) \in Seq(Leaf)
      BY DEF TypeOK
    <3> QED
      BY <1>3, <3>1, Zenon DEF RecvWithParent
  <2>5. ballot' \in [Honest -> [Views -> Leaf \cup {NoLeaf, Done}]]
    <3>1. ballot[n] \in [Views -> Leaf \cup {NoLeaf, Done}]
      BY DEF TypeOK
    <3>2. FirstOf(ballot[n], l) \in [Views -> Leaf \cup {NoLeaf, Done}]
      BY <2>1, <3>1 DEF FirstOf
    <3> QED
      BY <1>3, <3>2, Zenon DEF TypeOK, RecvWithParent
  <2> QED
    BY <1>3, <2>2, <2>3, <2>4, <2>5, UpdateLeafType, StorageKept, Zenon DEF TypeOK, RecvWithParent
<1>4. ASSUME NEW n \in Honest, NEW l \in Leaf \ {Genesis}, FetchProposal(n, l)
      PROVE  TypeOK'
  BY <1>4, UpdateLeafType, StorageKept, Zenon DEF TypeOK, FetchProposal
<1>5. ASSUME NEW n \in Honest, HandleValidated(n)
      PROVE  TypeOK'
  <2> DEFINE l == Head(validated[n])
             g == Parent[Parent[l]]
  <2>0. validated[n] \in Seq(Leaf) /\ validated[n] # << >>
    BY <1>5 DEF TypeOK, HandleValidated
  <2>1. l \in Leaf /\ g \in Leaf /\ View[g] \in Nat /\ View[Parent[l]] \in Nat
    <3>1. l \in Leaf
      BY <2>0
    <3>2. Parent[l] \in Leaf
      BY <3>1
    <3> QED
      BY <3>1, <3>2, Zenon
  <2>2. lockedView' \in [Honest -> Nat]
    BY <1>5, <2>1, Zenon DEF TypeOK, HandleValidated, Larger
  <2>3. validated' \in [Honest -> Seq(Leaf)]
    BY <1>5, <2>0 DEF TypeOK, HandleValidated
  <2>4. lastDecided' \in [Honest -> Nat]
    BY <1>5, <2>1, Zenon DEF TypeOK, HandleValidated
  <2>5. decided' \in [Honest -> SUBSET Leaf]
    <3>1. LeafChain(n, g) \in SUBSET Leaf
      BY <2>1, AncAssumption DEF LeafChain
    <3>2. decided \in [Honest -> SUBSET Leaf]
      BY DEF TypeOK
    <3>3. CASE decided' = [decided EXCEPT ![n] = @ \cup LeafChain(n, g)]
      BY <3>1, <3>2, <3>3, Zenon
    <3> QED
      BY <1>5, <3>2, <3>3 DEF HandleValidated
  <2>6. /\ saved' \in [Honest -> SUBSET Leaf]
        /\ stateMap' \in [Honest -> [Views -> Leaf \cup {NoLeaf}]]
        /\ withDelta' \in [Honest -> SUBSET Views]
    <3>1. CASE CollectGarbage(n, View[g])
      BY <3>1, Zenon DEF TypeOK, CollectGarbage
    <3>2. CASE UNCHANGED <<saved, stateMap, withDelta>>
      BY <3>2 DEF TypeOK
    <3> QED
      BY <1>5, <3>1, <3>2, Zenon DEF HandleValidated
  <2> QED
    BY <1>5, <2>2, <2>3, <2>4, <2>5, <2>6, StorageKept, Zenon DEF TypeOK, HandleValidated
<1>6. ASSUME NEW n \in Honest, NEW v \in DaViews, Vote(n, v)
      PROVE  TypeOK'
  <2>1. v \in Views /\ v \in Nat /\ ballot[n][v] \in Leaf
    BY <1>6 DEF Vote
  <2>2. ballot' \in [Honest -> [Views -> Leaf \cup {NoLeaf, Done}]]
    <3>1. [ballot[n] EXCEPT ![v] = Done] \in [Views -> Leaf \cup {NoLeaf, Done}]
      BY <2>1 DEF TypeOK
    <3> QED
      BY <1>6, <3>1, Zenon DEF TypeOK, Vote
  <2>3. pendingView' \in [Honest -> Nat]
    BY <1>6, <2>1 DEF TypeOK, Vote, BroadcastViewChange, Larger
  <2>4. lastVoted' \in [Honest -> Nat] /\ votes' \in [Honest -> SUBSET Leaf]
    <3>1. lastVoted \in [Honest -> Nat] /\ votes \in [Honest -> SUBSET Leaf]
      BY Zenon DEF TypeOK
    <3>2. CASE View[ballot[n][v]] > lastVoted[n]
      BY <1>6, <2>1, <3>1, <3>2 DEF Vote, SendVote
    <3>3. CASE ~(View[ballot[n][v]] > lastVoted[n])
      BY <1>6, <3>1, <3>3 DEF Vote, SendVote
    <3> QED
      BY <3>2, <3>3
  <2>5. /\ actedView' \in [Honest -> Nat]
        /\ restartView' \in [Honest -> Nat]
        /\ anchor' \in [Honest -> Leaf]
    <3>1. /\ actedView \in [Honest -> Nat]
          /\ restartView \in [Honest -> Nat]
          /\ anchor \in [Honest -> Leaf]
      BY Zenon DEF TypeOK
    <3>2. View[ballot[n][v]] \in Nat /\ View[ballot[n][v]] + 1 \in Nat
      <4>1. View[ballot[n][v]] \in Nat
        BY <2>1, Zenon
      <4>2. \A x \in Nat : x + 1 \in Nat
        OBVIOUS
      <4> QED
        BY <4>1, <4>2, Zenon
    <3>3. anchor' = anchor
      BY <1>6 DEF Vote, SendVote
    <3>4. CASE RecordVote(n, View[ballot[n][v]])
      BY <3>1, <3>2, <3>3, <3>4, Zenon DEF RecordVote, Larger
    <3>5. CASE UNCHANGED <<actedView, restartView>>
      BY <3>1, <3>3, <3>5
    <3>6. SendVote(n, ballot[n][v])
      BY <1>6, Zenon DEF Vote
    <3> QED
      BY <3>4, <3>5, <3>6, Zenon DEF SendVote
  <2> QED
    BY <1>6, <2>1, <2>2, <2>3, <2>4, <2>5, UpdateLeafType, Zenon DEF TypeOK, Vote
<1>7. ASSUME NEW n \in Honest, ViewChange(n)
      PROVE  TypeOK'
  <2>1. ballot' \in [Honest -> [Views -> Leaf \cup {NoLeaf, Done}]]
    BY <1>7 DEF TypeOK, ViewChange, AbortTasks
  <2>2. curView' \in [Honest -> Nat]
    BY <1>7 DEF TypeOK, ViewChange
  <2> QED
    BY <1>7, <2>1, <2>2, StorageKept, Zenon DEF TypeOK, ViewChange
<1>8. ASSUME NEW n \in Honest, NEW v \in JumpViews, AdvanceView(n, v)
      PROVE  TypeOK'
  <2>1. pendingView' \in [Honest -> Nat]
    BY <1>8 DEF TypeOK, AdvanceView, BroadcastViewChange, Larger
  <2> QED
    BY <1>8, <2>1, StorageKept, Zenon DEF TypeOK, AdvanceView
<1> QED
  BY <1>1, <1>2, <1>3, <1>4, <1>5, <1>6, <1>7, <1>8 DEF Next, OtherTasks, RecvProposal

\* The type invariant of the specification of the freely interleaved tasks.
THEOREM TypeCorrect == Spec => []TypeOK
<1>1. Init => TypeOK
  BY LeafAssumption, AncAssumption DEF Init, TypeOK
<1> QED
  BY <1>1, TypeStep, PTL DEF Spec

-----------------------------------------------------------------------------
\* The inductive invariant of the freely interleaved tasks.

\* Leaf l waits in the queue of the vote task of n.
Queued(n, l) == \E i \in 1..Len(validated[n]) : validated[n][i] = l

\* Leaf l has been validated by n and its vote was sent, may still be sent,
\* or its event is not handled yet.
Accepted(n, l) ==
  \/ l \in votes[n]
  \/ Queued(n, l)
  \/ \E v \in Views : ballot[n][v] = l

BallotInv ==
  \A n \in Honest : \A v \in Views : ballot[n][v] \in Leaf => View[ballot[n][v]] = v

VoteInv ==
  \A n \in Honest :
    /\ \A l \in votes[n] : View[l] <= lastVoted[n] /\ l # Genesis
    /\ \A l, m \in votes[n] : View[l] = View[m] => l = m

JustifiedInv ==
  \A n \in Honest : \A l \in Leaf : Accepted(n, l) => Certified(Parent[l])

FreeInv == TypeOK /\ BallotInv /\ VoteInv /\ JustifiedInv

\* Append keeps the elements of a sequence in their places.
LEMMA AppendKeeps ==
  ASSUME NEW s \in Seq(Leaf), NEW x \in Leaf, NEW i \in 1..Len(s)
  PROVE  i \in 1..Len(Append(s, x)) /\ Append(s, x)[i] = s[i]
  OBVIOUS

\* Append adds one element only.
LEMMA AppendElements ==
  ASSUME NEW s \in Seq(Leaf), NEW x \in Leaf, NEW i \in 1..Len(Append(s, x))
  PROVE  Append(s, x)[i] = x \/ (i \in 1..Len(s) /\ Append(s, x)[i] = s[i])
  OBVIOUS

\* The elements of the queue of validated proposals are its first event and
\* those of its tail.
LEMMA QueueTail ==
  \A q \in Seq(Leaf) : q # << >> =>
    \A k \in Leaf :
      /\ (\E i \in 1..Len(Tail(q)) : Tail(q)[i] = k) => (\E i \in 1..Len(q) : q[i] = k)
      /\ (\E i \in 1..Len(q) : q[i] = k)
           => k = Head(q) \/ (\E i \in 1..Len(Tail(q)) : Tail(q)[i] = k)
<1> SUFFICES ASSUME NEW q \in Seq(Leaf), q # << >>, NEW k \in Leaf
             PROVE  /\ (\E i \in 1..Len(Tail(q)) : Tail(q)[i] = k) => (\E i \in 1..Len(q) : q[i] = k)
                    /\ (\E i \in 1..Len(q) : q[i] = k)
                         => k = Head(q) \/ (\E i \in 1..Len(Tail(q)) : Tail(q)[i] = k)
  BY Zenon
<1>1. ASSUME NEW i \in 1..Len(Tail(q)), Tail(q)[i] = k
      PROVE  \E j \in 1..Len(q) : q[j] = k
  <2>1. i + 1 \in 1..Len(q) /\ q[i + 1] = k
    BY <1>1
  <2> QED
    BY <2>1, Zenon
<1>2. ASSUME NEW i \in 1..Len(q), q[i] = k, k # Head(q)
      PROVE  \E j \in 1..Len(Tail(q)) : Tail(q)[j] = k
  <2>1. i # 1
    BY <1>2
  <2>2. i - 1 \in 1..Len(Tail(q)) /\ Tail(q)[i - 1] = k
    BY <1>2, <2>1
  <2> QED
    BY <2>2, Zenon
<1> QED
  BY <1>1, <1>2, Zenon

\* Validating l makes l the only newly accepted leaf.
LEMMA RecvAccepts ==
  ASSUME TypeOK, NEW n \in Honest, NEW l \in Leaf \ {Genesis}, RecvWithParent(n, l),
         NEW m \in Honest, NEW k \in Leaf, Accepted(m, k)'
  PROVE  \/ Accepted(m, k)
         \/ m = n /\ k = l /\ (SafetyCheck(n, l) \/ LivenessCheck(n, l))
<1>1. CASE k \in votes'[m]
  BY <1>1 DEF RecvWithParent, Accepted
<1>2. CASE Queued(m, k)'
  <2>1. PICK i \in 1..Len(validated'[m]) : validated'[m][i] = k
    BY <1>2 DEF Queued
  <2>2. CASE validated' = [validated EXCEPT ![n] = Append(@, l)]
             /\ (SafetyCheck(n, l) \/ LivenessCheck(n, l))
    <3>1. CASE m = n
      <4>1. validated'[n] = Append(validated[n], l) /\ validated[n] \in Seq(Leaf)
        BY <2>2 DEF TypeOK
      <4>2. i \in 1..Len(Append(validated[n], l)) /\ Append(validated[n], l)[i] = k
        BY <2>1, <3>1, <4>1
      <4>3. k = l \/ Queued(n, k)
        BY <4>1, <4>2 DEF Queued
      <4> QED
        BY <2>2, <3>1, <4>3 DEF Accepted
    <3>2. CASE m # n
      BY <2>1, <2>2, <3>2, Zenon DEF TypeOK, Accepted, Queued
    <3> QED
      BY <3>1, <3>2
  <2>3. CASE UNCHANGED validated
    BY <2>1, <2>3 DEF Accepted, Queued
  <2> QED
    BY <2>2, <2>3 DEF RecvWithParent
<1>3. CASE \E v \in Views : ballot'[m][v] = k
  <2>1. PICK v \in Views : ballot'[m][v] = k
    BY <1>3
  <2>2. CASE ballot' = [ballot EXCEPT ![n] = FirstOf(@, l)]
             /\ (SafetyCheck(n, l) \/ LivenessCheck(n, l))
    <3>1. ballot'[m][v] = ballot[m][v] \/ (m = n /\ ballot'[m][v] = l)
      BY <2>2 DEF TypeOK, FirstOf
    <3> QED
      BY <2>1, <2>2, <3>1 DEF Accepted
  <2>3. CASE UNCHANGED ballot
    BY <2>1, <2>3 DEF Accepted
  <2> QED
    BY <2>2, <2>3 DEF RecvWithParent
<1> QED
  BY <1>1, <1>2, <1>3 DEF Accepted

\* Handling the oldest event takes only that event off the queue.
LEMMA HandleQueued ==
  ASSUME TypeOK, NEW n \in Honest, HandleValidated(n), NEW m \in Honest, NEW k \in Leaf
  PROVE  /\ Queued(m, k)' => Queued(m, k)
         /\ Queued(m, k) => Queued(m, k)' \/ (m = n /\ k = Head(validated[n]))
<1>1. /\ validated[n] \in Seq(Leaf)
      /\ validated[n] # << >>
      /\ validated'[n] = Tail(validated[n])
      /\ m # n => validated'[m] = validated[m]
  BY DEF TypeOK, HandleValidated
<1>2. CASE m = n
  <2> DEFINE q == validated[n]
  <2>0. q \in Seq(Leaf) /\ q # << >>
    BY <1>1, Zenon
  <2>1. validated'[n] = Tail(q)
    BY <1>1, Zenon
  <2>2. Queued(m, k) <=> \E i \in 1..Len(q) : q[i] = k
    BY <1>2, Zenon DEF Queued
  <2>3. Queued(m, k)' <=> \E i \in 1..Len(Tail(q)) : Tail(q)[i] = k
    BY <1>2, <2>1, Zenon DEF Queued
  <2>4. q = validated[n]
    OBVIOUS
  <2> HIDE DEF q
  <2>5. /\ (\E i \in 1..Len(Tail(q)) : Tail(q)[i] = k) => (\E i \in 1..Len(q) : q[i] = k)
        /\ (\E i \in 1..Len(q) : q[i] = k)
             => k = Head(q) \/ (\E i \in 1..Len(Tail(q)) : Tail(q)[i] = k)
    BY <2>0, QueueTail, Zenon
  <2> QED
    BY <1>2, <2>2, <2>3, <2>4, <2>5, Zenon
<1>3. CASE m # n
  BY <1>1, <1>3, Zenon DEF Queued
<1> QED
  BY <1>2, <1>3, Zenon

\* No other step of the tasks makes a leaf accepted.
LEMMA OtherAccepts ==
  ASSUME TypeOK, NEW n \in Honest,
         \/ \E l \in Leaf \ {Genesis} : RecvWithoutParent(n, l) \/ FetchProposal(n, l)
         \/ HandleValidated(n)
         \/ \E v \in DaViews : Vote(n, v)
         \/ ViewChange(n)
         \/ \E v \in JumpViews : AdvanceView(n, v),
         NEW m \in Honest, NEW k \in Leaf, Accepted(m, k)'
  PROVE  Accepted(m, k)
<1>1. CASE UNCHANGED <<votes, validated, ballot>>
  BY <1>1 DEF Accepted, Queued
<1>2. CASE HandleValidated(n)
  <2>1. UNCHANGED <<votes, ballot>>
    BY <1>2 DEF HandleValidated
  <2> QED
    BY <1>2, <2>1, HandleQueued, ZenonT(60) DEF Accepted
<1>3. ASSUME NEW v \in DaViews, Vote(n, v)
      PROVE  Accepted(m, k)
  <2>1. v \in Views
    BY LeafAssumption, Zenon
  <2>2. validated' = validated /\ \A w \in Views : ballot'[m][w] \in {ballot[m][w], Done}
    BY <1>3, <2>1 DEF Vote, TypeOK
  <2>3. votes'[m] \subseteq votes[m] \cup {ballot[m][v]}
    BY <1>3, ZenonT(60) DEF Vote, SendVote, TypeOK
  <2>4. k # Done
    BY LeafAssumption
  <2> QED
    BY <2>1, <2>2, <2>3, <2>4 DEF Accepted, Queued
<1>4. CASE ViewChange(n)
  <2>1. UNCHANGED <<votes, validated>> /\ \A w \in Views : ballot'[m][w] \in {ballot[m][w], Done}
    BY <1>4 DEF ViewChange, AbortTasks, TypeOK
  <2>2. k # Done
    BY LeafAssumption
  <2> QED
    BY <2>1, <2>2 DEF Accepted, Queued
<1> QED
  BY <1>1, <1>2, <1>3, <1>4, Zenon DEF RecvWithoutParent, FetchProposal, AdvanceView

\* Votes are never withdrawn, hence certificates stay valid.
LEMMA CertifiedStable ==
  ASSUME TypeOK, [Next]_vars
  PROVE  /\ \A n \in Honest : votes[n] \subseteq votes'[n]
         /\ \A l \in Leaf : Certified(l) => Certified(l)'
<1>1. \A n \in Honest : votes[n] \subseteq votes'[n]
  <2>1. CASE UNCHANGED votes
    BY <2>1
  <2>2. ASSUME NEW n \in Honest, NEW v \in DaViews, Vote(n, v)
        PROVE  \A m \in Honest : votes[m] \subseteq votes'[m]
    <3>1. votes \in [Honest -> SUBSET Leaf]
      BY DEF TypeOK
    <3>2. CASE votes' = [votes EXCEPT ![n] = @ \cup {ballot[n][v]}]
      BY <3>1, <3>2
    <3>3. CASE UNCHANGED votes
      BY <3>3
    <3> QED
      BY <2>2, <3>2, <3>3 DEF Vote, SendVote
  <2> QED
    BY <2>1, <2>2, ZenonT(60) DEF Next, OtherTasks, RecvProposal, RecvWithParent, RecvWithoutParent,
       FetchProposal, HandleValidated, ViewChange, AdvanceView, vars
<1>2. ASSUME NEW l \in Leaf, Certified(l)
      PROVE  Certified(l)'
  <2>1. CASE l = Genesis
    BY <2>1 DEF Certified
  <2>2. ASSUME NEW Q \in Quorum, \A n \in Q \ Faulty : l \in votes[n]
        PROVE  Certified(l)'
    BY <1>1, <2>2, QuorumAssumption DEF Certified, Honest
  <2> QED
    BY <1>2, <2>1, <2>2 DEF Certified
<1> QED
  BY <1>1, <1>2

\* A dependency task only ever holds a proposal of its own view.
LEMMA BallotStep == TypeOK /\ BallotInv /\ [Next]_vars => BallotInv'
<1> SUFFICES ASSUME TypeOK, BallotInv, [Next]_vars,
                    NEW m \in Honest, NEW w \in Views, ballot'[m][w] \in Leaf
             PROVE  View[ballot'[m][w]] = w
  BY DEF BallotInv
<1>1. CASE ballot'[m][w] = ballot[m][w]
  BY <1>1, Zenon DEF BallotInv
<1>2. ASSUME NEW n \in Honest, NEW l \in Leaf \ {Genesis}, RecvWithParent(n, l)
      PROVE  View[ballot'[m][w]] = w
  <2>1. CASE ballot' = [ballot EXCEPT ![n] = FirstOf(@, l)]
    <3>1. ballot'[m][w] = ballot[m][w] \/ (w = View[l] /\ ballot'[m][w] = l)
      BY <2>1 DEF TypeOK, FirstOf
    <3> QED
      BY <1>1, <3>1
  <2> QED
    BY <1>1, <1>2, <2>1 DEF RecvWithParent
<1>3. ASSUME NEW n \in Honest, NEW v \in DaViews, Vote(n, v)
      PROVE  View[ballot'[m][w]] = w
  <2>1. ballot'[m][w] \in {ballot[m][w], Done}
    BY <1>3, LeafAssumption DEF Vote, TypeOK
  <2> QED
    BY <1>1, <2>1, LeafAssumption
<1>4. ASSUME NEW n \in Honest, ViewChange(n)
      PROVE  View[ballot'[m][w]] = w
  <2>1. ballot'[m][w] \in {ballot[m][w], Done}
    BY <1>4 DEF ViewChange, AbortTasks, TypeOK
  <2> QED
    BY <1>1, <2>1, LeafAssumption
<1> QED
  BY <1>1, <1>2, <1>3, <1>4, ZenonT(60) DEF Next, OtherTasks, RecvProposal, RecvWithoutParent,
     FetchProposal, HandleValidated, AdvanceView, vars

\* What a step does to the votes of node m: nothing, or it adds the proposal of
\* a dependency task of m whose view is above every view voted in before.
LEMMA VoteEffect ==
  ASSUME TypeOK, BallotInv, [Next]_vars, NEW m \in Honest
  PROVE  \/ votes'[m] = votes[m] /\ lastVoted'[m] = lastVoted[m]
         \/ \E v \in Views :
              /\ ballot[m][v] \in Leaf
              /\ View[ballot[m][v]] = v
              /\ v > lastVoted[m]
              /\ lastVoted'[m] = v
              /\ votes'[m] = votes[m] \cup {ballot[m][v]}
<1>1. CASE UNCHANGED <<votes, lastVoted>>
  BY <1>1
<1>2. ASSUME NEW n \in Honest, NEW v \in DaViews, Vote(n, v)
      PROVE  \/ votes'[m] = votes[m] /\ lastVoted'[m] = lastVoted[m]
             \/ \E u \in Views :
                  /\ ballot[m][u] \in Leaf
                  /\ View[ballot[m][u]] = u
                  /\ u > lastVoted[m]
                  /\ lastVoted'[m] = u
                  /\ votes'[m] = votes[m] \cup {ballot[m][u]}
  <2>1. v \in Views /\ ballot[n][v] \in Leaf /\ View[ballot[n][v]] = v
    BY <1>2, LeafAssumption DEF Vote, BallotInv
  <2>2. CASE /\ v > lastVoted[n]
             /\ lastVoted' = [lastVoted EXCEPT ![n] = v]
             /\ votes' = [votes EXCEPT ![n] = @ \cup {ballot[n][v]}]
    <3>1. CASE m = n
      <4>1. lastVoted'[m] = v /\ votes'[m] = votes[m] \cup {ballot[m][v]}
        BY <2>2, <3>1 DEF TypeOK
      <4> QED
        BY <2>1, <2>2, <3>1, <4>1
    <3>2. CASE m # n
      BY <2>2, <3>2, Zenon DEF TypeOK
    <3> QED
      BY <3>1, <3>2
  <2> QED
    BY <1>1, <1>2, <2>1, <2>2 DEF Vote, SendVote
<1> QED
  BY <1>1, <1>2, ZenonT(60) DEF Next, OtherTasks, RecvProposal, RecvWithParent, RecvWithoutParent,
     FetchProposal, HandleValidated, ViewChange, AdvanceView, vars

\* update_action lets a node vote in increasing views only.
LEMMA VoteStep == TypeOK /\ BallotInv /\ VoteInv /\ [Next]_vars => VoteInv'
<1> SUFFICES ASSUME TypeOK, BallotInv, VoteInv, [Next]_vars, NEW m \in Honest
             PROVE  /\ \A l \in votes'[m] : View[l] <= lastVoted'[m] /\ l # Genesis
                    /\ \A l, k \in votes'[m] : View[l] = View[k] => l = k
  BY DEF VoteInv
<1>0. /\ votes[m] \subseteq Leaf /\ lastVoted[m] \in Nat
      /\ \A l \in votes[m] : View[l] <= lastVoted[m] /\ l # Genesis
      /\ \A l, k \in votes[m] : View[l] = View[k] => l = k
      /\ \A l \in Leaf : View[l] \in Nat
      /\ View[Genesis] = 0
  BY LeafAssumption, ZenonT(60) DEF TypeOK, VoteInv
<1>1. CASE votes'[m] = votes[m] /\ lastVoted'[m] = lastVoted[m]
  BY <1>0, <1>1
<1>2. ASSUME NEW v \in Views, ballot[m][v] \in Leaf, View[ballot[m][v]] = v,
             v > lastVoted[m], lastVoted'[m] = v,
             votes'[m] = votes[m] \cup {ballot[m][v]}
      PROVE  /\ \A l \in votes'[m] : View[l] <= lastVoted'[m] /\ l # Genesis
             /\ \A l, k \in votes'[m] : View[l] = View[k] => l = k
  BY <1>0, <1>2
<1> QED
  BY <1>1, <1>2, VoteEffect, Zenon

\* A node only accepts proposals whose justify QC is valid.
LEMMA JustifiedStep == TypeOK /\ JustifiedInv /\ [Next]_vars => JustifiedInv'
<1> SUFFICES ASSUME TypeOK, JustifiedInv, [Next]_vars,
                    NEW m \in Honest, NEW k \in Leaf, Accepted(m, k)'
             PROVE  Certified(Parent[k])'
  BY DEF JustifiedInv
<1>0. Parent[k] \in Leaf
  BY LeafAssumption
<1>1. CASE Accepted(m, k)
  BY <1>0, <1>1, CertifiedStable DEF JustifiedInv
<1>2. CASE Certified(Parent[k])
  BY <1>0, <1>2, CertifiedStable, Zenon
<1>3. ASSUME NEW n \in Honest, NEW l \in Leaf \ {Genesis}, RecvWithParent(n, l)
      PROVE  Certified(Parent[k])'
  <2>1. Accepted(m, k) \/ k = l
    BY <1>3, RecvAccepts
  <2> QED
    BY <1>1, <1>2, <1>3, <2>1 DEF RecvWithParent
<1>4. CASE UNCHANGED vars
  BY <1>1, <1>4 DEF vars, Accepted, Queued
<1> QED
  BY <1>1, <1>3, <1>4, OtherAccepts DEF Next, OtherTasks, RecvProposal

\* The invariant of the freely interleaved tasks holds initially.
LEMMA InitFree == Init => FreeInv
<1> SUFFICES ASSUME Init PROVE FreeInv
  OBVIOUS
<1>1. TypeOK
  BY LeafAssumption, AncAssumption DEF Init, TypeOK
<1>2. BallotInv /\ VoteInv
  BY LeafAssumption DEF Init, BallotInv, VoteInv
<1>3. \A n \in Honest : \A l \in Leaf : ~Accepted(n, l)
  <2> SUFFICES ASSUME NEW n \in Honest, NEW l \in Leaf PROVE ~Accepted(n, l)
    OBVIOUS
  <2>1. validated[n] = << >> /\ votes[n] = {} /\ \A v \in Views : ballot[n][v] = NoLeaf
    BY DEF Init
  <2>2. ~Queued(n, l)
    BY <2>1 DEF Queued
  <2> QED
    BY <2>1, <2>2, LeafAssumption DEF Accepted
<1> QED
  BY <1>1, <1>2, <1>3 DEF FreeInv, JustifiedInv

\* Every step of the freely interleaved tasks preserves it.
LEMMA FreeStep == FreeInv /\ [Next]_vars => FreeInv'
  BY TypeStep, BallotStep, VoteStep, JustifiedStep DEF FreeInv

\* Two certified leaves of one view have a common honest voter, who votes once
\* in a view; the genesis leaf is the only leaf without voters.
LEMMA FreeUnique == FreeInv => UniqueCertificates
<1> SUFFICES ASSUME FreeInv, NEW l \in Leaf, NEW m \in Leaf,
                    View[l] = View[m], Certified(l), Certified(m)
             PROVE  l = m
  BY DEF UniqueCertificates
<1>1. ASSUME NEW k \in Leaf, k # Genesis PROVE View[k] # 0
  <2>1. View[Parent[k]] \in Nat /\ View[k] \in Nat /\ View[Parent[k]] < View[k]
    BY <1>1, LeafAssumption, Zenon
  <2> QED
    BY <2>1
<1>2. CASE l = Genesis \/ m = Genesis
  BY <1>1, <1>2, LeafAssumption, Zenon
<1>3. CASE l # Genesis /\ m # Genesis
  <2>1. PICK Q \in Quorum : \A n \in Q \ Faulty : l \in votes[n]
    BY <1>3 DEF Certified
  <2>2. PICK R \in Quorum : \A n \in R \ Faulty : m \in votes[n]
    BY <1>3 DEF Certified
  <2>3. PICK n \in Q \cap R : n \notin Faulty
    BY QuorumAssumption
  <2>4. n \in Honest /\ l \in votes[n] /\ m \in votes[n]
    BY <2>1, <2>2, <2>3, QuorumAssumption DEF Honest
  <2> QED
    BY <2>4 DEF FreeInv, VoteInv
<1> QED
  BY <1>2, <1>3

\* However the tasks of a node interleave, and whatever faulty members vote
\* for, no view ever has certificates for two leaves.
THEOREM CertificatesUnique == Spec => []UniqueCertificates
<1> QED
  BY InitFree, FreeStep, FreeUnique, PTL DEF Spec

-----------------------------------------------------------------------------
\* The inductive invariant behind agreement.

MapInv == \A n \in Honest : \A v \in Views : HasState(n, v) => View[stateMap[n][v]] = v

\* No quorum can vote for b any more.
Blocked(b) ==
  \A Q \in Quorum : \E n \in Q :
    n \notin Faulty /\ b \notin votes[n] /\ \E m \in votes[n] : View[m] >= View[b]

\* As long as the votes respect the lock, a certified leaf that does not
\* extend the parent of b, which is of the view just before, excludes a
\* certificate for b.
ForkInv ==
  VotesRespectLock =>
  \A b \in Leaf \ {Genesis} : \A l \in Leaf :
    /\ View[b] = View[Parent[b]] + 1
    /\ Certified(l)
    /\ View[l] > View[b]
    /\ Parent[b] \notin Anc[l]
    => Blocked(b)

\* A decided leaf is below a leaf with a certified child of the next view.
DecideInv ==
  \A n \in Honest : \A a \in decided[n] :
    \E b \in Leaf \ {Genesis} :
      Certified(b) /\ View[b] = View[Parent[b]] + 1 /\ a \in Anc[Parent[b]]

BranchInv == FreeInv /\ ForkInv /\ DecideInv

\* The high QC has reached the lock and every justify QC on its way to it.
HighInv ==
  \A n \in Honest :
    /\ lockedView[n] <= View[highQc[n]]
    /\ \A l \in Leaf : Queued(n, l) => View[Parent[l]] <= View[highQc[n]]

\* Views and parents of leaves have their types.
LEMMA LeafFacts ==
  \A l \in Leaf : Parent[l] \in Leaf /\ View[l] \in Nat /\ View[l] \in Views /\ View[Parent[l]] \in Nat
  BY LeafAssumption, Zenon

\* A leaf is among its own ancestors.
LEMMA SelfAnc == \A l \in Leaf : l \in Anc[l]
  BY AncAssumption

\* A state map entry always is of the view it is stored under.
LEMMA MapStep == TypeOK /\ BallotInv /\ MapInv /\ [Next]_vars => MapInv'
<1> SUFFICES ASSUME TypeOK, BallotInv, MapInv, [Next]_vars,
                    NEW m \in Honest, NEW w \in Views, stateMap'[m][w] # NoLeaf
             PROVE  View[stateMap'[m][w]] = w
  BY DEF MapInv, HasState
<1>1. CASE stateMap'[m][w] = stateMap[m][w]
  BY <1>1 DEF MapInv, HasState
<1>2. ASSUME NEW n \in Honest, NEW l \in Leaf, UpdateLeaf(n, l) \/ UpdateLeafWithDelta(n, l)
      PROVE  View[stateMap'[m][w]] = w
  <2>1. CASE UNCHANGED stateMap
    BY <1>1, <2>1
  <2>2. CASE stateMap' = [stateMap EXCEPT ![n] = [@ EXCEPT ![View[l]] = l]]
    <3>1. stateMap[n] \in [Views -> Leaf \cup {NoLeaf}] /\ stateMap \in [Honest -> [Views -> Leaf \cup {NoLeaf}]]
      BY Zenon DEF TypeOK
    <3>2. stateMap'[m][w] = stateMap[m][w] \/ (w = View[l] /\ stateMap'[m][w] = l)
      BY <2>2, <3>1
    <3> QED
      BY <1>1, <3>2
  <2> QED
    BY <1>2, <2>1, <2>2 DEF UpdateLeaf, UpdateLeafWithDelta, InsertLeaf
<1>3. ASSUME NEW n \in Honest, HandleValidated(n)
      PROVE  View[stateMap'[m][w]] = w
  <2>1. ASSUME NEW new, CollectGarbage(n, new)
        PROVE  stateMap'[m][w] \in {stateMap[m][w], NoLeaf}
    BY <2>1, Zenon DEF CollectGarbage, TypeOK
  <2> QED
    BY <1>1, <1>3, <2>1 DEF HandleValidated
<1>4. ASSUME NEW n \in Honest, NEW v \in DaViews, Vote(n, v)
      PROVE  View[stateMap'[m][w]] = w
  <2>1. ballot[n][v] \in Leaf /\ UpdateLeafWithDelta(n, ballot[n][v])
    BY <1>4 DEF Vote
  <2> QED
    BY <1>2, <2>1
<1> QED
  BY <1>1, <1>2, <1>3, <1>4, ZenonT(60) DEF Next, OtherTasks, RecvProposal, RecvWithParent,
     RecvWithoutParent, FetchProposal, ViewChange, AdvanceView, vars

\* A proposal that passes either check is justified at the lock or later.
LEMMA CheckRespectsLock ==
  ASSUME TypeOK, MapInv, NEW n \in Honest, NEW l \in Leaf,
         SafetyCheck(n, l) \/ LivenessCheck(n, l)
  PROVE  lockedView[n] <= View[Parent[l]]
<1>0. lockedView[n] \in Nat /\ View[Parent[l]] \in Nat /\ View[Parent[l]] \in Views
  BY LeafFacts DEF TypeOK
<1>1. CASE LivenessCheck(n, l)
  BY <1>0, <1>1, SMTT(60) DEF LivenessCheck
<1>2. CASE SafetyCheck(n, l)
  <2> DEFINE p == stateMap[n][View[Parent[l]]]
  <2>1. PICK a \in Leaf : View[a] = lockedView[n] /\ HasState(n, View[Parent[l]]) /\ a \in Anc[p]
    BY <1>2, Zenon DEF SafetyCheck, Reaches
  <2>2. p \in Leaf /\ View[p] = View[Parent[l]]
    BY <1>0, <2>1 DEF HasState, MapInv, TypeOK
  <2> QED
    BY <2>1, <2>2, AncAssumption, Zenon
<1> QED
  BY <1>1, <1>2, Zenon

\* A quorum that is excluded from certifying b stays excluded: its members
\* have voted in later views and never vote in an earlier one.
LEMMA BlockedStable ==
  ASSUME FreeInv, [Next]_vars, NEW b \in Leaf, Blocked(b)
  PROVE  Blocked(b)'
<1> SUFFICES ASSUME NEW Q \in Quorum
             PROVE  \E n \in Q : /\ n \notin Faulty /\ b \notin votes'[n]
                                 /\ \E m \in votes'[n] : View[m] >= View[b]
  BY Zenon DEF Blocked
<1>1. PICK n \in Q : n \notin Faulty /\ b \notin votes[n] /\ \E m \in votes[n] : View[m] >= View[b]
  BY Zenon DEF Blocked
<1>2. PICK m \in votes[n] : View[m] >= View[b]
  BY <1>1, Zenon
<1>3. n \in Honest /\ View[b] \in Nat /\ View[m] \in Nat /\ lastVoted[n] \in Nat
  BY <1>1, QuorumAssumption, LeafFacts, Zenon DEF Honest, FreeInv, TypeOK
<1>4. m \in votes'[n]
  BY <1>3, CertifiedStable, Zenon DEF FreeInv
<1>5. b \notin votes'[n]
  <2>1. ASSUME NEW v \in Views, View[ballot[n][v]] = v, v > lastVoted[n]
        PROVE  ballot[n][v] # b
    <3>1. v \in Nat
      BY LeafAssumption, Zenon
    <3>2. View[m] <= lastVoted[n]
      BY <1>3, Zenon DEF FreeInv, VoteInv
    <3> QED
      BY <1>2, <1>3, <2>1, <3>1, <3>2
  <2> QED
    BY <1>1, <1>3, <2>1, VoteEffect DEF FreeInv
<1> QED
  BY <1>1, <1>2, <1>4, <1>5, Zenon

\* A vote below the lock is not taken back.
LEMMA BreachStays == TypeOK /\ [Next]_vars /\ VotesRespectLock' => VotesRespectLock
  BY CertifiedStable, Zenon DEF VotesRespectLock

\* A vote of the new state was cast for a leaf accepted in the old one.
LEMMA VotesWereAccepted ==
  ASSUME FreeInv, [Next]_vars, NEW n \in Honest, NEW l \in votes'[n]
  PROVE  Accepted(n, l)
<1>1. CASE l \in votes[n]
  BY <1>1 DEF Accepted
<1>2. CASE l \notin votes[n]
  <2>1. PICK v \in Views : votes'[n] = votes[n] \cup {ballot[n][v]}
    BY <1>2, VoteEffect, Zenon DEF FreeInv
  <2> QED
    BY <1>2, <2>1 DEF Accepted
<1> QED
  BY <1>1, <1>2

\* The heart of agreement: as soon as a branch that leaves out the parent of b
\* is certified above b, every quorum contains an honest member that will
\* never vote for b.
LEMMA ForkStep ==
  FreeInv /\ ForkInv /\ FreeInv' /\ [Next]_vars => ForkInv'
<1> SUFFICES ASSUME FreeInv, ForkInv, FreeInv', VotesRespectLock', [Next]_vars,
                    NEW b \in Leaf \ {Genesis}, NEW l \in Leaf,
                    View[b] = View[Parent[b]] + 1, Certified(l)', View[l] > View[b],
                    Parent[b] \notin Anc[l]
             PROVE  Blocked(b)'
  BY Zenon DEF ForkInv
<1> DEFINE g == Parent[b]
           p == Parent[l]
<1>0. /\ View[b] \in Nat /\ View[l] \in Nat /\ View[g] \in Nat /\ View[p] \in Nat
      /\ g \in Leaf /\ p \in Leaf
  BY LeafFacts, Zenon
<1>a. VotesRespectLock
  BY BreachStays, Zenon DEF FreeInv
<1>1. l # Genesis /\ Anc[l] = {l} \cup Anc[p]
  BY <1>0, LeafAssumption, AncAssumption
<1>2. PICK R \in Quorum : \A n \in R \ Faulty : l \in votes'[n]
  BY <1>1, Zenon DEF Certified
<1>3. Certified(p) /\ Certified(p)'
  <2>1. PICK n \in R : n \notin Faulty
    BY QuorumAssumption
  <2>2. n \in Honest /\ l \in votes'[n]
    BY <1>2, <2>1, QuorumAssumption, Zenon DEF Honest
  <2>3. Certified(p)
    BY <2>2, VotesWereAccepted, Zenon DEF FreeInv, JustifiedInv
  <2> QED
    BY <1>0, <2>3, CertifiedStable, Zenon DEF FreeInv
<1>4. CASE View[p] > View[b]
  <2>1. g \notin Anc[p]
    BY <1>1, Zenon
  <2>2. Blocked(b)
    BY <1>0, <1>a, <1>3, <1>4, <2>1, Zenon DEF ForkInv
  <2> QED
    BY <2>2, BlockedStable, Zenon
<1>5. CASE View[p] = View[b]
  <2>1. p # b /\ p # Genesis
    <3>1. p # b
      BY <1>0, <1>1, SelfAnc, AncAssumption, Zenon
    <3>2. View[b] # 0
      BY <1>0
    <3> QED
      BY <1>5, <3>1, <3>2, LeafAssumption, Zenon
  <2>2. PICK P \in Quorum : \A n \in P \ Faulty : p \in votes'[n]
    BY <1>3, <2>1, Zenon DEF Certified
  <2>3. ASSUME NEW Q \in Quorum
        PROVE  \E n \in Q : /\ n \notin Faulty /\ b \notin votes'[n]
                            /\ \E m \in votes'[n] : View[m] >= View[b]
    <3>1. PICK n \in Q \cap P : n \notin Faulty
      BY QuorumAssumption
    <3>2. n \in Honest /\ p \in votes'[n]
      BY <2>2, <3>1, QuorumAssumption, Zenon DEF Honest
    <3>3. b \notin votes'[n]
      BY <1>5, <2>1, <3>2 DEF FreeInv, VoteInv
    <3>4. View[p] >= View[b]
      BY <1>0, <1>5
    <3> QED
      BY <3>1, <3>2, <3>3, <3>4, Zenon
  <2> QED
    BY <2>3, Zenon DEF Blocked
<1>6. CASE View[p] < View[b]
  <2>1. ASSUME NEW Q \in Quorum
        PROVE  \E n \in Q : /\ n \notin Faulty /\ b \notin votes'[n]
                            /\ \E m \in votes'[n] : View[m] >= View[b]
    <3>1. PICK n \in Q \cap R : n \notin Faulty
      BY QuorumAssumption, Zenon
    <3>2. n \in Honest /\ l \in votes'[n]
      BY <1>2, <3>1, QuorumAssumption DEF Honest
    <3>3. View[l] >= View[b]
      BY <1>0
    <3>4. ASSUME b \in votes'[n] PROVE FALSE
      <4>1. Accepted(n, b)' /\ View[b] < View[l]
        BY <1>0, <3>4 DEF Accepted
      <4>2. View[g] <= View[p]
        BY <3>2, <3>4, <4>1, Zenon DEF VotesRespectLock
      <4>3. View[g] = View[p]
        BY <1>0, <1>6, <4>2
      <4>4. Certified(g)'
        BY <3>2, <4>1 DEF FreeInv, JustifiedInv
      <4>5. UniqueCertificates'
        BY FreeUnique, PTL
      <4>6. g = p
        BY <1>0, <1>3, <4>3, <4>4, <4>5, Zenon DEF UniqueCertificates
      <4>7. p \in Anc[p]
        BY <1>0, SelfAnc, Zenon
      <4> QED
        BY <1>1, <4>6, <4>7, Zenon
    <3> QED
      BY <3>1, <3>2, <3>3, <3>4, Zenon
  <2> QED
    BY <2>1, Zenon DEF Blocked
<1> QED
  BY <1>0, <1>4, <1>5, <1>6, SMTT(60)

\* Only leaves with a certified child of the next view, and their ancestors,
\* are decided.
LEMMA DecideStep == FreeInv /\ DecideInv /\ [Next]_vars => DecideInv'
<1> SUFFICES ASSUME FreeInv, DecideInv, [Next]_vars, NEW m \in Honest, NEW a \in decided'[m]
             PROVE  \E b \in Leaf \ {Genesis} :
                      Certified(b)' /\ View[b] = View[Parent[b]] + 1 /\ a \in Anc[Parent[b]]
  BY ZenonT(60) DEF DecideInv
<1>1. CASE a \in decided[m]
  <2>1. PICK b \in Leaf \ {Genesis} :
          Certified(b) /\ View[b] = View[Parent[b]] + 1 /\ a \in Anc[Parent[b]]
    BY <1>1, Zenon DEF DecideInv
  <2>2. Certified(b)'
    BY <2>1, CertifiedStable, Zenon DEF FreeInv
  <2> QED
    BY <2>1, <2>2, ZenonT(60)
<1>2. ASSUME a \notin decided[m], NEW n \in Honest, HandleValidated(n)
      PROVE  \E b \in Leaf \ {Genesis} :
               Certified(b)' /\ View[b] = View[Parent[b]] + 1 /\ a \in Anc[Parent[b]]
  <2>0. validated[n] \in Seq(Leaf) /\ validated[n] # << >>
    BY <1>2, ZenonT(60) DEF FreeInv, TypeOK, HandleValidated
  <2> PICK l \in Leaf : l = Head(validated[n])
    BY <2>0
  <2> DEFINE b == Parent[l]
             g == Parent[b]
  <2>1. Decides(n, l) /\ a \in LeafChain(n, g)
    <3>1. decided \in [Honest -> SUBSET Leaf]
      BY Zenon DEF FreeInv, TypeOK
    <3>2. CASE UNCHANGED decided
      BY <1>2, <3>2, Zenon
    <3>3. CASE Decides(n, l) /\ decided' = [decided EXCEPT ![n] = @ \cup LeafChain(n, g)]
      BY <1>2, <3>1, <3>3, Zenon
    <3> QED
      BY <1>2, <3>2, <3>3, ZenonT(60) DEF HandleValidated
  <2>2. Queued(n, l)
    <3>1. 1 \in 1..Len(validated[n]) /\ validated[n][1] = l
      BY <2>0
    <3> QED
      BY <3>1 DEF Queued
  <2>3. b \in Leaf /\ g \in Leaf /\ View[g] \in Nat /\ View[b] \in Nat
    BY LeafFacts, Zenon
  <2>4. Certified(b)'
    <3>1. Certified(b)
      BY <2>2, Zenon DEF FreeInv, JustifiedInv, Accepted
    <3> QED
      BY <2>3, <3>1, CertifiedStable, Zenon DEF FreeInv
  <2>5. View[b] = View[g] + 1 /\ a \in Anc[g]
    BY <2>1, <2>3, Zenon DEF Decides, LeafChain
  <2>6. b # Genesis
    BY <2>3, <2>5, LeafAssumption, SMTT(30)
  <2> QED
    BY <2>3, <2>4, <2>5, <2>6
<1>3. CASE UNCHANGED decided
  BY <1>1, <1>3
<1> QED
  BY <1>1, <1>2, <1>3 DEF Next, OtherTasks, RecvProposal, RecvWithParent,
     RecvWithoutParent, FetchProposal, Vote, ViewChange, AdvanceView, vars

\* The invariant holds initially.
LEMMA InitBranch == Init => BranchInv
<1> SUFFICES ASSUME Init PROVE BranchInv
  OBVIOUS
<1>1. FreeInv
  BY InitFree, Zenon
<1>2. DecideInv
  BY Zenon DEF Init, DecideInv
<1>3. ForkInv
  <2>1. ASSUME NEW l \in Leaf, Certified(l) PROVE l = Genesis
    <3>1. ASSUME NEW Q \in Quorum, \A n \in Q \ Faulty : l \in votes[n] PROVE FALSE
      <4>1. PICK n \in Q : n \notin Faulty
        BY QuorumAssumption
      <4> QED
        BY <3>1, <4>1, QuorumAssumption DEF Init, Honest
    <3> QED
      BY <2>1, <3>1, Zenon DEF Certified
  <2>2. ASSUME NEW b \in Leaf PROVE ~(View[Genesis] > View[b])
    BY LeafFacts, LeafAssumption
  <2> QED
    BY <2>1, <2>2, Zenon DEF ForkInv
<1> QED
  BY <1>1, <1>2, <1>3, Zenon DEF BranchInv

\* Every step of the running tasks preserves it.
LEMMA BranchStep == BranchInv /\ [Next]_vars => BranchInv'
  BY FreeStep, ForkStep, DecideStep, Zenon DEF BranchInv

\* If a later certified leaf left out the parent of b, b could not have been
\* certified; hence the two decided branches are one.
LEMMA BranchAgreement == BranchInv => ForksNeedLockBreach
<1> SUFFICES ASSUME BranchInv, VotesRespectLock, NEW m \in Honest, NEW n \in Honest,
                    NEW a \in decided[m], NEW c \in decided[n]
             PROVE  a \in Anc[c] \/ c \in Anc[a]
  BY Zenon DEF ForksNeedLockBreach, Agreement
<1>1. PICK b \in Leaf \ {Genesis} :
        Certified(b) /\ View[b] = View[Parent[b]] + 1 /\ a \in Anc[Parent[b]]
  BY Zenon DEF BranchInv, DecideInv
<1>2. PICK d \in Leaf \ {Genesis} :
        Certified(d) /\ View[d] = View[Parent[d]] + 1 /\ c \in Anc[Parent[d]]
  BY DEF BranchInv, DecideInv
<1>3. ASSUME NEW x \in Leaf \ {Genesis}, NEW y \in Leaf, Certified(x), Certified(y),
             View[x] = View[Parent[x]] + 1, View[y] > View[x]
      PROVE  Parent[x] \in Anc[y]
  <2> SUFFICES ASSUME Parent[x] \notin Anc[y] PROVE FALSE
    BY Zenon
  <2>1. Blocked(x)
    BY <1>3, Zenon DEF BranchInv, ForkInv
  <2>2. PICK Q \in Quorum : \A k \in Q \ Faulty : x \in votes[k]
    BY <1>3, Zenon DEF Certified
  <2> QED
    BY <2>1, <2>2, Zenon DEF Blocked
<1>4. /\ View[b] \in Nat /\ View[d] \in Nat /\ Parent[b] \in Leaf /\ Parent[d] \in Leaf
      /\ Anc[b] = {b} \cup Anc[Parent[b]] /\ Anc[d] = {d} \cup Anc[Parent[d]]
  BY LeafFacts, AncAssumption, Zenon
<1>5. CASE View[b] = View[d]
  <2>1. b = d
    BY <1>1, <1>2, <1>5, FreeUnique, Zenon DEF BranchInv, UniqueCertificates
  <2> QED
    BY <1>1, <1>2, <1>4, <2>1, AncAssumption, Zenon
<1>6. CASE View[d] > View[b]
  <2>1. Parent[b] \in Anc[d]
    BY <1>1, <1>2, <1>3, <1>6, Zenon
  <2>2. a \in Anc[d] /\ c \in Anc[d]
    BY <1>1, <1>2, <1>4, <2>1, AncAssumption, Zenon
  <2> QED
    BY <2>2, AncAssumption, Zenon
<1>7. CASE View[b] > View[d]
  <2>1. Parent[d] \in Anc[b]
    BY <1>1, <1>2, <1>3, <1>7, Zenon
  <2>2. a \in Anc[b] /\ c \in Anc[b]
    BY <1>1, <1>2, <1>4, <2>1, AncAssumption
  <2> QED
    BY <2>2, AncAssumption, Zenon
<1> QED
  BY <1>4, <1>5, <1>6, <1>7

\* Any two leaves decided by any two honest nodes lie on one branch unless
\* some honest node has voted below its lock, for every committee, every tree
\* of proposals, any number of views and every interleaving of the tasks.
THEOREM ForksOnlyByLockBreach == Spec => []ForksNeedLockBreach
<1> QED
  BY InitBranch, BranchStep, BranchAgreement, PTL DEF Spec

\* The queue of the vote task grows by a proposal that has passed a check.
LEMMA QueueGrows ==
  ASSUME TypeOK, [Next]_vars, NEW n \in Honest, Len(validated'[n]) > Len(validated[n])
  PROVE  \E l \in Leaf : /\ SafetyCheck(n, l) \/ LivenessCheck(n, l)
                         /\ validated'[n][Len(validated'[n])] = l
<1>0. validated \in [Honest -> Seq(Leaf)] /\ validated[n] \in Seq(Leaf)
  BY DEF TypeOK
<1>1. validated'[n] # validated[n]
  BY <1>0
<1>2. ASSUME NEW m \in Honest, NEW l \in Leaf, RecvWithParent(m, l)
      PROVE  (SafetyCheck(n, l) \/ LivenessCheck(n, l)) /\ validated'[n][Len(validated'[n])] = l
  <2>1. /\ validated' = [validated EXCEPT ![m] = Append(@, l)]
        /\ SafetyCheck(m, l) \/ LivenessCheck(m, l)
    BY <1>1, <1>2, Zenon DEF RecvWithParent
  <2>2. m = n /\ validated'[n] = Append(validated[n], l)
    BY <1>0, <1>1, <2>1, Zenon
  <2>3. validated'[n][Len(validated'[n])] = l
    BY <1>0, <2>2
  <2> QED
    BY <2>1, <2>2, <2>3, Zenon
<1>3. ASSUME NEW m \in Honest, HandleValidated(m) PROVE FALSE
  <2>1. validated[m] # << >> /\ validated' = [validated EXCEPT ![m] = Tail(@)]
    BY <1>3, Zenon DEF HandleValidated
  <2>2. m = n /\ validated'[n] = Tail(validated[n])
    BY <1>0, <1>1, <2>1, Zenon
  <2> QED
    BY <1>0, <2>1, <2>2
<1>4. validated' # validated
  BY <1>1
<1> QED
  BY <1>2, <1>3, <1>4, Zenon DEF Next, OtherTasks, RecvProposal, RecvWithoutParent,
     FetchProposal, Vote, ViewChange, AdvanceView, vars

\* Whatever the state map holds after equivocations, fetches and garbage
\* collection, a proposal is queued for a vote only if its justify QC is not
\* older than the lock at that moment.
THEOREM LockGuardsAcceptance == Spec => AcceptedAtLock
<1>1. Init => FreeInv /\ MapInv
  <2>1. Init => MapInv
    <3>1. View[Genesis] = 0 /\ Genesis # NoLeaf
      BY LeafAssumption, Zenon
    <3>2. Init => \A n \in Honest : stateMap[n] = [v \in Views |-> IF v = 0 THEN Genesis ELSE NoLeaf]
      BY Zenon DEF Init
    <3> QED
      BY <3>1, <3>2, Zenon DEF MapInv, HasState
  <2> QED
    BY <2>1, InitFree, Zenon
<1>2. FreeInv /\ MapInv /\ [Next]_vars => (FreeInv /\ MapInv)'
  BY FreeStep, MapStep, Zenon DEF FreeInv
<1>3. FreeInv /\ MapInv /\ [Next]_vars =>
        \A n \in Honest :
          Len(validated'[n]) > Len(validated[n]) =>
            View[Parent[validated'[n][Len(validated'[n])]]] >= lockedView[n]
  <2> SUFFICES ASSUME FreeInv, MapInv, [Next]_vars, NEW n \in Honest,
                      Len(validated'[n]) > Len(validated[n])
               PROVE  View[Parent[validated'[n][Len(validated'[n])]]] >= lockedView[n]
    BY Zenon
  <2>0. TypeOK
    BY Zenon DEF FreeInv
  <2>1. PICK l \in Leaf : /\ SafetyCheck(n, l) \/ LivenessCheck(n, l)
                          /\ validated'[n][Len(validated'[n])] = l
    BY <2>0, QueueGrows, Zenon
  <2>2. lockedView[n] <= View[Parent[l]]
    BY <2>0, <2>1, CheckRespectsLock, Zenon
  <2>3. lockedView[n] \in Nat /\ View[Parent[l]] \in Nat
    BY <2>0, LeafFacts DEF TypeOK
  <2>4. View[Parent[l]] >= lockedView[n]
    BY <2>2, <2>3
  <2> QED
    BY <2>1, <2>4, Zenon
<1> QED
  BY <1>1, <1>2, <1>3, PTL DEF Spec, AcceptedAtLock

-----------------------------------------------------------------------------
\* The high QC never falls back and covers every justify QC it has seen.
LEMMA HighStep == TypeOK /\ HighInv /\ [Next]_vars => HighInv'
<1> SUFFICES ASSUME TypeOK, HighInv, [Next]_vars, NEW m \in Honest
             PROVE  /\ lockedView'[m] <= View[highQc'[m]]
                    /\ \A k \in Leaf : Queued(m, k)' => View[Parent[k]] <= View[highQc'[m]]
  BY ZenonT(60) DEF HighInv
<1> DEFINE Goal == /\ lockedView'[m] <= View[highQc'[m]]
                   /\ \A k \in Leaf : Queued(m, k)' => View[Parent[k]] <= View[highQc'[m]]
<1>0. /\ highQc[m] \in Leaf /\ View[highQc[m]] \in Nat /\ lockedView[m] \in Nat
      /\ lockedView[m] <= View[highQc[m]]
      /\ \A k \in Leaf : Queued(m, k) => View[Parent[k]] <= View[highQc[m]]
  BY LeafFacts, ZenonT(60) DEF TypeOK, HighInv
<1>1. CASE UNCHANGED <<lockedView, highQc, validated>>
  BY <1>0, <1>1, ZenonT(60) DEF Queued
<1>2. ASSUME NEW n \in Honest, NEW l \in Leaf, UpdateHighQc(n, l)
      PROVE  /\ View[highQc'[m]] \in Nat
             /\ View[highQc[m]] <= View[highQc'[m]]
             /\ m = n => View[Parent[l]] <= View[highQc'[m]]
  <2>1. highQc \in [Honest -> Leaf] /\ Parent[l] \in Leaf /\ View[Parent[l]] \in Nat
    BY LeafFacts, Zenon DEF TypeOK
  <2>2. CASE m = n
    <3>1. highQc'[m] = IF View[Parent[l]] > View[highQc[m]] THEN Parent[l] ELSE highQc[m]
      BY <1>2, <2>1, <2>2, Zenon DEF UpdateHighQc
    <3> QED
      BY <1>0, <2>1, <3>1, SMTT(30)
  <2>3. CASE m # n
    <3>1. highQc'[m] = highQc[m]
      BY <1>2, <2>1, <2>3, Zenon DEF UpdateHighQc
    <3> QED
      BY <1>0, <2>3, <3>1
  <2> QED
    BY <2>2, <2>3, Zenon
<1>3. ASSUME NEW n \in Honest, NEW l \in Leaf \ {Genesis}, RecvWithoutParent(n, l)
      PROVE  Goal
  <2>1. UpdateHighQc(n, l) /\ validated' = validated
    BY <1>3, ZenonT(60) DEF RecvWithoutParent
  <2>2. lockedView'[m] = lockedView[m] \/ (m = n /\ lockedView'[m] = View[Parent[l]])
    BY <1>3, ZenonT(60) DEF RecvWithoutParent, TypeOK
  <2>3. /\ View[highQc'[m]] \in Nat /\ View[highQc[m]] <= View[highQc'[m]]
        /\ m = n => View[Parent[l]] <= View[highQc'[m]]
    BY <1>2, <2>1, ZenonT(60)
  <2>4. ASSUME NEW k \in Leaf, Queued(m, k)'
        PROVE  View[Parent[k]] <= View[highQc'[m]]
    BY <1>0, <2>1, <2>3, <2>4, LeafFacts, SMTT(30) DEF Queued
  <2> QED
    BY <1>0, <2>2, <2>3, <2>4, SMTT(30)
<1>4. ASSUME NEW n \in Honest, NEW l \in Leaf \ {Genesis}, RecvWithParent(n, l)
      PROVE  Goal
  <2>1. UpdateHighQc(n, l) /\ lockedView' = lockedView
    BY <1>4, ZenonT(60) DEF RecvWithParent
  <2>2. /\ View[highQc'[m]] \in Nat /\ View[highQc[m]] <= View[highQc'[m]]
        /\ m = n => View[Parent[l]] <= View[highQc'[m]]
    BY <1>2, <2>1
  <2>3. ASSUME NEW k \in Leaf, Queued(m, k)'
        PROVE  View[Parent[k]] <= View[highQc'[m]]
    <3>1. PICK i \in 1..Len(validated'[m]) : validated'[m][i] = k
      BY <2>3, Zenon DEF Queued
    <3>2. validated[m] \in Seq(Leaf)
      BY DEF TypeOK
    <3>3. \/ validated'[m] = validated[m]
          \/ m = n /\ validated'[m] = Append(validated[m], l)
      <4>1. validated' = validated \/ validated' = [validated EXCEPT ![n] = Append(@, l)]
        BY <1>4, Zenon DEF RecvWithParent
      <4>2. validated \in [Honest -> Seq(Leaf)]
        BY Zenon DEF TypeOK
      <4> QED
        BY <4>1, <4>2, Zenon
    <3>4. CASE validated'[m] = validated[m]
      <4>1. Queued(m, k)
        BY <3>1, <3>4, Zenon DEF Queued
      <4>2. View[Parent[k]] <= View[highQc[m]] /\ View[Parent[k]] \in Nat /\ View[highQc[m]] \in Nat
        BY <1>0, <4>1, LeafFacts, Zenon
      <4> QED
        BY <2>2, <4>2
    <3>5. CASE m = n /\ validated'[m] = Append(validated[m], l)
      <4>1. k = l \/ Queued(m, k)
        BY <3>1, <3>2, <3>5, AppendElements DEF Queued
      <4>2. Queued(m, k) => View[Parent[k]] <= View[highQc[m]]
        BY <1>0, Zenon
      <4>3. View[Parent[k]] \in Nat /\ View[highQc[m]] \in Nat
        BY <1>0, LeafFacts, Zenon
      <4> QED
        BY <2>2, <3>5, <4>1, <4>2, <4>3
    <3> QED
      BY <3>3, <3>4, <3>5
  <2>4. View[highQc[m]] \in Nat /\ lockedView[m] \in Nat /\ lockedView[m] <= View[highQc[m]]
    BY <1>0, Zenon
  <2>5. lockedView'[m] <= View[highQc'[m]]
    BY <2>1, <2>2, <2>4, SMTT(60)
  <2> QED
    BY <2>3, <2>5, Zenon
<1>5. ASSUME NEW n \in Honest, HandleValidated(n)
      PROVE  Goal
  <2>0. validated[n] \in Seq(Leaf) /\ validated[n] # << >> /\ highQc' = highQc
    BY <1>5, ZenonT(60) DEF HandleValidated, TypeOK
  <2> PICK l \in Leaf : l = Head(validated[n])
    BY <2>0
  <2>1. lockedView'[m] = lockedView[m] \/ (m = n /\ lockedView'[m] = View[Parent[l]])
    BY <1>5, ZenonT(60) DEF HandleValidated, Larger, TypeOK
  <2>2. Queued(n, l)
    <3>1. 1 \in 1..Len(validated[n]) /\ validated[n][1] = l
      BY <2>0
    <3> QED
      BY <3>1 DEF Queued
  <2>3. \A k \in Leaf : Queued(m, k)' => Queued(m, k)
    BY <1>5, HandleQueued
  <2> QED
    BY <1>0, <2>0, <2>1, <2>2, <2>3
<1> QED
  BY <1>1, <1>3, <1>4, <1>5 DEF Next, OtherTasks, RecvProposal, FetchProposal,
     Vote, ViewChange, AdvanceView, vars

\* However the tasks interleave, the high QC is never older than the lock.
THEOREM HighQcHolds == Spec => []HighQcCoversLock
<1>1. Init => TypeOK /\ HighInv
  <2> SUFFICES ASSUME Init PROVE TypeOK /\ HighInv
    BY Zenon
  <2>1. TypeOK
    BY LeafAssumption, AncAssumption DEF Init, TypeOK
  <2>2. \A n \in Honest : lockedView[n] = 0 /\ highQc[n] = Genesis /\ validated[n] = << >>
    BY DEF Init
  <2>3. \A n \in Honest : \A k \in Leaf : ~Queued(n, k)
    BY <2>2 DEF Queued
  <2> QED
    BY <2>1, <2>2, <2>3, LeafAssumption DEF HighInv
<1>2. TypeOK /\ HighInv /\ [Next]_vars => (TypeOK /\ HighInv)'
  BY TypeStep, HighStep, Zenon
<1>3. HighInv => HighQcCoversLock
  BY DEF HighInv, HighQcCoversLock
<1> QED
  BY <1>1, <1>2, <1>3, PTL DEF Spec

-----------------------------------------------------------------------------
\* The replicas implement CommonLedger as long as the lock is respected.

\* A leaf is the only one of its branch as late as itself.
LEMMA TopOfBranch ==
  ASSUME NEW g \in Leaf, NEW b \in Anc[g], View[b] >= View[g]
  PROVE  b = g
<1>1. CASE g = Genesis
  BY <1>1, AncAssumption
<1>2. CASE g # Genesis
  <2>1. Parent[g] \in Leaf /\ View[Parent[g]] \in Nat /\ View[g] \in Nat /\ View[Parent[g]] < View[g]
    BY <1>2, LeafFacts, LeafAssumption
  <2>2. Anc[g] = {g} \cup Anc[Parent[g]]
    BY <1>2, AncAssumption
  <2>3. b \in Anc[Parent[g]] => View[b] <= View[Parent[g]]
    BY <2>1, AncAssumption
  <2>4. View[b] \in Nat
    BY AncAssumption, LeafFacts
  <2> QED
    BY <2>1, <2>2, <2>3, <2>4
<1> QED
  BY <1>1, <1>2

\* Only the handler of validated proposals announces leaves.
LEMMA OnlyValidatedDecides ==
  ASSUME [Next]_vars
  PROVE  UNCHANGED decided \/ \E n \in Honest : HandleValidated(n)
<1>1. CASE UNCHANGED vars
  BY <1>1, Zenon DEF vars
<1>2. ASSUME NEW n \in Honest, NEW l \in Leaf, RecvProposal(n, l)
      PROVE  UNCHANGED decided
  BY <1>2, Zenon DEF RecvProposal, RecvWithParent, RecvWithoutParent
<1>3. ASSUME NEW n \in Honest, NEW l \in Leaf, FetchProposal(n, l)
      PROVE  UNCHANGED decided
  BY <1>3, Zenon DEF FetchProposal
<1>4. ASSUME NEW n \in Honest, NEW v, Vote(n, v) \/ AdvanceView(n, v) \/ ViewChange(n)
      PROVE  UNCHANGED decided
  BY <1>4, Zenon DEF Vote, AdvanceView, ViewChange
<1> QED
  BY <1>1, <1>2, <1>3, <1>4, Zenon DEF Next, OtherTasks

\* A step that announces leaves adds one branch to what is decided.
LEMMA DecideEffect ==
  ASSUME TypeOK, [Next]_vars
  PROVE  \/ DecidedLog' = DecidedLog
         \/ \E g \in Leaf : /\ g \in AllDecided'
                            /\ DecidedLog' = DecidedLog \cup Anc[g]
<1>1. CASE UNCHANGED decided
  BY <1>1 DEF DecidedLog, AllDecided
<1>2. ASSUME NEW n \in Honest, HandleValidated(n)
      PROVE  \/ UNCHANGED decided
             \/ \E g \in Leaf : /\ g \in AllDecided'
                                /\ DecidedLog' = DecidedLog \cup Anc[g]
  <2>0. validated[n] \in Seq(Leaf) /\ validated[n] # << >> /\ decided \in [Honest -> SUBSET Leaf]
    BY <1>2, Zenon DEF HandleValidated, TypeOK
  <2> PICK l \in Leaf : l = Head(validated[n])
    BY <2>0
  <2> DEFINE g == Parent[Parent[l]]
             chain == LeafChain(n, g)
  <2>1. g \in Leaf /\ View[g] \in Nat
    BY LeafFacts
  <2>2. ASSUME Decides(n, l), View[g] > lastDecided[n],
               decided' = [decided EXCEPT ![n] = @ \cup chain]
        PROVE  g \in AllDecided' /\ DecidedLog' = DecidedLog \cup Anc[g]
    <3>1. g \in chain /\ chain \subseteq Anc[g]
      <4>1. \A b \in Anc[g] : View[b] >= View[g] => b = g
        BY <2>1, TopOfBranch
      <4>2. g \in Anc[g] /\ HasInfo(n, g)
        BY <2>1, <2>2, SelfAnc DEF Decides
      <4> QED
        BY <2>2, <4>1, <4>2, Zenon DEF LeafChain
    <3>2. AllDecided' = AllDecided \cup chain
      BY <2>0, <2>2 DEF AllDecided
    <3>3. \A a \in chain : Anc[a] \subseteq Anc[g]
      BY <2>1, <3>1, AncAssumption
    <3>4. ASSUME NEW x PROVE x \in DecidedLog' <=> x \in DecidedLog \cup Anc[g]
      <4>1. x \in DecidedLog' <=> x = Genesis \/ \E a \in AllDecided \cup chain : x \in Anc[a]
        BY <3>2 DEF DecidedLog
      <4>2. x \in DecidedLog <=> x = Genesis \/ \E a \in AllDecided : x \in Anc[a]
        BY DEF DecidedLog
      <4> QED
        BY <3>1, <3>3, <4>1, <4>2
    <3> QED
      BY <3>1, <3>2, <3>4
  <2> QED
    BY <1>2, <2>1, <2>2, Zenon DEF HandleValidated
<1> QED
  BY <1>1, <1>2, OnlyValidatedDecides, Zenon

\* When the new branch does not fork from the log, the log grows into it.
LEMMA LedgerStep ==
  ASSUME TypeOK, TypeOK', Agreement', [Next]_vars
  PROVE  [L!Extend]_DecidedLog
<1>1. CASE DecidedLog' = DecidedLog
  BY <1>1
<1>2. ASSUME NEW g \in Leaf, g \in AllDecided', DecidedLog' = DecidedLog \cup Anc[g]
      PROVE  [L!Extend]_DecidedLog
  <2>1. AllDecided \subseteq AllDecided' /\ AllDecided' \subseteq Leaf
    <3>1. \A n \in Honest : decided[n] \subseteq decided'[n]
      <4>1. decided \in [Honest -> SUBSET Leaf]
        BY DEF TypeOK
      <4>2. CASE UNCHANGED decided
        BY <4>2, Zenon
      <4>3. ASSUME NEW n \in Honest, HandleValidated(n)
            PROVE  \A m \in Honest : decided[m] \subseteq decided'[m]
        <5>1. ASSUME NEW S, decided' = [decided EXCEPT ![n] = @ \cup S]
              PROVE  \A m \in Honest : decided[m] \subseteq decided'[m]
          BY <4>1, <5>1
        <5> QED
          BY <4>2, <4>3, <5>1, Zenon DEF HandleValidated
      <4> QED
        BY <4>2, <4>3, OnlyValidatedDecides, Zenon
    <3> QED
      BY <3>1 DEF AllDecided, TypeOK
  <2>2. \A a \in AllDecided' : a \in Anc[g] \/ g \in Anc[a]
    BY <1>2 DEF Agreement, AllDecided
  <2>3. CASE \E a \in AllDecided : g \in Anc[a]
    <3>1. PICK a \in AllDecided : g \in Anc[a]
      BY <2>3
    <3>2. Anc[g] \subseteq Anc[a]
      BY <2>1, <3>1, AncAssumption
    <3>3. Anc[a] \subseteq DecidedLog
      BY DEF DecidedLog
    <3> QED
      BY <1>2, <3>2, <3>3
  <2>4. CASE \A a \in AllDecided : g \notin Anc[a]
    <3>1. \A a \in AllDecided : Anc[a] \subseteq Anc[g]
      BY <2>1, <2>2, <2>4, AncAssumption
    <3>2. DecidedLog \subseteq Anc[g]
      BY <3>1, AncAssumption DEF DecidedLog
    <3>3. DecidedLog' = Anc[g]
      BY <1>2, <3>2
    <3> QED
      BY <3>2, <3>3 DEF L!Extend
  <2> QED
    BY <2>3, <2>4
<1> QED
  BY <1>1, <1>2, DecideEffect

\* The Decide events of all replicas together grow one log and do not fork it
\* before some node has voted below its lock.
THEOREM LogExtends == Spec => ExtendsUnlessLockBreach
<1>1. BranchInv => TypeOK /\ ForksNeedLockBreach
  BY BranchAgreement, Zenon DEF BranchInv, FreeInv
<1>2. TypeOK /\ (TypeOK /\ ForksNeedLockBreach)' /\ [Next]_vars
        => [VotesRespectLock' => L!Extend]_DecidedLog
  <2> SUFFICES ASSUME TypeOK, TypeOK', ForksNeedLockBreach', [Next]_vars, VotesRespectLock'
               PROVE  [L!Extend]_DecidedLog
    BY Zenon
  <2>1. Agreement'
    BY Zenon DEF ForksNeedLockBreach
  <2> QED
    BY <2>1, LedgerStep, Zenon
<1> QED
  BY <1>1, <1>2, InitBranch, BranchStep, PTL DEF Spec, ExtendsUnlessLockBreach

\* In a run without a vote below a lock the replicas implement CommonLedger.
THEOREM LedgerImplemented == Spec => ([]VotesRespectLock => ImplementsLedger)
<1>1. Init => L!Init
  BY DEF Init, L!Init, DecidedLog, AllDecided
<1>2. VotesRespectLock' /\ [VotesRespectLock' => L!Extend]_DecidedLog => [L!Extend]_DecidedLog
  BY Zenon
<1>3. Spec => [][VotesRespectLock' => L!Extend]_DecidedLog
  BY LogExtends DEF ExtendsUnlessLockBreach
<1> QED
  BY <1>1, <1>2, <1>3, PTL DEF Spec, ImplementsLedger, L!Spec

-----------------------------------------------------------------------------
\* Replicas that restart: any set of nodes, at any moment and any number of
\* times.

\* A restarting node is an honest one.
LEMMA RestartingIsHonest == \A n \in Restarting : n \in Honest
  BY RestartAssumption

\* Larger returns a natural number that is no smaller than its arguments.
LEMMA LargerFacts ==
  \A x, y \in Nat : Larger(x, y) \in Nat /\ Larger(x, y) >= x /\ Larger(x, y) >= y
  BY DEF Larger

\* Raising the stored view of one node.
LEMMA Raised ==
  \A f \in [Honest -> Nat], n \in Honest, v \in Nat : \A g :
    g = [f EXCEPT ![n] = Larger(@, v)]
      => g \in [Honest -> Nat] /\ g[n] >= v /\ \A m \in Honest : g[m] >= f[m]
<1> SUFFICES ASSUME NEW f \in [Honest -> Nat], NEW n \in Honest, NEW v \in Nat,
                    NEW g, g = [f EXCEPT ![n] = Larger(@, v)]
             PROVE  g \in [Honest -> Nat] /\ g[n] >= v /\ \A m \in Honest : g[m] >= f[m]
  BY Zenon
<1> DEFINE w == Larger(f[n], v)
<1>1. w \in Nat /\ w >= f[n] /\ w >= v
  BY LargerFacts
<1>2. g = [f EXCEPT ![n] = w]
  BY Zenon
<1> HIDE DEF w
<1> QED
  BY <1>1, <1>2

\* What record_action leaves in storage, whole or in part, are views that have
\* not fallen back.
LEMMA RecordEffect ==
  ASSUME TypeOK, NEW n \in Honest, NEW v \in Nat, RecordInPart(n, v)
  PROVE  /\ actedView' \in [Honest -> Nat]
         /\ restartView' \in [Honest -> Nat]
         /\ \A m \in Honest : actedView'[m] >= actedView[m] /\ restartView'[m] >= restartView[m]
<1>0. actedView \in [Honest -> Nat] /\ restartView \in [Honest -> Nat] /\ v + 1 \in Nat
  BY DEF TypeOK
<1>1. UNCHANGED actedView => /\ actedView' \in [Honest -> Nat]
                             /\ \A m \in Honest : actedView'[m] >= actedView[m]
  BY <1>0
<1>2. UNCHANGED restartView => /\ restartView' \in [Honest -> Nat]
                               /\ \A m \in Honest : restartView'[m] >= restartView[m]
  BY <1>0
<1>3. actedView' = [actedView EXCEPT ![n] = Larger(@, v)]
        => /\ actedView' \in [Honest -> Nat]
           /\ \A m \in Honest : actedView'[m] >= actedView[m]
  BY <1>0, Raised, Zenon
<1>4. restartView' = [restartView EXCEPT ![n] = Larger(@, v + 1)]
        => /\ restartView' \in [Honest -> Nat]
           /\ \A m \in Honest : restartView'[m] >= restartView[m]
  BY <1>0, Raised, Zenon
<1> QED
  BY <1>1, <1>2, <1>3, <1>4, Zenon DEF RecordInPart, RecordVote

\* A storage step is a restart, an unsent vote, or leaves the running node
\* alone; votes sent and leaves announced stay.
LEMMA StorageShape ==
  ASSUME TypeOK, NEW n \in Restarting, StorageStep(n)
  PROVE  /\ votes' = votes /\ decided' = decided
         /\ \/ UNCHANGED volatile
            \/ \E v \in DaViews : VoteUnsent(n, v)
            \/ Restart(n)
<1>1. ASSUME NEW v, RecordProposal(n, v) \/ RecordViewSyncVote(n, v)
      PROVE  UNCHANGED <<volatile, votes, decided>>
  BY <1>1, Zenon DEF RecordProposal, RecordViewSyncVote, volatile
<1>2. PersistDecided(n) => UNCHANGED <<volatile, votes, decided>>
  BY Zenon DEF PersistDecided, volatile
<1>3. ASSUME NEW v, VoteUnsent(n, v) PROVE UNCHANGED <<votes, decided>>
  BY <1>3, Zenon DEF VoteUnsent
<1>4. Restart(n) => UNCHANGED <<votes, decided>>
  BY Zenon DEF Restart
<1> QED
  BY <1>1, <1>2, <1>3, <1>4, Zenon DEF StorageStep

\* What is stored keeps its type, and the stored views never fall back.
LEMMA StoredStep ==
  ASSUME TypeOK, NEW n \in Restarting, StorageStep(n)
  PROVE  /\ actedView' \in [Honest -> Nat]
         /\ restartView' \in [Honest -> Nat]
         /\ anchor' \in [Honest -> Leaf]
         /\ \A m \in Honest : actedView'[m] >= actedView[m] /\ restartView'[m] >= restartView[m]
<1> DEFINE Grows == /\ actedView' \in [Honest -> Nat]
                    /\ restartView' \in [Honest -> Nat]
                    /\ \A m \in Honest : actedView'[m] >= actedView[m] /\ restartView'[m] >= restartView[m]
<1> SUFFICES Grows /\ anchor' \in [Honest -> Leaf]
  OBVIOUS
<1>0. n \in Honest /\ anchor \in [Honest -> Leaf]
  BY RestartingIsHonest DEF TypeOK
<1>1. UNCHANGED <<actedView, restartView>> => RecordInPart(n, 0)
  BY Zenon DEF RecordInPart
<1>2. UNCHANGED <<actedView, restartView>> => Grows
  BY <1>0, <1>1, RecordEffect
<1>3. ASSUME NEW v \in OtherViews, RecordProposal(n, v) \/ RecordViewSyncVote(n, v)
      PROVE  Grows /\ anchor' = anchor
  <2>1. v \in Nat
    BY RestartAssumption
  <2>2. RecordInPart(n, v) /\ anchor' = anchor
    BY <1>3, Zenon DEF RecordProposal, RecordViewSyncVote, RecordInPart
  <2> QED
    BY <1>0, <2>1, <2>2, RecordEffect
<1>4. CASE PersistDecided(n)
  <2>1. Grows
    BY <1>2, <1>4, Zenon DEF PersistDecided
  <2>2. PICK l \in decided[n] : anchor' = [anchor EXCEPT ![n] = l]
    BY <1>4, Zenon DEF PersistDecided
  <2>3. l \in Leaf
    BY <1>0, <2>2, Zenon DEF TypeOK
  <2>4. anchor' \in [Honest -> Leaf]
    BY <1>0, <2>2, <2>3
  <2> QED
    BY <2>1, <2>4
<1>5. ASSUME NEW v \in DaViews, VoteUnsent(n, v)
      PROVE  Grows /\ anchor' = anchor
  <2>1. v \in Nat
    BY LeafAssumption
  <2>2. RecordInPart(n, v) /\ anchor' = anchor
    BY <1>5, Zenon DEF VoteUnsent
  <2> QED
    BY <1>0, <2>1, <2>2, RecordEffect
<1>6. CASE Restart(n)
  <2>1. UNCHANGED <<actedView, restartView, anchor>>
    BY <1>6 DEF Restart, storage
  <2> QED
    BY <1>0, <1>2, <2>1
<1> HIDE DEF Grows
<1> QED
  BY <1>0, <1>3, <1>4, <1>5, <1>6, Zenon DEF StorageStep

-----------------------------------------------------------------------------
\* Types.

\* Every variable keeps its type when a node restarts, records or loses a vote.
LEMMA RestartTypeStep == TypeOK /\ [RestartNext]_vars => TypeOK'
<1> SUFFICES ASSUME TypeOK, NEW n \in Restarting, StorageStep(n) PROVE TypeOK'
  BY TypeStep, Zenon DEF RestartNext
<1> USE LeafAssumption
<1>0. n \in Honest /\ anchor[n] \in Leaf /\ View[anchor[n]] \in Views /\ View[anchor[n]] \in Nat
  BY RestartingIsHonest, LeafFacts DEF TypeOK
<1>1. votes' \in [Honest -> SUBSET Leaf] /\ decided' \in [Honest -> SUBSET Leaf]
  BY StorageShape, Zenon DEF TypeOK
<1>2. CASE UNCHANGED volatile
  <2>1. /\ UNCHANGED <<curView, lockedView, highQc, lastDecided, saved, stateMap>>
        /\ UNCHANGED <<withDelta, lastVoted, validated, ballot, pendingView>>
    BY <1>2, Zenon DEF volatile
  <2> QED
    BY <1>1, <2>1, StoredStep, Zenon DEF TypeOK
<1>3. ASSUME NEW v \in DaViews, VoteUnsent(n, v)
      PROVE  TypeOK'
  <2>1. v \in Views /\ v \in Nat /\ ballot[n][v] \in Leaf
    BY <1>3 DEF VoteUnsent
  <2>2. ballot' \in [Honest -> [Views -> Leaf \cup {NoLeaf, Done}]]
    <3>1. [ballot[n] EXCEPT ![v] = Done] \in [Views -> Leaf \cup {NoLeaf, Done}]
      BY <1>0, <2>1 DEF TypeOK
    <3> QED
      BY <1>3, <3>1, Zenon DEF TypeOK, VoteUnsent
  <2>3. pendingView' \in [Honest -> Nat]
    BY <1>0, <1>3, <2>1 DEF TypeOK, VoteUnsent, BroadcastViewChange, Larger
  <2>4. lastVoted' \in [Honest -> Nat]
    BY <1>3, <2>1, Zenon DEF TypeOK, VoteUnsent
  <2> QED
    BY <1>0, <1>1, <1>3, <2>1, <2>2, <2>3, <2>4, StoredStep, UpdateLeafType, Zenon
       DEF TypeOK, VoteUnsent
<1>4. CASE Restart(n)
  <2>1. StartView(n) \in Nat /\ LastActioned(n) \in Nat
    BY <1>0, LargerFacts, Zenon DEF StartView, LastActioned, TypeOK
  <2>2. /\ curView' \in [Honest -> Nat] /\ lockedView' \in [Honest -> Nat]
        /\ lastDecided' \in [Honest -> Nat]
    BY <1>0, <1>4, Zenon DEF TypeOK, Restart
  <2>3. lastVoted' \in [Honest -> Nat] /\ pendingView' \in [Honest -> Nat]
    BY <1>4, <2>1, Zenon DEF TypeOK, Restart
  <2>4. highQc' \in [Honest -> Leaf]
    BY <1>0, <1>4, Zenon DEF TypeOK, Restart
  <2>5. saved' \in [Honest -> SUBSET Leaf] /\ withDelta' \in [Honest -> SUBSET Views]
    <3>1. {anchor[n]} \in SUBSET Leaf /\ {} \in SUBSET Views
      BY <1>0
    <3> QED
      BY <1>4, <3>1, Zenon DEF TypeOK, Restart
  <2>6. stateMap' \in [Honest -> [Views -> Leaf \cup {NoLeaf}]]
    <3>1. StartState(n) \in [Views -> Leaf \cup {NoLeaf}]
      BY <1>0 DEF StartState
    <3> QED
      BY <1>4, <3>1, Zenon DEF TypeOK, Restart
  <2>7. validated' \in [Honest -> Seq(Leaf)]
    <3>1. << >> \in Seq(Leaf)
      OBVIOUS
    <3> QED
      BY <1>4, <3>1, Zenon DEF TypeOK, Restart
  <2>8. ballot' \in [Honest -> [Views -> Leaf \cup {NoLeaf, Done}]]
    <3>1. [v \in Views |-> NoLeaf] \in [Views -> Leaf \cup {NoLeaf, Done}]
      OBVIOUS
    <3> QED
      BY <1>4, <3>1, Zenon DEF TypeOK, Restart
  <2> QED
    BY <1>1, <2>2, <2>3, <2>4, <2>5, <2>6, <2>7, <2>8, StoredStep, Zenon DEF TypeOK
<1> QED
  BY <1>2, <1>3, <1>4, StorageShape, Zenon

-----------------------------------------------------------------------------
\* The inductive invariant.

\* Votes are on record before anyone can see them.
RecordInv ==
  \A n \in Honest : \A l \in votes[n] : View[l] <= actedView[n] /\ View[l] < restartView[n]

RestartInv == FreeInv /\ RecordInv

\* What a storage step does to the running state of any node: its dependency
\* tasks and its queue lose entries, and what counts as voted in only moves up
\* or to the acted view.
LEMMA RunningEffect ==
  ASSUME TypeOK, NEW n \in Restarting, StorageStep(n), NEW m \in Honest
  PROVE  /\ \/ lastVoted'[m] >= lastVoted[m]
            \/ lastVoted'[m] = actedView[m]
         /\ \A w \in Views : ballot'[m][w] \in {ballot[m][w], NoLeaf, Done}
         /\ validated'[m] \in {validated[m], << >>}
<1>0. n \in Honest
  BY RestartingIsHonest
<1>1. /\ lastVoted \in [Honest -> Nat] /\ validated \in [Honest -> Seq(Leaf)]
      /\ ballot \in [Honest -> [Views -> Leaf \cup {NoLeaf, Done}]]
      /\ lastVoted[m] \in Nat
  BY DEF TypeOK
<1>2. CASE UNCHANGED volatile
  <2>1. UNCHANGED <<lastVoted, validated, ballot>>
    BY <1>2, Zenon DEF volatile
  <2> QED
    BY <1>1, <2>1
<1>3. ASSUME NEW v \in DaViews, VoteUnsent(n, v)
      PROVE  /\ lastVoted'[m] >= lastVoted[m]
             /\ \A w \in Views : ballot'[m][w] \in {ballot[m][w], NoLeaf, Done}
             /\ validated' = validated
  <2>0. v \in Views /\ v \in Nat /\ v > lastVoted[n]
    BY <1>3, LeafAssumption DEF VoteUnsent
  <2>1. lastVoted' = [lastVoted EXCEPT ![n] = v]
    BY <1>3, Zenon DEF VoteUnsent
  <2>2. lastVoted'[m] >= lastVoted[m]
    BY <1>0, <1>1, <2>0, <2>1
  <2>3. ballot' = [ballot EXCEPT ![n] = [@ EXCEPT ![v] = Done]] /\ validated' = validated
    BY <1>3, Zenon DEF VoteUnsent
  <2>4. \A w \in Views : ballot'[m][w] \in {ballot[m][w], NoLeaf, Done}
    BY <1>0, <1>1, <2>0, <2>3
  <2> QED
    BY <2>2, <2>3, <2>4
<1>4. CASE Restart(n)
  <2>1. /\ lastVoted' = [lastVoted EXCEPT ![n] = actedView[n]]
        /\ validated' = [validated EXCEPT ![n] = << >>]
        /\ ballot' = [ballot EXCEPT ![n] = [v \in Views |-> NoLeaf]]
    BY <1>4, Zenon DEF Restart, LastActioned
  <2>2. CASE m = n
    BY <1>1, <2>1, <2>2
  <2>3. CASE m # n
    <3>1. lastVoted'[m] = lastVoted[m] /\ validated'[m] = validated[m] /\ ballot'[m] = ballot[m]
      BY <1>1, <2>1, <2>3, Zenon
    <3> QED
      BY <1>1, <3>1
  <2> QED
    BY <2>2, <2>3
<1> QED
  BY <1>2, <1>3, <1>4, StorageShape, Zenon

\* A storage step keeps the invariant of the freely interleaved tasks.
LEMMA StorageFree ==
  ASSUME FreeInv, RecordInv, NEW n \in Restarting, StorageStep(n)
  PROVE  FreeInv'
<1>0. TypeOK /\ TypeOK' /\ votes' = votes
  <2>1. TypeOK
    BY Zenon DEF FreeInv
  <2> QED
    BY <2>1, RestartTypeStep, StorageShape, Zenon DEF RestartNext
<1>1. BallotInv'
  <2> SUFFICES ASSUME NEW m \in Honest, NEW w \in Views, ballot'[m][w] \in Leaf
               PROVE  View[ballot'[m][w]] = w
    BY Zenon DEF BallotInv
  <2>1. ballot'[m][w] = ballot[m][w]
    BY <1>0, RunningEffect, LeafAssumption, Zenon
  <2> QED
    BY <2>1, Zenon DEF FreeInv, BallotInv
<1>2. VoteInv'
  <2> SUFFICES ASSUME NEW m \in Honest
               PROVE  /\ \A l \in votes[m] : View[l] <= lastVoted'[m] /\ l # Genesis
                      /\ \A l, k \in votes[m] : View[l] = View[k] => l = k
    BY <1>0, Zenon DEF VoteInv
  <2>1. /\ \A l \in votes[m] : View[l] <= lastVoted[m] /\ l # Genesis
        /\ \A l, k \in votes[m] : View[l] = View[k] => l = k
    BY Zenon DEF FreeInv, VoteInv
  <2>2. \A l \in votes[m] : View[l] <= actedView[m]
    BY Zenon DEF RecordInv
  <2>3. lastVoted[m] \in Nat /\ lastVoted'[m] \in Nat /\ \A l \in votes[m] : View[l] \in Nat
    BY <1>0, LeafFacts, Zenon DEF TypeOK
  <2>4. lastVoted'[m] >= lastVoted[m] \/ lastVoted'[m] = actedView[m]
    BY <1>0, RunningEffect, Zenon
  <2>5. \A l \in votes[m] : View[l] <= lastVoted'[m]
    BY <2>1, <2>2, <2>3, <2>4
  <2> QED
    BY <2>1, <2>5, Zenon
<1>3. JustifiedInv'
  <2> SUFFICES ASSUME NEW m \in Honest, NEW l \in Leaf, Accepted(m, l)'
               PROVE  Certified(Parent[l])'
    BY Zenon DEF JustifiedInv
  <2>1. Accepted(m, l)
    <3>1. ASSUME NEW v \in Views, ballot'[m][v] = l
          PROVE  ballot[m][v] = l
      BY <1>0, <3>1, RunningEffect, LeafAssumption, Zenon
    <3>2. ASSUME Queued(m, l)' PROVE Queued(m, l)
      <4>1. PICK i \in 1..Len(validated'[m]) : validated'[m][i] = l
        BY <3>2, Zenon DEF Queued
      <4>2. validated'[m] # << >>
        BY <4>1
      <4>3. validated'[m] = validated[m]
        BY <1>0, <4>2, RunningEffect, Zenon
      <4> QED
        BY <4>1, <4>3, Zenon DEF Queued
    <3> QED
      BY <1>0, <3>1, <3>2, Zenon DEF Accepted
  <2>2. Certified(Parent[l])
    BY <2>1, Zenon DEF FreeInv, JustifiedInv
  <2> QED
    BY <1>0, <2>2, Zenon DEF Certified
<1> QED
  BY <1>0, <1>1, <1>2, <1>3, Zenon DEF FreeInv

\* A running node records a vote with the vote, and forgets no recorded view.
LEMMA SentOnRecord ==
  ASSUME TypeOK, [Next]_vars, NEW m \in Honest
  PROVE  /\ actedView'[m] >= actedView[m] /\ restartView'[m] >= restartView[m]
         /\ \A l \in votes'[m] :
              l \in votes[m] \/ (View[l] <= actedView'[m] /\ View[l] < restartView'[m])
<1>0. /\ actedView \in [Honest -> Nat] /\ restartView \in [Honest -> Nat]
      /\ votes \in [Honest -> SUBSET Leaf]
      /\ actedView[m] \in Nat /\ restartView[m] \in Nat
  BY DEF TypeOK
<1>1. ASSUME UNCHANGED <<votes, actedView, restartView>>
      PROVE  /\ actedView'[m] >= actedView[m] /\ restartView'[m] >= restartView[m]
             /\ votes'[m] = votes[m]
  BY <1>0, <1>1
<1>2. ASSUME NEW n \in Honest, NEW v \in DaViews, Vote(n, v), ~UNCHANGED <<votes, actedView, restartView>>
      PROVE  /\ actedView'[m] >= actedView[m] /\ restartView'[m] >= restartView[m]
             /\ \A l \in votes'[m] :
                  l \in votes[m] \/ (View[l] <= actedView'[m] /\ View[l] < restartView'[m])
  <2> DEFINE k == ballot[n][v]
             u == View[k]
  <2>1. k \in Leaf /\ u \in Nat
    BY <1>2, LeafFacts, Zenon DEF Vote
  <2>2. u + 1 \in Nat
    <3> HIDE DEF u
    <3> QED
      BY <2>1
  <2>3. /\ votes' = [votes EXCEPT ![n] = @ \cup {k}]
        /\ actedView' = [actedView EXCEPT ![n] = Larger(@, u)]
        /\ restartView' = [restartView EXCEPT ![n] = Larger(@, u + 1)]
    BY <1>2 DEF Vote, SendVote, RecordVote
  <2> HIDE DEF k, u
  <2>4. actedView' \in [Honest -> Nat] /\ actedView'[m] >= actedView[m] /\ actedView'[n] >= u
    BY <1>0, <2>1, <2>3, Raised, Zenon
  <2>5. restartView' \in [Honest -> Nat] /\ restartView'[m] >= restartView[m] /\ restartView'[n] >= u + 1
    BY <1>0, <2>2, <2>3, Raised, Zenon
  <2>6. ASSUME NEW l \in votes'[m], l \notin votes[m]
        PROVE  m = n /\ l = k
    <3>1. CASE m = n
      BY <1>0, <2>3, <2>6, <3>1
    <3>2. CASE m # n
      BY <1>0, <2>3, <2>6, <3>2, Zenon
    <3> QED
      BY <3>1, <3>2
  <2>7. u <= actedView'[n] /\ u < restartView'[n]
    <3>1. actedView'[n] \in Nat /\ restartView'[n] \in Nat
      BY <2>4, <2>5, Zenon
    <3> QED
      BY <2>1, <2>4, <2>5, <3>1
  <2>8. u = View[k]
    BY DEF u
  <2> QED
    BY <2>4, <2>5, <2>6, <2>7, <2>8, Zenon
<1>3. ASSUME NEW n \in Honest, NEW v \in DaViews, Vote(n, v)
      PROVE  /\ actedView'[m] >= actedView[m] /\ restartView'[m] >= restartView[m]
             /\ \A l \in votes'[m] :
                  l \in votes[m] \/ (View[l] <= actedView'[m] /\ View[l] < restartView'[m])
  BY <1>1, <1>2, <1>3, Zenon
<1>4. UNCHANGED storage => UNCHANGED actedView /\ UNCHANGED restartView
  BY DEF storage
<1>5. CASE UNCHANGED votes /\ UNCHANGED storage
  <2>1. UNCHANGED <<votes, actedView, restartView>>
    BY <1>4, <1>5
  <2> QED
    BY <1>1, <2>1, Zenon
<1> QED
  BY <1>3, <1>5, ZenonT(60) DEF Next, OtherTasks, RecvProposal, RecvWithParent, RecvWithoutParent,
     FetchProposal, HandleValidated, ViewChange, AdvanceView, vars

\* Votes stay on record.
LEMMA RecordStep == TypeOK /\ RecordInv /\ [RestartNext]_vars => RecordInv'
<1> SUFFICES ASSUME TypeOK, RecordInv, [RestartNext]_vars, NEW m \in Honest, NEW l \in votes'[m]
             PROVE  View[l] <= actedView'[m] /\ View[l] < restartView'[m]
  BY Zenon DEF RecordInv
<1>1. /\ actedView'[m] >= actedView[m] /\ restartView'[m] >= restartView[m]
      /\ l \in votes[m] \/ (View[l] <= actedView'[m] /\ View[l] < restartView'[m])
  <2>1. CASE [Next]_vars
    BY <2>1, SentOnRecord, Zenon
  <2>2. ASSUME NEW n \in Restarting, StorageStep(n)
        PROVE  /\ actedView'[m] >= actedView[m] /\ restartView'[m] >= restartView[m]
               /\ l \in votes[m]
    BY <2>2, StoredStep, StorageShape, Zenon
  <2> QED
    BY <2>1, <2>2, Zenon DEF RestartNext
<1>2. CASE l \in votes[m]
  <2>1. View[l] <= actedView[m] /\ View[l] < restartView[m]
    BY <1>2, Zenon DEF RecordInv
  <2>2. View[l] \in Nat /\ actedView[m] \in Nat /\ restartView[m] \in Nat
    BY <1>2, LeafFacts, Zenon DEF TypeOK
  <2>3. actedView'[m] \in Nat /\ restartView'[m] \in Nat
    BY RestartTypeStep, Zenon DEF TypeOK
  <2> QED
    BY <1>1, <2>1, <2>2, <2>3
<1> QED
  BY <1>1, <1>2, Zenon

\* The inductive invariant holds initially and after every step.
LEMMA RestartInvariant ==
  /\ Init => RestartInv
  /\ RestartInv /\ [RestartNext]_vars => RestartInv'
<1>1. Init => RecordInv
  BY Zenon DEF Init, RecordInv
<1>2. ASSUME RestartInv, [RestartNext]_vars PROVE FreeInv'
  <2>1. CASE [Next]_vars
    BY <1>2, <2>1, FreeStep, Zenon DEF RestartInv
  <2>2. ASSUME NEW n \in Restarting, StorageStep(n) PROVE FreeInv'
    BY <1>2, <2>2, StorageFree, Zenon DEF RestartInv
  <2> QED
    BY <1>2, <2>1, <2>2, Zenon DEF RestartNext
<1>3. ASSUME RestartInv, [RestartNext]_vars PROVE RecordInv'
  BY <1>3, RecordStep, Zenon DEF RestartInv, FreeInv
<1> QED
  BY <1>1, <1>2, <1>3, InitFree, Zenon DEF RestartInv

\* No view ever has certificates for two leaves, although any node may stop at
\* any moment and start again from the one view number record_action stored.
THEOREM RestartUnique == RestartSpec => []UniqueCertificates
<1>1. RestartInv => UniqueCertificates
  BY FreeUnique, Zenon DEF RestartInv
<1> QED
  BY <1>1, RestartInvariant, PTL DEF RestartSpec

\* Nodes that restart at any moment fork the chain only if some node has voted
\* below its lock, the lock of an earlier run included: a restart takes neither
\* votes nor Decide events back.
THEOREM RestartForks == RestartSpec => []ForksNeedLockBreach
<1> DEFINE Inv == RestartInv /\ BranchInv
<1>1. Init => Inv
  BY RestartInvariant, InitBranch, Zenon
<1>2. Inv /\ [RestartNext]_vars => Inv'
  <2> SUFFICES ASSUME RestartInv, BranchInv, [RestartNext]_vars PROVE RestartInv' /\ BranchInv'
    BY Zenon
  <2>1. RestartInv' /\ FreeInv'
    BY RestartInvariant, Zenon DEF RestartInv
  <2>2. CASE [Next]_vars
    BY <2>1, <2>2, BranchStep, Zenon
  <2>3. ASSUME NEW n \in Restarting, StorageStep(n) PROVE ForkInv' /\ DecideInv'
    <3>1. votes' = votes /\ decided' = decided
      BY <2>3, StorageShape, Zenon DEF RestartInv, FreeInv
    <3>2. ForkInv'
      BY <3>1, Zenon DEF BranchInv, ForkInv, VotesRespectLock, Certified, Blocked
    <3>3. DecideInv'
      BY <3>1, Zenon DEF BranchInv, DecideInv, Certified
    <3> QED
      BY <3>2, <3>3
  <2> QED
    BY <2>1, <2>2, <2>3, Zenon DEF RestartNext, BranchInv
<1>3. Inv => ForksNeedLockBreach
  BY BranchAgreement, Zenon
<1> QED
  BY <1>1, <1>2, <1>3, PTL DEF RestartSpec

\* A node that restarts starts in a view after all views it has voted in.
THEOREM StartsAfterVotes == RestartSpec => []StartsBehindVotes
<1>1. RestartInv => StartsBehindVotes
  <2> SUFFICES ASSUME RestartInv, NEW n \in Honest
               PROVE  /\ \A l \in votes[n] : View[l] < StartView(n)
                      /\ View[anchor[n]] <= StartView(n)
    BY Zenon DEF StartsBehindVotes
  <2>1. restartView[n] \in Nat /\ anchor[n] \in Leaf /\ votes[n] \subseteq Leaf
    BY Zenon DEF RestartInv, FreeInv, TypeOK
  <2>2. View[anchor[n]] \in Nat /\ \A l \in votes[n] : View[l] \in Nat
    BY <2>1, LeafFacts
  <2>3. \A l \in votes[n] : View[l] < restartView[n]
    BY Zenon DEF RestartInv, RecordInv
  <2>4. /\ StartView(n) \in Nat /\ StartView(n) >= restartView[n]
        /\ StartView(n) >= View[anchor[n]]
    BY <2>1, <2>2, LargerFacts, Zenon DEF StartView
  <2> QED
    BY <2>1, <2>2, <2>3, <2>4
<1> QED
  BY <1>1, RestartInvariant, PTL DEF RestartSpec

-----------------------------------------------------------------------------
\* The lock, the high QC and the anchor leaf of a restarted node.

\* A storage step leaves lock and high QC alone, or sets both to the anchor
\* leaf and empties the queue.
LEMMA StorageLocks ==
  ASSUME TypeOK, NEW n \in Restarting, StorageStep(n), NEW m \in Honest
  PROVE  \/ /\ lockedView'[m] = lockedView[m] /\ highQc'[m] = highQc[m]
            /\ validated'[m] = validated[m]
         \/ lockedView'[m] = View[highQc'[m]] /\ validated'[m] = << >>
<1>0. n \in Honest
  BY RestartingIsHonest
<1>1. /\ lockedView \in [Honest -> Nat] /\ validated \in [Honest -> Seq(Leaf)]
      /\ highQc \in [Honest -> Leaf]
  BY Zenon DEF TypeOK
<1>2. UNCHANGED volatile => UNCHANGED <<lockedView, highQc, validated>>
  BY Zenon DEF volatile
<1>3. \A v \in DaViews : VoteUnsent(n, v) => UNCHANGED <<lockedView, highQc, validated>>
  BY Zenon DEF VoteUnsent
<1>4. CASE UNCHANGED <<lockedView, highQc, validated>>
  BY <1>4
<1>5. CASE Restart(n)
  <2>1. /\ lockedView' = [lockedView EXCEPT ![n] = View[anchor[n]]]
        /\ highQc' = [highQc EXCEPT ![n] = anchor[n]]
        /\ validated' = [validated EXCEPT ![n] = << >>]
    BY <1>5, Zenon DEF Restart
  <2>2. CASE m = n
    BY <1>0, <1>1, <2>1, <2>2, Zenon
  <2>3. CASE m # n
    BY <1>0, <1>1, <2>1, <2>3, Zenon
  <2> QED
    BY <2>2, <2>3
<1> QED
  BY <1>2, <1>3, <1>4, <1>5, StorageShape, Zenon

\* A node that restarts below the lock it had also forgets the QC it locked on:
\* the high QC is never older than the lock.
THEOREM RestartHighQc == RestartSpec => []HighQcCoversLock
<1>1. Init => TypeOK /\ HighInv
  <2> SUFFICES ASSUME Init PROVE TypeOK /\ HighInv
    BY Zenon
  <2>1. TypeOK
    BY InitFree, Zenon DEF FreeInv
  <2>2. \A n \in Honest : lockedView[n] = 0 /\ highQc[n] = Genesis /\ validated[n] = << >>
    BY DEF Init
  <2>3. \A n \in Honest : \A k \in Leaf : ~Queued(n, k)
    BY <2>2 DEF Queued
  <2> QED
    BY <2>1, <2>2, <2>3, LeafAssumption DEF HighInv
<1>2. ASSUME TypeOK, HighInv, [RestartNext]_vars PROVE HighInv'
  <2>1. CASE [Next]_vars
    BY <1>2, <2>1, HighStep, Zenon
  <2>2. ASSUME NEW n \in Restarting, StorageStep(n) PROVE HighInv'
    <3> SUFFICES ASSUME NEW m \in Honest
                 PROVE  /\ lockedView'[m] <= View[highQc'[m]]
                        /\ \A k \in Leaf : Queued(m, k)' => View[Parent[k]] <= View[highQc'[m]]
      BY Zenon DEF HighInv
    <3>1. CASE /\ lockedView'[m] = lockedView[m] /\ highQc'[m] = highQc[m]
               /\ validated'[m] = validated[m]
      BY <1>2, <3>1, Zenon DEF HighInv, Queued
    <3>2. CASE lockedView'[m] = View[highQc'[m]] /\ validated'[m] = << >>
      <4>1. lockedView'[m] \in Nat
        BY <1>2, RestartTypeStep, Zenon DEF TypeOK
      <4>2. \A k \in Leaf : ~Queued(m, k)'
        BY <3>2 DEF Queued
      <4> QED
        BY <3>2, <4>1, <4>2
    <3> QED
      BY <1>2, <2>2, <3>1, <3>2, StorageLocks, Zenon
  <2> QED
    BY <1>2, <2>1, <2>2, Zenon DEF RestartNext
<1>3. HighInv => HighQcCoversLock
  BY Zenon DEF HighInv, HighQcCoversLock
<1> QED
  BY <1>1, <1>2, <1>3, RestartTypeStep, PTL DEF RestartSpec

\* Decisions only add leaves and only move the last decided view up, and a
\* running node does not touch its anchor leaf.
LEMMA DecisionsGrow ==
  ASSUME TypeOK, [Next]_vars, NEW m \in Honest
  PROVE  /\ decided[m] \subseteq decided'[m]
         /\ lastDecided'[m] >= lastDecided[m]
         /\ anchor'[m] = anchor[m]
<1>0. lastDecided \in [Honest -> Nat] /\ decided \in [Honest -> SUBSET Leaf] /\ lastDecided[m] \in Nat
  BY DEF TypeOK
<1>1. anchor' = anchor
  <2>1. UNCHANGED storage => UNCHANGED anchor
    BY DEF storage
  <2>2. \A n \in Honest, v \in DaViews : Vote(n, v) => UNCHANGED anchor
    BY Zenon DEF Vote, SendVote
  <2> QED
    BY <2>1, <2>2, ZenonT(60) DEF Next, OtherTasks, RecvProposal, RecvWithParent, RecvWithoutParent,
       FetchProposal, HandleValidated, ViewChange, AdvanceView, vars
<1>2. CASE UNCHANGED <<decided, lastDecided>>
  BY <1>0, <1>1, <1>2
<1>3. ASSUME NEW n \in Honest, HandleValidated(n)
      PROVE  decided[m] \subseteq decided'[m] /\ lastDecided'[m] >= lastDecided[m]
  <2>1. PICK g : \/ UNCHANGED <<decided, lastDecided>>
                 \/ /\ View[g] > lastDecided[n]
                    /\ lastDecided' = [lastDecided EXCEPT ![n] = View[g]]
                    /\ decided' = [decided EXCEPT ![n] = @ \cup LeafChain(n, g)]
    BY <1>3, Zenon DEF HandleValidated
  <2>2. CASE UNCHANGED <<decided, lastDecided>>
    BY <1>0, <2>2
  <2>3. CASE /\ View[g] > lastDecided[n]
             /\ lastDecided' = [lastDecided EXCEPT ![n] = View[g]]
             /\ decided' = [decided EXCEPT ![n] = @ \cup LeafChain(n, g)]
    <3>1. lastDecided' \in [Honest -> Nat]
      BY <1>3, TypeStep, Zenon DEF TypeOK, Next, OtherTasks
    <3>2. CASE m = n
      <4>1. lastDecided'[m] = View[g] /\ decided'[m] = decided[m] \cup LeafChain(n, g)
        BY <1>0, <2>3, <3>2, Zenon
      <4>2. View[g] \in Nat
        BY <3>1, <4>1, Zenon
      <4> QED
        BY <1>0, <2>3, <3>2, <4>1, <4>2
    <3>3. CASE m # n
      <4>1. lastDecided'[m] = lastDecided[m] /\ decided'[m] = decided[m]
        BY <1>0, <2>3, <3>3, Zenon
      <4> QED
        BY <1>0, <4>1
    <3> QED
      BY <3>2, <3>3
  <2> QED
    BY <2>1, <2>2, <2>3, Zenon
<1> QED
  BY <1>1, <1>2, <1>3, ZenonT(60) DEF Next, OtherTasks, RecvProposal, RecvWithParent, RecvWithoutParent,
     FetchProposal, Vote, ViewChange, AdvanceView, vars

\* Whenever a node stops, its storage holds a leaf that it had decided, and
\* not one of a later view than its last decision.
THEOREM RestartsFromDecided == RestartSpec => []AnchorWasDecided
<1>1. Init => TypeOK /\ AnchorWasDecided
  <2> SUFFICES ASSUME Init PROVE TypeOK /\ AnchorWasDecided
    BY Zenon
  <2>1. TypeOK
    BY InitFree, Zenon DEF FreeInv
  <2> QED
    BY <2>1, LeafAssumption DEF Init, AnchorWasDecided
<1>2. ASSUME TypeOK, AnchorWasDecided, [RestartNext]_vars PROVE AnchorWasDecided'
  <2> SUFFICES ASSUME NEW m \in Honest
               PROVE  /\ anchor'[m] \in decided'[m] \cup {Genesis}
                      /\ View[anchor'[m]] <= lastDecided'[m]
    BY Zenon DEF AnchorWasDecided
  <2>0. /\ anchor[m] \in decided[m] \cup {Genesis} /\ View[anchor[m]] <= lastDecided[m]
        /\ anchor[m] \in Leaf /\ View[anchor[m]] \in Nat /\ lastDecided[m] \in Nat
        /\ lastDecided'[m] \in Nat
    BY <1>2, LeafFacts, RestartTypeStep, Zenon DEF AnchorWasDecided, TypeOK
  <2>1. CASE [Next]_vars
    BY <1>2, <2>0, <2>1, DecisionsGrow
  <2>2. ASSUME NEW n \in Restarting, StorageStep(n)
        PROVE  /\ anchor'[m] \in decided'[m] \cup {Genesis}
               /\ View[anchor'[m]] <= lastDecided'[m]
    <3>0. n \in Honest /\ decided' = decided
      BY <1>2, <2>2, StorageShape, RestartingIsHonest, Zenon
    <3>1. CASE anchor'[m] = anchor[m] /\ lastDecided'[m] \in {lastDecided[m], View[anchor[m]]}
      BY <2>0, <3>0, <3>1
    <3>2. CASE PersistDecided(n)
      <4>1. PICK l \in decided[n] : View[l] = lastDecided[n] /\ anchor' = [anchor EXCEPT ![n] = l]
        BY <3>2, Zenon DEF PersistDecided
      <4>2. lastDecided' = lastDecided
        BY <3>2, Zenon DEF PersistDecided, volatile
      <4>3. CASE m = n
        <5>1. anchor'[m] = l /\ l \in decided[m] /\ View[l] = lastDecided[m]
          BY <1>2, <4>1, <4>3, Zenon DEF TypeOK
        <5> QED
          BY <2>0, <3>0, <4>2, <5>1
      <4>4. CASE m # n
        <5>1. anchor'[m] = anchor[m]
          BY <1>2, <4>1, <4>4, Zenon DEF TypeOK
        <5> QED
          BY <3>1, <4>2, <5>1, Zenon
      <4> QED
        BY <4>3, <4>4
    <3>3. CASE Restart(n)
      <4>1. lastDecided' = [lastDecided EXCEPT ![n] = View[anchor[n]]] /\ anchor' = anchor
        BY <3>3 DEF Restart, storage
      <4>2. lastDecided'[m] \in {lastDecided[m], View[anchor[m]]}
        BY <1>2, <3>0, <4>1, Zenon DEF TypeOK
      <4> QED
        BY <3>1, <4>1, <4>2, Zenon
    <3>4. ASSUME NEW v, RecordProposal(n, v) \/ RecordViewSyncVote(n, v) \/ VoteUnsent(n, v)
          PROVE  UNCHANGED <<anchor, lastDecided>>
      BY <3>4, Zenon DEF RecordProposal, RecordViewSyncVote, VoteUnsent, volatile
    <3>5. CASE UNCHANGED <<anchor, lastDecided>>
      BY <3>1, <3>5, Zenon
    <3> QED
      BY <2>2, <3>2, <3>3, <3>4, <3>5, Zenon DEF StorageStep
  <2> QED
    BY <1>2, <2>1, <2>2, Zenon DEF RestartNext
<1> QED
  BY <1>1, <1>2, RestartTypeStep, PTL DEF RestartSpec

-----------------------------------------------------------------------------
\* The leaf of the last decided view stays known.

\* The state map has saved leaves only, and one for the last decided view.
KnownInv ==
  \A n \in Honest :
    /\ lastDecided[n] \in Views /\ HasState(n, lastDecided[n])
    /\ \A v \in Views : HasState(n, v) => stateMap[n][v] \in saved[n]

LeafInv == FreeInv /\ RecordInv /\ MapInv /\ KnownInv

\* Storing a leaf keeps the invariant.
LEMMA UpdateKnown ==
  ASSUME TypeOK, KnownInv, NEW n \in Honest, NEW l \in Leaf,
         UpdateLeaf(n, l) \/ UpdateLeafWithDelta(n, l), lastDecided' = lastDecided
  PROVE  KnownInv'
<1>0. /\ stateMap \in [Honest -> [Views -> Leaf \cup {NoLeaf}]] /\ saved \in [Honest -> SUBSET Leaf]
      /\ View[l] \in Views /\ l # NoLeaf
  BY LeafAssumption, Zenon DEF TypeOK
<1>1. CASE UNCHANGED <<stateMap, saved>>
  BY <1>1, Zenon DEF KnownInv, HasState
<1>2. CASE InsertLeaf(n, l)
  <2> SUFFICES ASSUME NEW m \in Honest
               PROVE  /\ lastDecided[m] \in Views /\ stateMap'[m][lastDecided[m]] # NoLeaf
                      /\ \A v \in Views : stateMap'[m][v] # NoLeaf => stateMap'[m][v] \in saved'[m]
    BY Zenon DEF KnownInv, HasState
  <2>1. /\ lastDecided[m] \in Views /\ stateMap[m][lastDecided[m]] # NoLeaf
        /\ \A v \in Views : stateMap[m][v] # NoLeaf => stateMap[m][v] \in saved[m]
    BY Zenon DEF KnownInv, HasState
  <2>2. \A v \in Views : \/ stateMap'[m][v] = stateMap[m][v]
                         \/ m = n /\ stateMap'[m][v] = l
    <3>1. stateMap' = [stateMap EXCEPT ![n] = [@ EXCEPT ![View[l]] = l]]
      BY <1>2, Zenon DEF InsertLeaf
    <3> QED
      BY <1>0, <3>1
  <2>3. saved[m] \subseteq saved'[m] /\ (m = n => l \in saved'[m])
    <3>1. saved' = [saved EXCEPT ![n] = @ \cup {l}]
      BY <1>2, Zenon DEF InsertLeaf
    <3> QED
      BY <1>0, <3>1
  <2> QED
    BY <1>0, <2>1, <2>2, <2>3, Zenon
<1> QED
  BY <1>1, <1>2, Zenon DEF UpdateLeaf, UpdateLeafWithDelta

\* Garbage collection drops the entries below the view before the new decided
\* one and only leaves that are not in an entry that stays.
LEMMA GarbageKnown ==
  ASSUME TypeOK, MapInv, KnownInv, NEW n \in Honest, NEW new \in Views, HasState(n, new),
         CollectGarbage(n, new), lastDecided' = [lastDecided EXCEPT ![n] = new]
  PROVE  KnownInv'
<1>0. /\ stateMap \in [Honest -> [Views -> Leaf \cup {NoLeaf}]] /\ saved \in [Honest -> SUBSET Leaf]
      /\ lastDecided \in [Honest -> Nat] /\ new \in Nat
  BY LeafAssumption, Zenon DEF TypeOK
<1> DEFINE gc == IF new = 0 THEN 0 ELSE new - 1
<1>1. gc \in Nat /\ ~(new < gc)
  BY <1>0
<1>2. /\ saved' = [saved EXCEPT ![n] =
                     @ \ {stateMap[n][v] : v \in {w \in Views : lastDecided[n] <= w /\ w < gc}}]
      /\ stateMap' = [stateMap EXCEPT ![n] = [v \in Views |-> IF v < gc THEN NoLeaf ELSE @[v]]]
  BY Zenon DEF CollectGarbage
<1> HIDE DEF gc
<1> SUFFICES ASSUME NEW m \in Honest
             PROVE  /\ lastDecided'[m] \in Views /\ stateMap'[m][lastDecided'[m]] # NoLeaf
                    /\ \A v \in Views : stateMap'[m][v] # NoLeaf => stateMap'[m][v] \in saved'[m]
  BY Zenon DEF KnownInv, HasState
<1>3. CASE m # n
  <2>1. stateMap'[m] = stateMap[m] /\ saved'[m] = saved[m] /\ lastDecided'[m] = lastDecided[m]
    BY <1>0, <1>2, <1>3, Zenon
  <2> QED
    BY <2>1, Zenon DEF KnownInv, HasState
<1>4. CASE m = n
  <2>1. /\ lastDecided'[n] = new
        /\ stateMap'[n] = [v \in Views |-> IF v < gc THEN NoLeaf ELSE stateMap[n][v]]
        /\ saved'[n] = saved[n] \ {stateMap[n][v] : v \in {w \in Views : lastDecided[n] <= w /\ w < gc}}
    BY <1>0, <1>2, Zenon
  <2>2. stateMap'[n][new] = stateMap[n][new]
    BY <1>1, <2>1, Zenon
  <2>3. ASSUME NEW v \in Views, stateMap'[n][v] # NoLeaf
        PROVE  stateMap'[n][v] \in saved'[n]
    <3>1. ~(v < gc) /\ stateMap'[n][v] = stateMap[n][v]
      BY <2>1, <2>3, Zenon
    <3>2. stateMap[n][v] \in saved[n] /\ View[stateMap[n][v]] = v
      BY <2>3, <3>1, Zenon DEF KnownInv, MapInv, HasState
    <3>3. \A w \in Views : w < gc => stateMap[n][w] # stateMap[n][v]
      <4> SUFFICES ASSUME NEW w \in Views, w < gc, stateMap[n][w] = stateMap[n][v] PROVE FALSE
        BY Zenon
      <4>1. View[stateMap[n][w]] = w
        BY <2>3, <3>1, Zenon DEF MapInv, HasState
      <4> QED
        BY <3>1, <3>2, <4>1
    <3> QED
      BY <2>1, <3>1, <3>2, <3>3, Zenon
  <2> QED
    BY <1>4, <2>1, <2>2, <2>3, Zenon DEF HasState
<1> QED
  BY <1>3, <1>4

\* Every step of a running node keeps it.
LEMMA KnownStep == TypeOK /\ MapInv /\ KnownInv /\ [Next]_vars => KnownInv'
<1> SUFFICES ASSUME TypeOK, MapInv, KnownInv, [Next]_vars PROVE KnownInv'
  BY Zenon
<1>1. CASE UNCHANGED <<stateMap, saved, lastDecided>>
  BY <1>1, Zenon DEF KnownInv, HasState
<1>2. ASSUME NEW n \in Honest, NEW l \in Leaf, UpdateLeaf(n, l), UNCHANGED lastDecided
      PROVE  KnownInv'
  BY <1>2, UpdateKnown, Zenon
<1>3. ASSUME NEW n \in Honest, NEW v \in DaViews, Vote(n, v)
      PROVE  KnownInv'
  <2>1. ballot[n][v] \in Leaf /\ UpdateLeafWithDelta(n, ballot[n][v]) /\ lastDecided' = lastDecided
    BY <1>3, Zenon DEF Vote
  <2> QED
    BY <2>1, UpdateKnown, Zenon
<1>4. ASSUME NEW n \in Honest, HandleValidated(n)
      PROVE  KnownInv'
  <2> DEFINE p == Parent[Head(validated[n])]
             g == Parent[p]
  <2>1. validated[n] \in Seq(Leaf) /\ validated[n] # << >>
    BY <1>4, Zenon DEF HandleValidated, TypeOK
  <2>2. Head(validated[n]) \in Leaf
    BY <2>1
  <2>3. g \in Leaf /\ View[g] \in Views
    BY <2>2, LeafFacts, Zenon
  <2>4. CASE UNCHANGED <<saved, stateMap, lastDecided>>
    BY <1>1, <2>4
  <2>5. CASE /\ HasState(n, View[g]) /\ CollectGarbage(n, View[g])
             /\ lastDecided' = [lastDecided EXCEPT ![n] = View[g]]
    BY <2>3, <2>5, GarbageKnown, Zenon
  <2> QED
    BY <1>4, <2>4, <2>5, Zenon DEF HandleValidated, Decides, HasInfo
<1> QED
  BY <1>1, <1>2, <1>3, <1>4, ZenonT(60) DEF Next, OtherTasks, RecvProposal, RecvWithParent,
     RecvWithoutParent, FetchProposal, ViewChange, AdvanceView, vars

\* A restarted node knows its anchor leaf and nothing else.
LEMMA StorageKnown ==
  ASSUME TypeOK, BallotInv, MapInv, KnownInv, NEW n \in Restarting, StorageStep(n)
  PROVE  MapInv' /\ KnownInv'
<1>0. /\ n \in Honest /\ stateMap \in [Honest -> [Views -> Leaf \cup {NoLeaf}]]
      /\ saved \in [Honest -> SUBSET Leaf] /\ lastDecided \in [Honest -> Nat]
      /\ anchor[n] \in Leaf /\ View[anchor[n]] \in Views
  BY RestartingIsHonest, LeafFacts, Zenon DEF TypeOK
<1>1. CASE UNCHANGED volatile
  <2>1. UNCHANGED <<stateMap, saved, lastDecided>>
    BY <1>1, Zenon DEF volatile
  <2> QED
    BY <2>1, Zenon DEF MapInv, KnownInv, HasState
<1>2. ASSUME NEW v \in DaViews, VoteUnsent(n, v)
      PROVE  MapInv' /\ KnownInv'
  <2>1. /\ ballot[n][v] \in Leaf /\ UpdateLeafWithDelta(n, ballot[n][v])
        /\ lastDecided' = lastDecided
    BY <1>2, Zenon DEF VoteUnsent
  <2>2. ASSUME NEW m \in Honest, NEW w \in Views, stateMap'[m][w] # NoLeaf
        PROVE  View[stateMap'[m][w]] = w
    <3>1. stateMap' = [stateMap EXCEPT ![n] = [@ EXCEPT ![View[ballot[n][v]]] = ballot[n][v]]]
      BY <2>1, Zenon DEF UpdateLeafWithDelta, InsertLeaf
    <3>2. View[ballot[n][v]] \in Views
      BY <2>1, LeafFacts, Zenon
    <3>3. \/ stateMap'[m][w] = stateMap[m][w]
          \/ w = View[ballot[n][v]] /\ stateMap'[m][w] = ballot[n][v]
      BY <1>0, <3>1, <3>2
    <3> QED
      BY <2>2, <3>3, Zenon DEF MapInv, HasState
  <2>3. KnownInv'
    BY <1>0, <2>1, UpdateKnown, Zenon
  <2> QED
    BY <2>2, <2>3, Zenon DEF MapInv, HasState
<1>3. CASE Restart(n)
  <2>1. /\ stateMap' = [stateMap EXCEPT ![n] = StartState(n)]
        /\ saved' = [saved EXCEPT ![n] = {anchor[n]}]
        /\ lastDecided' = [lastDecided EXCEPT ![n] = View[anchor[n]]]
    BY <1>3, Zenon DEF Restart
  <2> SUFFICES ASSUME NEW m \in Honest
               PROVE  /\ \A v \in Views : stateMap'[m][v] # NoLeaf =>
                           View[stateMap'[m][v]] = v /\ stateMap'[m][v] \in saved'[m]
                      /\ lastDecided'[m] \in Views /\ stateMap'[m][lastDecided'[m]] # NoLeaf
    BY Zenon DEF MapInv, KnownInv, HasState
  <2>2. CASE m = n
    <3>1. /\ stateMap'[m] = StartState(n) /\ saved'[m] = {anchor[n]}
          /\ lastDecided'[m] = View[anchor[n]]
      BY <1>0, <2>1, <2>2, Zenon
    <3>2. \A v \in Views : StartState(n)[v] = IF v = View[anchor[n]] THEN anchor[n] ELSE NoLeaf
      BY Zenon DEF StartState
    <3>3. anchor[n] # NoLeaf
      BY <1>0, LeafAssumption, Zenon
    <3> QED
      BY <1>0, <3>1, <3>2, <3>3
  <2>3. CASE m # n
    <3>1. stateMap'[m] = stateMap[m] /\ saved'[m] = saved[m] /\ lastDecided'[m] = lastDecided[m]
      BY <1>0, <2>1, <2>3, Zenon
    <3> QED
      BY <3>1, Zenon DEF MapInv, KnownInv, HasState
  <2> QED
    BY <2>2, <2>3
<1> QED
  BY <1>1, <1>2, <1>3, StorageShape, Zenon

\* Consensus::decided_leaf always finds its leaf: neither garbage collection
\* nor a restart takes it away.
THEOREM DecidedLeafStays == RestartSpec => []DecidedLeafKnown
<1>1. Init => LeafInv
  <2> SUFFICES ASSUME Init PROVE MapInv /\ KnownInv
    BY RestartInvariant, Zenon DEF LeafInv, RestartInv
  <2>1. \A n \in Honest : /\ lastDecided[n] = 0 /\ saved[n] = {Genesis}
                          /\ stateMap[n] = [v \in Views |-> IF v = 0 THEN Genesis ELSE NoLeaf]
    BY Zenon DEF Init
  <2>2. 0 \in Views /\ View[Genesis] = 0 /\ Genesis # NoLeaf
    BY LeafAssumption
  <2> QED
    BY <2>1, <2>2, Zenon DEF MapInv, KnownInv, HasState
<1>2. ASSUME LeafInv, [RestartNext]_vars PROVE LeafInv'
  <2>0. RestartInv /\ TypeOK /\ BallotInv /\ MapInv /\ KnownInv
    BY <1>2, Zenon DEF LeafInv, RestartInv, FreeInv
  <2>1. RestartInv'
    BY <1>2, <2>0, RestartInvariant, Zenon
  <2>2. CASE [Next]_vars
    BY <2>0, <2>1, <2>2, MapStep, KnownStep, Zenon DEF LeafInv, RestartInv
  <2>3. ASSUME NEW n \in Restarting, StorageStep(n) PROVE LeafInv'
    BY <2>0, <2>1, <2>3, StorageKnown, Zenon DEF LeafInv, RestartInv
  <2> QED
    BY <1>2, <2>2, <2>3, Zenon DEF RestartNext
<1>3. LeafInv => DecidedLeafKnown
  BY Zenon DEF LeafInv, KnownInv, DecidedLeafKnown
<1> QED
  BY <1>1, <1>2, <1>3, PTL DEF RestartSpec
=============================================================================
