------------------------------- MODULE HotShot -------------------------------
(***************************************************************************)
(* The voting core of HotShot (the HotStuff-2 protocol of the epoch         *)
(* versions): how the tasks of a replica receive a quorum proposal, check   *)
(* it against the lock, move the lock, decide, and vote.                    *)
(*                                                                          *)
(* A quorum proposal is represented by its leaf.  Leaf is the set of all    *)
(* leaves that some leader may propose, View[l] is the view of leaf l and   *)
(* Parent[l] the leaf its justify QC certifies: a leaf commits to its       *)
(* justify QC, so two proposals that differ in either are different leaves. *)
(* Leaders are not restricted, hence any leaf may reach any node, and two   *)
(* leaves of one view (an equivocating leader) are allowed.                 *)
(*                                                                          *)
(* The tasks of one node share the Consensus structure and talk through     *)
(* the internal event stream.  Two of them matter here:                     *)
(*   - the quorum proposal receive task runs RecvProposal and emits         *)
(*     QuorumProposalValidated and ViewChange events;                       *)
(*   - the quorum vote task takes the validated proposals off its queue     *)
(*     (HandleValidated) and its dependency tasks cast the votes (Vote).    *)
(* Blocks are those before the last three of an epoch, whose certificates   *)
(* follow rules of their own.                                               *)
(***************************************************************************)
EXTENDS Naturals, Sequences

CONSTANTS
  Node,      \* the members of the quorum committee
  Faulty,    \* the members that may vote for anything
  Quorum,    \* the sets of members whose votes make a certificate
  Leaf,      \* the leaves of all possible proposals
  Genesis,   \* the leaf every node starts from
  View,      \* View[l]: view number of leaf l
  Parent,    \* Parent[l]: leaf certified by the justify QC of l
  Anc,       \* Anc[l]: l and its ancestors
  Views,     \* the view numbers considered
  JumpViews, \* the views a node may enter without a proposal or vote of its own
  DaViews,   \* the views whose DA certificate and VID shares reach the nodes
  Redelivery,\* whether a proposal may be delivered to a node more than once
  QueueSize, \* bound on the events waiting for the vote task
  NoLeaf,    \* an absent entry of a map
  Done       \* a vote dependency task that is over

Honest == Node \ Faulty

\* Any two quorums share a member that is not faulty: what the success
\* threshold, more than two thirds of the stake, gives when the faulty
\* members hold less than a third of it.
ASSUME QuorumAssumption ==
  /\ Quorum \subseteq SUBSET Node
  /\ \A Q1, Q2 \in Quorum : \E n \in Q1 \cap Q2 : n \notin Faulty

\* Leaves form a tree rooted in the genesis leaf, along which views grow.
ASSUME LeafAssumption ==
  /\ Genesis \in Leaf
  /\ Views \subseteq Nat /\ JumpViews \subseteq Views /\ DaViews \subseteq Views
  /\ Redelivery \in BOOLEAN /\ QueueSize \in Nat
  /\ View \in [Leaf -> Views]
  /\ Parent \in [Leaf -> Leaf]
  /\ View[Genesis] = 0
  /\ Parent[Genesis] = Genesis
  /\ \A l \in Leaf \ {Genesis} : View[Parent[l]] < View[l]
  /\ NoLeaf \notin Leaf /\ Done \notin Leaf /\ NoLeaf # Done

\* Anc is the reflexive ancestor relation of that tree.
ASSUME AncAssumption ==
  /\ Anc \in [Leaf -> SUBSET Leaf]
  /\ Anc[Genesis] = {Genesis}
  /\ \A l \in Leaf \ {Genesis} : Anc[l] = {l} \cup Anc[Parent[l]]
  /\ \A l \in Leaf : \A a \in Anc[l] : Anc[a] \subseteq Anc[l] /\ View[a] <= View[l]
  /\ \A l \in Leaf : Genesis \in Anc[l]
  /\ \A l \in Leaf : \A a, b \in Anc[l] : a \in Anc[b] \/ b \in Anc[a]

VARIABLES
  curView,      \* Consensus::cur_view
  lockedView,   \* Consensus::locked_view
  highQc,       \* leaf certified by Consensus::high_qc
  lastDecided,  \* Consensus::last_decided_view
  saved,        \* Consensus::saved_leaves
  stateMap,     \* Consensus::validated_state_map: leaf of each view, or NoLeaf
  withDelta,    \* the views whose state map entry has a state delta
  lastVoted,    \* Consensus::last_actions.voted
  validated,    \* QuorumProposalValidated events the vote task has not handled
  ballot,       \* proposal of the vote dependency task of each view
  pendingView,  \* highest view of a ViewChange event broadcast so far
  votes,        \* the leaves each node has sent a vote for
  decided,      \* the leaves each node has announced in Decide events
  actedView,    \* storage: the highest view with a recorded vote or proposal
  restartView,  \* storage: the view to start from
  anchor        \* storage: the newest decided leaf

storage == <<actedView, restartView, anchor>>

vars == <<curView, lockedView, highQc, lastDecided, saved, stateMap, withDelta,
          lastVoted, validated, ballot, pendingView, votes, decided, storage>>

-----------------------------------------------------------------------------

Larger(x, y) == IF x > y THEN x ELSE y

\* Mutant: any single honest vote is enough for a certificate.
CertifiedByOne(l) ==
  \/ l = Genesis
  \/ \E Q \in Quorum : \E n \in Q \ Faulty : l \in votes[n]

\* A quorum certificate for l exists: some quorum, its faulty members
\* included, has voted for l.
Certified(l) ==
  \/ l = Genesis
  \/ \E Q \in Quorum : \A n \in Q \ Faulty : l \in votes[n]

\* Consensus::state_and_delta finds a state for view v.
HasState(n, v) == stateMap[n][v] # NoLeaf

\* The entry of view View[l] becomes l, and l is saved.
InsertLeaf(n, l) ==
  /\ stateMap' = [stateMap EXCEPT ![n] = [@ EXCEPT ![View[l]] = l]]
  /\ saved' = [saved EXCEPT ![n] = @ \cup {l}]

\* Consensus::update_leaf without a state delta: an entry that has one stays,
\* and a leaf whose entry is refused is not saved either.
UpdateLeaf(n, l) ==
  /\ IF View[l] \in withDelta[n] THEN UNCHANGED <<stateMap, saved>> ELSE InsertLeaf(n, l)
  /\ UNCHANGED withDelta

\* Consensus::update_leaf with a state delta.
UpdateLeafWithDelta(n, l) ==
  /\ InsertLeaf(n, l)
  /\ withDelta' = [withDelta EXCEPT ![n] = @ \cup {View[l]}]

\* Consensus::visit_leaf_ancestors from the state map entry of view v reaches
\* leaf a: every leaf from there to a is saved and has a state.
Reaches(n, v, a) ==
  /\ HasState(n, v)
  /\ a \in Anc[stateMap[n][v]]
  /\ \A b \in Anc[stateMap[n][v]] :
       View[b] >= View[a] => b \in saved[n] /\ HasState(n, View[b])

LivenessCheck(n, l) == View[Parent[l]] > lockedView[n]

\* Mutant: the chain is walked but never compared with the locked view.
SafetyOfAnyChain(n, l) == HasState(n, View[Parent[l]])

\* The chain of the justify QC passes through the locked view.
SafetyCheck(n, l) ==
  \E a \in Leaf : View[a] = lockedView[n] /\ Reaches(n, View[Parent[l]], a)

\* Mutant: off by one, the next view's QC does not count as newer.
UpdateHighQcLate(n, l) ==
  highQc' = [highQc EXCEPT ![n] =
               IF View[Parent[l]] > View[@] + 1 THEN Parent[l] ELSE @]

UpdateHighQc(n, l) ==
  highQc' = [highQc EXCEPT ![n] =
               IF View[Parent[l]] > View[@] THEN Parent[l] ELSE @]

BroadcastViewChange(n, v) ==
  pendingView' = [pendingView EXCEPT ![n] = Larger(@, v)]

-----------------------------------------------------------------------------
\* The quorum proposal receive task.

\* handle_quorum_proposal_recv when the parent leaf is not saved: the proposal
\* can raise the lock but is not voted for (validate_proposal_liveness).
RecvWithoutParent(n, l) ==
  /\ View[l] >= curView[n]
  /\ Certified(Parent[l])
  /\ Parent[l] \notin saved[n]
  /\ UpdateHighQc(n, l)
  /\ UpdateLeaf(n, l)
  /\ IF LivenessCheck(n, l)
       THEN /\ lockedView' = [lockedView EXCEPT ![n] = View[Parent[l]]]
            /\ BroadcastViewChange(n, View[l])
       ELSE UNCHANGED <<lockedView, pendingView>>
  /\ UNCHANGED <<curView, lastDecided, lastVoted, validated, ballot, votes, decided, storage>>

\* The dependency tasks b after l has been validated: the task of a view is
\* about the first proposal validated in it.
FirstOf(b, l) == [b EXCEPT ![View[l]] = IF @ = NoLeaf THEN l ELSE @]

\* handle_quorum_proposal_recv when parent leaf and state are known
\* (validate_proposal_safety_and_liveness).  The leaf is stored whether or
\* not the checks pass.
RecvWithParent(n, l) ==
  /\ View[l] >= curView[n]
  /\ Certified(Parent[l])
  /\ Parent[l] \in saved[n]
  /\ HasState(n, View[Parent[l]])
  /\ UpdateHighQc(n, l)
  /\ UpdateLeaf(n, l)
  /\ IF SafetyCheck(n, l) \/ LivenessCheck(n, l)
       THEN /\ validated' = [validated EXCEPT ![n] = Append(@, l)]
            /\ ballot' = [ballot EXCEPT ![n] = FirstOf(@, l)]
            /\ BroadcastViewChange(n, View[l])
       ELSE UNCHANGED <<validated, ballot, pendingView>>
  /\ UNCHANGED <<curView, lockedView, lastDecided, lastVoted, votes, decided, storage>>

\* QuorumProposalRecv at the quorum proposal receive task.
RecvProposal(n, l) ==
  /\ Redelivery \/ l \notin saved[n]
  /\ Len(validated[n]) < QueueSize
  /\ RecvWithoutParent(n, l) \/ RecvWithParent(n, l)

\* fetch_proposal is asked for the leaf of the high QC or for the missing
\* parent of a proposal.
Wanted(n, l) == l = highQc[n] \/ \E c \in saved[n] : Parent[c] = l

\* fetch_proposal: a proposal asked for by its QC arrives from a peer.
FetchProposal(n, l) ==
  /\ Wanted(n, l)
  /\ Certified(Parent[l])
  /\ l \notin saved[n]
  /\ UpdateLeaf(n, l)
  /\ UNCHANGED <<curView, lockedView, highQc, lastDecided, lastVoted, validated,
                 ballot, pendingView, votes, decided, storage>>

-----------------------------------------------------------------------------
\* The quorum vote task.

\* Consensus::parent_leaf_info finds leaf a.
HasInfo(n, a) == a \in saved[n] /\ HasState(n, View[a])

\* The leaves decide_from_proposal_2 collects when it decides g: from g back
\* to the last decided view, as far as the node knows them.
LeafChain(n, g) ==
  {a \in Anc[g] : /\ View[a] > lastDecided[n]
                  /\ \A b \in Anc[g] : View[b] >= View[a] => HasInfo(n, b)}

\* The two-chain rule of decide_from_proposal_2.
Decides(n, l) ==
  LET p == Parent[l]
      g == Parent[p]
  IN  HasInfo(n, p) /\ HasInfo(n, g) /\ View[g] + 1 = View[p]

\* Mutant: off by one, the new anchor itself is collected.
CollectGarbageAndAnchor(n, new) ==
  /\ saved' = [saved EXCEPT ![n] =
                 @ \ {stateMap[n][v] : v \in {w \in Views : lastDecided[n] <= w /\ w <= new}}]
  /\ stateMap' = [stateMap EXCEPT ![n] = [v \in Views |-> IF v <= new THEN NoLeaf ELSE @[v]]]
  /\ withDelta' = [withDelta EXCEPT ![n] = {v \in @ : v > new}]

\* Consensus::collect_garbage with last_decided_view as the old anchor.
CollectGarbage(n, new) ==
  LET old == lastDecided[n]
      gc == IF new = 0 THEN 0 ELSE new - 1
  IN  /\ saved' = [saved EXCEPT ![n] =
                     @ \ {stateMap[n][v] : v \in {w \in Views : old <= w /\ w < gc}}]
      /\ stateMap' = [stateMap EXCEPT ![n] =
                        [v \in Views |-> IF v < gc THEN NoLeaf ELSE @[v]]]
      /\ withDelta' = [withDelta EXCEPT ![n] = {v \in @ : v >= gc}]

\* Mutant: the leaf below the new proposal is decided, a chain of one.
HandleValidatedEarly(n) ==
  /\ validated[n] # << >>
  /\ LET l == Head(validated[n])
         g == Parent[l]
     IN  /\ lockedView' = [lockedView EXCEPT ![n] = Larger(@, View[Parent[l]])]
         /\ IF HasInfo(n, g) /\ View[g] > lastDecided[n]
              THEN /\ CollectGarbage(n, View[g])
                   /\ lastDecided' = [lastDecided EXCEPT ![n] = View[g]]
                   /\ decided' = [decided EXCEPT ![n] = @ \cup LeafChain(n, g)]
              ELSE UNCHANGED <<saved, stateMap, withDelta, lastDecided, decided>>
  /\ validated' = [validated EXCEPT ![n] = Tail(@)]
  /\ UNCHANGED <<curView, highQc, lastVoted, ballot, pendingView, votes, storage>>

\* handle_quorum_proposal_validated for the oldest event of the queue.  A
\* decided view that is not newer than the last one makes
\* update_last_decided_view fail before anything is announced.
HandleValidated(n) ==
  /\ validated[n] # << >>
  /\ LET l == Head(validated[n])
         g == Parent[Parent[l]]
     IN  /\ lockedView' = [lockedView EXCEPT ![n] = Larger(@, View[Parent[l]])]
         /\ IF Decides(n, l) /\ View[g] > lastDecided[n]
              THEN /\ CollectGarbage(n, View[g])
                   /\ lastDecided' = [lastDecided EXCEPT ![n] = View[g]]
                   /\ decided' = [decided EXCEPT ![n] = @ \cup LeafChain(n, g)]
              ELSE UNCHANGED <<saved, stateMap, withDelta, lastDecided, decided>>
  /\ validated' = [validated EXCEPT ![n] = Tail(@)]
  /\ UNCHANGED <<curView, highQc, lastVoted, ballot, pendingView, votes, storage>>

\* record_action of the storage, for a vote in view v.
RecordVote(n, v) ==
  /\ actedView' = [actedView EXCEPT ![n] = Larger(@, v)]
  /\ restartView' = [restartView EXCEPT ![n] = Larger(@, v + 1)]

\* The network task sends the vote, and records it first, only if none was
\* sent in this or a later view (maybe_record_action, Consensus::update_action).
SendVote(n, l) ==
  /\ IF View[l] > lastVoted[n]
       THEN /\ lastVoted' = [lastVoted EXCEPT ![n] = View[l]]
            /\ RecordVote(n, View[l])
            /\ votes' = [votes EXCEPT ![n] = @ \cup {l}]
       ELSE UNCHANGED <<lastVoted, votes, actedView, restartView>>
  /\ UNCHANGED anchor

\* VoteDependencyHandle::handle_dep_result once the DA certificate and the VID
\* share of view v have arrived.
Vote(n, v) ==
  LET l == ballot[n][v]
  IN  /\ l \in Leaf
      /\ HasInfo(n, Parent[l])
      /\ UpdateLeafWithDelta(n, l)
      /\ BroadcastViewChange(n, v + 1)
      /\ SendVote(n, l)
      /\ ballot' = [ballot EXCEPT ![n] = [@ EXCEPT ![v] = Done]]
      /\ UNCHANGED <<curView, lockedView, highQc, lastDecided, validated, decided>>

-----------------------------------------------------------------------------
\* View changes.

\* The vote task aborts the dependency tasks more than one view behind v.
AbortTasks(n, v) ==
  ballot' = [ballot EXCEPT ![n] = [w \in Views |-> IF w + 1 < v THEN Done ELSE @[w]]]

\* A ViewChange event reaches the tasks: the consensus task moves to the view
\* and the vote task drops what is too old.
ViewChange(n) ==
  /\ pendingView[n] > curView[n]
  /\ curView' = [curView EXCEPT ![n] = pendingView[n]]
  /\ AbortTasks(n, pendingView[n])
  /\ UNCHANGED <<lockedView, highQc, lastDecided, saved, stateMap, withDelta,
                 lastVoted, validated, pendingView, votes, decided, storage>>

\* A timeout or view sync certificate, or a QC this node formed as a leader,
\* makes another task broadcast a ViewChange event.
AdvanceView(n, v) ==
  /\ v > curView[n]
  /\ v > pendingView[n]
  /\ BroadcastViewChange(n, v)
  /\ UNCHANGED <<curView, lockedView, highQc, lastDecided, saved, stateMap, withDelta,
                 lastVoted, validated, ballot, votes, decided, storage>>

-----------------------------------------------------------------------------

Init ==
  /\ curView = [n \in Honest |-> 0]
  /\ lockedView = [n \in Honest |-> 0]
  /\ highQc = [n \in Honest |-> Genesis]
  /\ lastDecided = [n \in Honest |-> 0]
  /\ saved = [n \in Honest |-> {Genesis}]
  /\ stateMap = [n \in Honest |-> [v \in Views |-> IF v = 0 THEN Genesis ELSE NoLeaf]]
  /\ withDelta = [n \in Honest |-> {0}]
  /\ lastVoted = [n \in Honest |-> 0]
  /\ validated = [n \in Honest |-> << >>]
  /\ ballot = [n \in Honest |-> [v \in Views |-> NoLeaf]]
  /\ pendingView = [n \in Honest |-> 0]
  /\ votes = [n \in Honest |-> {}]
  /\ decided = [n \in Honest |-> {}]
  /\ actedView = [n \in Honest |-> 0]
  /\ restartView = [n \in Honest |-> 0]
  /\ anchor = [n \in Honest |-> Genesis]

\* What the tasks of node n other than the proposal receive task do.
OtherTasks(n) ==
  \/ \E l \in Leaf \ {Genesis} : FetchProposal(n, l)
  \/ HandleValidated(n)
  \/ \E v \in DaViews : Vote(n, v)
  \/ ViewChange(n)
  \/ \E v \in JumpViews : AdvanceView(n, v)

Next ==
  \E n \in Honest :
    \/ \E l \in Leaf \ {Genesis} : RecvProposal(n, l)
    \/ OtherTasks(n)

Spec == Init /\ [][Next]_vars

-----------------------------------------------------------------------------
\* Properties.

\* The types of the fields of Consensus and of the tasks' own state.
TypeOK ==
  /\ curView \in [Honest -> Nat]
  /\ lockedView \in [Honest -> Nat]
  /\ highQc \in [Honest -> Leaf]
  /\ lastDecided \in [Honest -> Nat]
  /\ saved \in [Honest -> SUBSET Leaf]
  /\ stateMap \in [Honest -> [Views -> Leaf \cup {NoLeaf}]]
  /\ withDelta \in [Honest -> SUBSET Views]
  /\ lastVoted \in [Honest -> Nat]
  /\ validated \in [Honest -> Seq(Leaf)]
  /\ ballot \in [Honest -> [Views -> Leaf \cup {NoLeaf, Done}]]
  /\ pendingView \in [Honest -> Nat]
  /\ votes \in [Honest -> SUBSET Leaf]
  /\ decided \in [Honest -> SUBSET Leaf]
  /\ actedView \in [Honest -> Nat]
  /\ restartView \in [Honest -> Nat]
  /\ anchor \in [Honest -> Leaf]

\* No view has certificates for two leaves, although an equivocating leader
\* and faulty voters may support both: update_action lets a node send one
\* vote per view whatever its dependency tasks race for.
UniqueCertificates ==
  \A l, m \in Leaf : View[l] = View[m] /\ Certified(l) /\ Certified(m) => l = m

\* Leaves announced in Decide events, by the same node or by two, lie on one
\* branch of the tree: decide_from_proposal_2 never decides a fork.
Agreement ==
  \A m, n \in Honest : \A a \in decided[m], b \in decided[n] :
    a \in Anc[b] \/ b \in Anc[a]

\* Successive votes of a node never go back below its lock: a later vote is
\* for a proposal justified at the view the earlier one was justified at, or
\* a newer one.  The lock is checked when a proposal arrives
\* (validate_proposal_safety_and_liveness) and moved when the vote task takes
\* its event, so this may fail for a proposal that arrives in between.
VotesRespectLock ==
  \A n \in Honest : \A l, m \in votes[n] :
    View[l] < View[m] => View[Parent[l]] <= View[Parent[m]]

\* The race between the check and the move of the lock is the only way to a
\* fork: as long as no node has voted below its lock, what
\* decide_from_proposal_2 decides anywhere lies on one branch, whatever the
\* faulty members, equivocating leaders and delays do.
ForksNeedLockBreach == VotesRespectLock => Agreement

\* A proposal queued for a vote is justified at the lock of that moment or
\* later, although SafetyCheck walks the state map, where a proposal of the
\* same view may have replaced the leaf the justify QC certifies.
AcceptedAtLock ==
  [][\A n \in Honest :
       Len(validated'[n]) > Len(validated[n]) =>
         View[Parent[validated'[n][Len(validated'[n])]]] >= lockedView[n]]_vars

\* A node locks on a view only after its high QC has reached it, so the
\* proposal it would make as a leader passes its own lock.
HighQcCoversLock == \A n \in Honest : lockedView[n] <= View[highQc[n]]

\* Consensus::decided_leaf finds the leaf of the last decided view in the
\* state map and among the saved leaves, whatever was collected as garbage.
DecidedLeafKnown ==
  \A n \in Honest : HasState(n, lastDecided[n]) /\ stateMap[n][lastDecided[n]] \in saved[n]
=============================================================================
