--------------------------- MODULE HotShotRestart ---------------------------
(***************************************************************************)
(* Replicas of HotShot that stop at any moment and start again from their   *)
(* storage.  What is stored is the highest view acted in, the view to       *)
(* restart from and the newest decided leaf; the lock, the high QC, the     *)
(* undecided leaves and the views voted in by then are gone.                *)
(***************************************************************************)
EXTENDS HotShot

CONSTANTS
  Restarting,   \* the nodes whose storage may fail and that may restart
  OtherViews    \* the views of proposals sent and of view sync rounds voted in

ASSUME RestartAssumption ==
  Restarting \subseteq Honest /\ OtherViews \subseteq Nat

\* What a restart loses.
volatile == <<curView, lockedView, highQc, lastDecided, saved, stateMap, withDelta,
              lastVoted, validated, ballot, pendingView>>

-----------------------------------------------------------------------------
\* What is written to storage.

\* A quorum proposal is recorded; it does not move the restart view.
RecordProposal(n, v) ==
  /\ actedView' = [actedView EXCEPT ![n] = Larger(@, v)]
  /\ UNCHANGED <<volatile, votes, decided, restartView, anchor>>

\* A view sync vote is recorded as a vote in its round's view, but does not
\* count against the votes for proposals as long as the node keeps running.
RecordViewSyncVote(n, v) ==
  /\ RecordVote(n, v)
  /\ UNCHANGED <<volatile, votes, decided, anchor>>

\* Mutant: the leaf of the high QC is stored, which is not decided yet.
PersistCertified(n) ==
  /\ View[anchor[n]] < lastDecided[n]
  /\ anchor' = [anchor EXCEPT ![n] = highQc[n]]
  /\ UNCHANGED <<volatile, votes, decided, actedView, restartView>>

\* handle_events stores the leaves of the Decide events up to now, the newest
\* leaf of an event before the older ones.
PersistDecided(n) ==
  /\ View[anchor[n]] < lastDecided[n]
  /\ \E l \in decided[n] : View[l] = lastDecided[n] /\ anchor' = [anchor EXCEPT ![n] = l]
  /\ UNCHANGED <<volatile, votes, decided, actedView, restartView>>

\* record_action stops half way: nothing is written, or the acted view but not
\* the restart view (two files), or the vote is dropped after both.
RecordInPart(n, v) ==
  \/ UNCHANGED <<actedView, restartView>>
  \/ actedView' = [actedView EXCEPT ![n] = Larger(@, v)] /\ UNCHANGED restartView
  \/ RecordVote(n, v)

\* The dependency task votes in view v and the network task does not send the
\* vote: the storage reports an error, or the view is over first.  The vote is
\* spent all the same.
VoteUnsent(n, v) ==
  LET l == ballot[n][v]
  IN  /\ l \in Leaf
      /\ HasInfo(n, Parent[l])
      /\ v > lastVoted[n]
      /\ UpdateLeafWithDelta(n, l)
      /\ BroadcastViewChange(n, v + 1)
      /\ lastVoted' = [lastVoted EXCEPT ![n] = v]
      /\ RecordInPart(n, v)
      /\ ballot' = [ballot EXCEPT ![n] = [@ EXCEPT ![v] = Done]]
      /\ UNCHANGED <<curView, lockedView, highQc, lastDecided, validated, votes, decided,
                     anchor>>

-----------------------------------------------------------------------------
\* Restarts.

\* Mutant: the views acted in are not loaded.
LastActionedNone(n) == 0

\* HotShotActionViews::from_view of the acted view.
LastActioned(n) == actedView[n]

\* The validated state map has the anchor leaf only.
StartState(n) == [v \in Views |-> IF v = View[anchor[n]] THEN anchor[n] ELSE NoLeaf]

\* Mutant: the view after the anchor leaf, whatever was voted in.
StartViewOfAnchor(n) == View[anchor[n]] + 1

\* load_consensus_state.
StartView(n) == Larger(restartView[n], View[anchor[n]])

\* The node stops, possibly between recording a vote and sending it, and
\* starts again: new_from_channels, and start_consensus with the ViewChange
\* event of the start view.
Restart(n) ==
  /\ curView' = [curView EXCEPT ![n] = View[anchor[n]]]
  /\ pendingView' = [pendingView EXCEPT ![n] = StartView(n)]
  /\ lockedView' = [lockedView EXCEPT ![n] = View[anchor[n]]]
  /\ highQc' = [highQc EXCEPT ![n] = anchor[n]]
  /\ lastDecided' = [lastDecided EXCEPT ![n] = View[anchor[n]]]
  /\ saved' = [saved EXCEPT ![n] = {anchor[n]}]
  /\ stateMap' = [stateMap EXCEPT ![n] = StartState(n)]
  /\ withDelta' = [withDelta EXCEPT ![n] = {}]
  /\ lastVoted' = [lastVoted EXCEPT ![n] = LastActioned(n)]
  /\ validated' = [validated EXCEPT ![n] = << >>]
  /\ ballot' = [ballot EXCEPT ![n] = [v \in Views |-> NoLeaf]]
  /\ UNCHANGED <<votes, decided, storage>>

-----------------------------------------------------------------------------

StorageStep(n) ==
  \/ \E v \in OtherViews : RecordProposal(n, v) \/ RecordViewSyncVote(n, v)
  \/ PersistDecided(n)
  \/ \E v \in DaViews : VoteUnsent(n, v)
  \/ Restart(n)

RestartNext == Next \/ \E n \in Restarting : StorageStep(n)

RestartSpec == Init /\ [][RestartNext]_vars

-----------------------------------------------------------------------------
\* Properties.

\* A restarted node starts in a view after every view it has voted in, and not
\* before its anchor leaf (load_consensus_state).
StartsBehindVotes ==
  \A n \in Honest :
    /\ \A l \in votes[n] : View[l] < StartView(n)
    /\ View[anchor[n]] <= StartView(n)

\* The stored leaf is one the node has announced, and no newer than the last
\* decided view of the running node: a restart takes a node back, and never to
\* a leaf that was not decided.
AnchorWasDecided ==
  \A n \in Honest :
    /\ anchor[n] \in decided[n] \cup {Genesis}
    /\ View[anchor[n]] <= lastDecided[n]
=============================================================================
