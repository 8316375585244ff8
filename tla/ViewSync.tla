------------------------------ MODULE ViewSync ------------------------------
(***************************************************************************)
(* View synchronisation: how nodes that stop seeing proposals come back to *)
(* a common view.  A node moves to the next view at its first timeout; at   *)
(* the second in a row its view sync task starts a replica task that asks,  *)
(* one relay after the other, for certificates of a round: the view it      *)
(* wants to be in.  The relay k of round r is the leader of view r + k.     *)
(*                                                                          *)
(* A node is modelled by its view sync task, with the events waiting for    *)
(* it, and by its consensus task, which takes view changes at its own pace  *)
(* and runs the view timer.  Votes and certificates travel through a        *)
(* network that delivers them in any order; what is never delivered is      *)
(* lost.  All views belong to one epoch.                                    *)
(***************************************************************************)
EXTENDS Integers, Sequences

CONSTANTS
  Node,        \* the members of the committee
  Faulty,      \* the members that may vote for anything
  Silent,      \* the members that are down
  OneHonest,   \* the sets of members that reach the failure threshold
  Quorum,      \* the sets of members that reach the success threshold
  Leader,      \* Leader[v]: the leader of view v
  StartViews,  \* where the nodes may be when proposals stop: a view for each
  MaxView,     \* bound: view timers run in views up to this one
  MaxRelay,    \* bound: the last relay that is tried
  FaultyVote,  \* the votes the faulty members cast, from the start
  Prompt       \* whether nodes are quick: see Ready

Live == Node \ (Faulty \cup Silent)

Rounds == 0 .. MaxView + 1
Relays == 0 .. MaxRelay
Phases == {"PreCommit", "Commit", "Finalize"}
Votes == [phase : Phases, round : Rounds, relay : Relays, voter : Node]
Certs == [phase : Phases, round : Rounds, relay : Relays]

\* The faulty members do not make a certificate on their own, and neither
\* does a single member (a vote accumulator outlives the vote that creates it).
ASSUME ThresholdAssumption ==
  /\ OneHonest \subseteq SUBSET Node /\ Quorum \subseteq SUBSET Node
  /\ Faulty \subseteq Node /\ Silent \subseteq Node
  /\ \A S \in OneHonest \cup Quorum : ~ S \subseteq Faulty
  /\ \A S \in OneHonest \cup Quorum : \A n \in Node : S # {n}

ASSUME BoundAssumption ==
  /\ MaxView \in Nat \ {0} /\ MaxRelay \in Nat
  /\ StartViews \subseteq [Live -> 1 .. MaxView]
  /\ Leader \in [0 .. MaxView + 1 + MaxRelay -> Node]
  /\ FaultyVote \subseteq {v \in Votes : v.voter \in Faulty}

ASSUME PromptAssumption == Prompt \in BOOLEAN

VARIABLES
  consView,   \* ConsensusTaskState::cur_view
  pendingView,\* highest view of a ViewChange event broadcast so far
  armed,      \* whether the view timer of that view is still to fire
  curView,    \* ViewSyncTaskState::cur_view
  timeouts,   \* ViewSyncTaskState::num_timeouts_tracked
  collected,  \* ViewSyncTaskState::last_garbage_collected_view
  task,       \* ViewSyncTaskState::replica_task_map
  timers,     \* the spawned replica timers that have not fired
  queue,      \* the internal events the view sync task has not handled
  ballots,    \* votes on their way to their relay
  relayMap,   \* the votes in the relays' accumulators
  unread,     \* certificates on their way to each node
  asked       \* history: the rounds each node has started by itself

nodeVars == <<consView, pendingView, armed, curView, timeouts, collected, task, timers, queue, asked>>
vars == <<nodeVars, ballots, relayMap, unread>>

-----------------------------------------------------------------------------

NoTask == [relay |-> 0, timer |-> {}, running |-> FALSE]

\* A ViewSyncReplicaTaskState: its relay, and the timer it holds a handle of.
Timer == [round : Rounds, relay : Relays]
TaskState == [relay : Relays, timer : {{}} \cup {{t} : t \in Timer}, running : BOOLEAN]

Timeout(v) == [type |-> "Timeout", view |-> v]
ViewChange(v) == [type |-> "ViewChange", view |-> v]
ViewSyncTimeout(r, k) == [type |-> "ViewSyncTimeout", round |-> r, relay |-> k]

Vote(p, r, k, n) == [phase |-> p, round |-> r, relay |-> k, voter |-> n]

Larger(x, y) == IF x > y THEN x ELSE y

\* The prompt schedule: internal events are handled before any timer fires or
\* message arrives.  It is what a node does whose tasks are not overloaded.
Idle == \A n \in Live : queue[n] = <<>> /\ consView[n] = pendingView[n]

Ready == Prompt => Idle

\* The task the event is for: the running one, or one that starts at relay 0.
ReplicaOf(n, r) == IF task[n][r].running THEN task[n][r] ELSE [NoTask EXCEPT !.running = TRUE]

\* The task of round r is on relay k now: it spawns a timer and aborts the one
\* it had.
Restarted(n, r, k) ==
  LET timer == {[round |-> r, relay |-> k]}
  IN  /\ task' = [task EXCEPT ![n][r] = [relay |-> k, timer |-> timer, running |-> TRUE]]
      /\ timers' = [timers EXCEPT ![n] = (@ \ ReplicaOf(n, r).timer) \cup timer]

\* broadcast_view_change: the event joins q, and reaches the consensus task.
BroadcastViewChange(n, v, q) ==
  /\ queue' = [queue EXCEPT ![n] = Append(q, ViewChange(v))]
  /\ pendingView' = [pendingView EXCEPT ![n] = Larger(@, v)]

NoViewChange(n, q) ==
  /\ queue' = [queue EXCEPT ![n] = q]
  /\ UNCHANGED pendingView

Send(p, r, k, n) == ballots' = ballots \cup {Vote(p, r, k, n)}

-----------------------------------------------------------------------------
\* The consensus task, and timers.

\* handle_view_change: a higher view restarts the view timer.
EnterView(n) ==
  /\ consView[n] < pendingView[n]
  /\ consView' = [consView EXCEPT ![n] = pendingView[n]]
  /\ armed' = [armed EXCEPT ![n] = TRUE]
  /\ UNCHANGED <<pendingView, curView, timeouts, collected, task, timers, queue, asked,
                 ballots, relayMap, unread>>

\* The timeout task of the consensus task: no evidence for the view came.
ViewTimerFires(n) ==
  /\ Ready
  /\ armed[n] /\ consView[n] <= MaxView
  /\ armed' = [armed EXCEPT ![n] = FALSE]
  /\ queue' = [queue EXCEPT ![n] = Append(@, Timeout(consView[n]))]
  /\ UNCHANGED <<consView, pendingView, curView, timeouts, collected, task, timers, asked,
                 ballots, relayMap, unread>>

\* A timer of a replica task fires, whether or not the task still exists.
ReplicaTimerFires(n) ==
  \E t \in timers[n] :
    /\ Ready /\ t.relay < MaxRelay
    /\ timers' = [timers EXCEPT ![n] = @ \ {t}]
    /\ queue' = [queue EXCEPT ![n] = Append(@, ViewSyncTimeout(t.round, t.relay))]
    /\ UNCHANGED <<consView, pendingView, armed, curView, timeouts, collected, task, asked,
                   ballots, relayMap, unread>>

-----------------------------------------------------------------------------
\* Internal events at the view sync task.

\* ViewSyncTrigger at the replica task of round r.  The timer it spawns takes
\* the place of one it does not abort.
Trigger(n, r) ==
  LET t == ReplicaOf(n, r)
      timer == {[round |-> r, relay |-> t.relay]}
  IN  /\ Send("PreCommit", r, 0, n)
      /\ task' = [task EXCEPT ![n][r] = [t EXCEPT !.timer = timer]]
      /\ timers' = [timers EXCEPT ![n] = @ \cup timer]
      /\ asked' = [asked EXCEPT ![n] = @ \cup {r}]

FirstTimeout(n, v) ==
  /\ timeouts[n] + 1 < 2
  /\ curView' = [curView EXCEPT ![n] = v + 1]
  /\ BroadcastViewChange(n, v + 1, Tail(queue[n]))
  /\ UNCHANGED <<task, timers, asked, ballots>>

RepeatedTimeout(n, v) ==
  /\ timeouts[n] + 1 >= 2
  /\ Trigger(n, v + 1)
  /\ NoViewChange(n, Tail(queue[n]))
  /\ UNCHANGED curView

\* Mutant: a timeout of an old view is not ignored.
HandleAnyTimeout(n) ==
  /\ queue[n] # <<>> /\ Head(queue[n]).type = "Timeout"
  /\ timeouts' = [timeouts EXCEPT ![n] = @ + 1]
  /\ LET v == Head(queue[n]).view IN FirstTimeout(n, v) \/ RepeatedTimeout(n, v)
  /\ UNCHANGED <<consView, armed, collected, relayMap, unread>>

HandleTimeout(n) ==
  /\ queue[n] # <<>> /\ Head(queue[n]).type = "Timeout"
  /\ LET v == Head(queue[n]).view
     IN  IF v < curView[n]
           THEN /\ NoViewChange(n, Tail(queue[n]))
                /\ UNCHANGED <<curView, timeouts, task, timers, asked, ballots>>
           ELSE /\ timeouts' = [timeouts EXCEPT ![n] = @ + 1]
                /\ FirstTimeout(n, v) \/ RepeatedTimeout(n, v)
  /\ UNCHANGED <<consView, armed, collected, relayMap, unread>>

\* The accumulators node n drops with the views in gone.
DropRelays(n, gone) ==
  relayMap' = [x \in DOMAIN relayMap |->
                 IF x.round \in gone /\ Leader[x.round + x.relay] = n THEN {} ELSE relayMap[x]]

\* ViewChange at the view sync task, with its garbage collection: the timers
\* of the tasks it drops keep running.
HandleViewChange(n) ==
  /\ queue[n] # <<>> /\ Head(queue[n]).type = "ViewChange"
  /\ LET v == Head(queue[n]).view
         gone == collected[n] .. v - 1
     IN  IF curView[n] < v
           THEN /\ curView' = [curView EXCEPT ![n] = v]
                /\ timeouts' = [timeouts EXCEPT ![n] = 0]
                /\ task' = [task EXCEPT ![n] = [r \in Rounds |->
                              IF r \in gone THEN NoTask ELSE @[r]]]
                /\ DropRelays(n, gone)
                /\ collected' = [collected EXCEPT ![n] = v - 1]
           ELSE UNCHANGED <<curView, timeouts, task, relayMap, collected>>
  /\ NoViewChange(n, Tail(queue[n]))
  /\ UNCHANGED <<consView, armed, timers, asked, ballots, unread>>

\* Mutant: the same relay is asked again and again.
HandleTimeoutSameRelay(n) ==
  /\ queue[n] # <<>> /\ Head(queue[n]).type = "ViewSyncTimeout"
  /\ LET r == Head(queue[n]).round
         k == Head(queue[n]).relay
     IN  /\ curView[n] <= r /\ k = ReplicaOf(n, r).relay
         /\ Send("PreCommit", r, k, n)
         /\ Restarted(n, r, k)
  /\ NoViewChange(n, Tail(queue[n]))
  /\ UNCHANGED <<consView, armed, curView, timeouts, collected, asked, relayMap, unread>>

\* ViewSyncTimeout: the replica task of the round, started anew when there is
\* none, asks the next relay unless the event is about another relay.
HandleViewSyncTimeout(n) ==
  /\ queue[n] # <<>> /\ Head(queue[n]).type = "ViewSyncTimeout"
  /\ LET r == Head(queue[n]).round
         k == Head(queue[n]).relay
     IN  \/ /\ curView[n] > r
            /\ UNCHANGED <<task, timers, ballots>>
         \/ /\ curView[n] <= r /\ k # ReplicaOf(n, r).relay
            /\ task' = [task EXCEPT ![n][r] = ReplicaOf(n, r)]
            /\ UNCHANGED <<timers, ballots>>
         \/ /\ curView[n] <= r /\ k = ReplicaOf(n, r).relay
            /\ Send("PreCommit", r, k + 1, n)
            /\ Restarted(n, r, k + 1)
  /\ NoViewChange(n, Tail(queue[n]))
  /\ UNCHANGED <<consView, armed, curView, timeouts, collected, asked, relayMap, unread>>

-----------------------------------------------------------------------------
\* Certificates at the replica task of their round.

\* A certificate of phase p reaches n; one below the view of n is ignored.
Receives(n, c, p) ==
  /\ Ready /\ c \in unread[n] /\ c.phase = p
  /\ unread' = [unread EXCEPT ![n] = @ \ {c}]
  /\ UNCHANGED <<consView, armed, curView, timeouts, collected, asked, relayMap>>

RecvOld(n) ==
  \E c \in unread[n] :
    /\ Receives(n, c, c.phase)
    /\ curView[n] > c.round
    /\ UNCHANGED <<pendingView, queue, task, timers, ballots>>

RecvPreCommit(n) ==
  \E c \in unread[n] :
    /\ Receives(n, c, "PreCommit")
    /\ curView[n] <= c.round
    /\ Send("Commit", c.round, c.relay, n)
    /\ Restarted(n, c.round, Larger(ReplicaOf(n, c.round).relay, c.relay))
    /\ UNCHANGED <<pendingView, queue>>

\* Mutant: the view change waits for the finalize certificate.
RecvCommitQuietly(n) ==
  \E c \in unread[n] :
    /\ Receives(n, c, "Commit")
    /\ curView[n] <= c.round
    /\ Send("Finalize", c.round, c.relay, n)
    /\ Restarted(n, c.round, Larger(ReplicaOf(n, c.round).relay, c.relay))
    /\ UNCHANGED <<pendingView, queue>>

RecvCommit(n) ==
  \E c \in unread[n] :
    /\ Receives(n, c, "Commit")
    /\ curView[n] <= c.round
    /\ Send("Finalize", c.round, c.relay, n)
    /\ BroadcastViewChange(n, c.round, queue[n])
    /\ Restarted(n, c.round, Larger(ReplicaOf(n, c.round).relay, c.relay))

\* The replica task is over: its timer is aborted and it leaves the map.
RecvFinalize(n) ==
  \E c \in unread[n] :
    /\ Receives(n, c, "Finalize")
    /\ curView[n] <= c.round
    /\ BroadcastViewChange(n, c.round, queue[n])
    /\ task' = [task EXCEPT ![n][c.round] = NoTask]
    /\ timers' = [timers EXCEPT ![n] = @ \ task[n][c.round].timer]
    /\ UNCHANGED ballots

-----------------------------------------------------------------------------
\* The relays.

\* Mutant: one vote makes a pre-commit certificate.
EnoughAlone(p, voters) ==
  p = "PreCommit" \/ \E S \in Quorum : S \subseteq voters

\* Mutant: a pre-commit certificate needs the success threshold as well.
EnoughForAll(p, voters) == \E S \in Quorum : S \subseteq voters

\* The threshold of a certificate of phase p.
Enough(p, voters) ==
  \E S \in (IF p = "PreCommit" THEN OneHonest ELSE Quorum) : S \subseteq voters

\* A vote reaches its relay.  The certificate it completes is broadcast, and
\* the relay then drops all it has for that phase and round.
CollectVote(v) ==
  LET x == [phase |-> v.phase, round |-> v.round, relay |-> v.relay]
      voters == relayMap[x] \cup {v.voter}
      relay == Leader[v.round + v.relay]
      SameEntry(y) == /\ y.phase = v.phase /\ y.round = v.round
                      /\ Leader[y.round + y.relay] = relay
  IN  /\ Ready /\ relay \notin Silent
      /\ ballots' = ballots \ {v}
      /\ IF Enough(v.phase, voters)
           THEN /\ unread' = [n \in Live |-> unread[n] \cup {x}]
                /\ relayMap' = [y \in Certs |-> IF SameEntry(y) THEN {} ELSE relayMap[y]]
           ELSE /\ relayMap' = [relayMap EXCEPT ![x] = voters]
                /\ UNCHANGED unread
      /\ UNCHANGED nodeVars

-----------------------------------------------------------------------------

Init ==
  /\ consView \in StartViews
  /\ pendingView = consView
  /\ armed = [n \in Live |-> TRUE]
  /\ curView = consView
  /\ timeouts = [n \in Live |-> 0]
  /\ collected = [n \in Live |-> 0]
  /\ task = [n \in Live |-> [r \in Rounds |-> NoTask]]
  /\ timers = [n \in Live |-> {}]
  /\ queue = [n \in Live |-> <<>>]
  /\ asked = [n \in Live |-> {}]
  /\ ballots = FaultyVote
  /\ relayMap = [x \in Certs |-> {}]
  /\ unread = [n \in Live |-> {}]

\* The tasks of node n take an event off the internal event stream.
TaskStep(n) ==
  \/ EnterView(n)
  \/ HandleTimeout(n) \/ HandleViewChange(n) \/ HandleViewSyncTimeout(n)

\* A timer of node n fires or a certificate reaches it.
OutsideStep(n) ==
  \/ ViewTimerFires(n) \/ ReplicaTimerFires(n)
  \/ RecvOld(n) \/ RecvPreCommit(n) \/ RecvCommit(n) \/ RecvFinalize(n)

RelayStep == \E v \in ballots : CollectVote(v)

Next == (\E n \in Live : TaskStep(n) \/ OutsideStep(n)) \/ RelayStep

Spec == Init /\ [][Next]_vars

\* A node that is up keeps running, its timers fire and the certificates sent
\* to it arrive; the votes sent to a relay that is up arrive as well.
FairSpec ==
  /\ Spec
  /\ \A n \in Live : WF_vars(TaskStep(n) \/ OutsideStep(n))
  /\ WF_vars(RelayStep)

\* All that is known is that the system as a whole does not stop.
RunningSpec == Spec /\ WF_vars(Next)

-----------------------------------------------------------------------------

Event ==
  [type : {"Timeout"}, view : 0 .. MaxView] \cup [type : {"ViewChange"}, view : Rounds]
    \cup [type : {"ViewSyncTimeout"}, round : Rounds, relay : 0 .. MaxRelay - 1]

\* Every field of the view sync task, its events and the messages keep their
\* types: rounds and relays stay within the bounds, and a replica task holds
\* at most the handle of one timer.
ViewSyncTypeOK ==
  /\ consView \in [Live -> Rounds]
  /\ pendingView \in [Live -> Rounds]
  /\ armed \in [Live -> BOOLEAN]
  /\ curView \in [Live -> Rounds]
  /\ timeouts \in [Live -> Nat]
  /\ collected \in [Live -> Rounds]
  /\ task \in [Live -> [Rounds -> TaskState]]
  /\ timers \in [Live -> SUBSET Timer]
  /\ queue \in [Live -> Seq(Event)]
  /\ asked \in [Live -> SUBSET Rounds]
  /\ ballots \subseteq Votes
  /\ relayMap \in [Certs -> SUBSET Node]
  /\ unread \in [Live -> SUBSET Certs]

\* The faulty members alone never start a round: any view sync certificate,
\* in whatever phase, is for a round that some honest node has asked for
\* after two timeouts in a row.  This is what the failure threshold of the
\* pre-commit certificate is for.
AskedByHonest ==
  \A n \in Live : \A c \in unread[n] : \E m \in Live : c.round \in asked[m]

\* When a finalize certificate of a round is out, the honest part of a quorum
\* is in that round's view or on its way to it: whoever votes to finalize has
\* announced the view change.
FinalizedMeansEntered ==
  \A n \in Live : \A c \in unread[n] :
    c.phase = "Finalize" =>
      \E Q \in Quorum : \A m \in Q \ Faulty : m \in Live /\ pendingView[m] >= c.round

\* No step takes a node back to an earlier view, in the consensus task or in
\* the view sync task, although timeouts and view changes wait in a queue
\* while certificates overtake them.
ViewsNeverFallBack ==
  [][\A n \in Live : consView'[n] >= consView[n] /\ curView'[n] >= curView[n]]_vars

\* A round that as many honest nodes ask for as the failure threshold needs
\* is completed: every node that is up gets to its view or beyond, even one
\* that has asked for the next round and one that never asked at all.  (What
\* a node has asked for and the view it has reached only grow.)
RoundCompletes ==
  []<>(\A r \in Rounds :
         (\E S \in OneHonest : S \subseteq {n \in Live : r \in asked[n]})
           => \A n \in Live : consView[n] >= r)

\* View sync brings the nodes back together: wherever in StartViews they are
\* when proposals stop, all of them get beyond the views any of them started
\* in, with no proposal and with a member down.
BackInAgreement ==
  <>(\A n, m \in Live : \A start \in StartViews : consView[n] > start[m])
=============================================================================
