--------------------------- MODULE ViewSync_proofs ---------------------------
(***************************************************************************)
(* View sync for every committee, leader schedule and bound: the types of   *)
(* its state, and that no round is certified that no honest node asked for. *)
(***************************************************************************)
EXTENDS ViewSync, TLAPS

\* Head and Tail stay within the element type of a queue that is not empty.
LEMMA HeadTail ==
  ASSUME NEW S, NEW q \in Seq(S), q # <<>>
  PROVE  Head(q) \in S /\ Tail(q) \in Seq(S)
  OBVIOUS

\* Append stays within the element type of a queue.
LEMMA AppendIn ==
  ASSUME NEW S, NEW q \in Seq(S), NEW e \in S
  PROVE  Append(q, e) \in Seq(S)
  OBVIOUS

\* What the fields of an event of each type range over.
LEMMA EventFields ==
  ASSUME NEW e \in Event
  PROVE  /\ e.type = "Timeout" => e.view \in 0 .. MaxView
         /\ e.type = "ViewChange" => e.view \in Rounds
         /\ e.type = "ViewSyncTimeout" => e.round \in Rounds /\ e.relay \in 0 .. MaxRelay - 1
  BY DEF Event

\* The events that handlers and timers broadcast are events.
LEMMA EventsMade ==
  /\ \A v \in 0 .. MaxView : Timeout(v) \in Event
  /\ \A v \in Rounds : ViewChange(v) \in Event
  /\ \A r \in Rounds, k \in 0 .. MaxRelay - 1 : ViewSyncTimeout(r, k) \in Event
  BY DEF Event, Timeout, ViewChange, ViewSyncTimeout

\* A replica task on some relay, with the timer of that relay, has its type.
LEMMA TaskMade ==
  ASSUME NEW r \in Rounds, NEW k \in Relays
  PROVE  /\ [round |-> r, relay |-> k] \in Timer
         /\ [relay |-> k, timer |-> {[round |-> r, relay |-> k]}, running |-> TRUE] \in TaskState
  BY DEF Timer, TaskState

\* The absent task has the type of a task.
LEMMA NoTaskType == NoTask \in TaskState
  BY BoundAssumption DEF NoTask, TaskState, Relays

\* The task an event is handed to has the type of a task, its relay is one,
\* and its timer, if it has one, is one.
LEMMA ReplicaType ==
  ASSUME ViewSyncTypeOK, NEW n \in Live, NEW r \in Rounds
  PROVE  /\ ReplicaOf(n, r) \in TaskState
         /\ ReplicaOf(n, r).relay \in Relays
  <1>1. task[n][r] \in TaskState
    BY DEF ViewSyncTypeOK
  <1>2. [NoTask EXCEPT !.running = TRUE] \in TaskState
    BY NoTaskType, Zenon DEF TaskState
  <1>3. ReplicaOf(n, r) \in TaskState
    BY <1>1, <1>2 DEF ReplicaOf
  <1> QED BY <1>3 DEF TaskState

\* Changing one task keeps the type of the replica task map.
LEMMA TaskUpdate ==
  ASSUME ViewSyncTypeOK, NEW n \in Live, NEW r \in Rounds, NEW t \in TaskState
  PROVE  [task EXCEPT ![n][r] = t] \in [Live -> [Rounds -> TaskState]]
  BY DEF ViewSyncTypeOK

\* Restarted keeps the types of the tasks and the timers.
LEMMA RestartedType ==
  ASSUME ViewSyncTypeOK, NEW n \in Live, NEW r \in Rounds, NEW k \in Relays,
         Restarted(n, r, k)
  PROVE  task' \in [Live -> [Rounds -> TaskState]] /\ timers' \in [Live -> SUBSET Timer]
  <1> DEFINE timer == {[round |-> r, relay |-> k]}
  <1>1. task' = [task EXCEPT ![n][r] = [relay |-> k, timer |-> timer, running |-> TRUE]]
    BY DEF Restarted
  <1>2. timers' = [timers EXCEPT ![n] = (@ \ ReplicaOf(n, r).timer) \cup timer]
    BY DEF Restarted
  <1>3. task' \in [Live -> [Rounds -> TaskState]]
    BY <1>1, TaskMade, TaskUpdate, Zenon
  <1>4. timer \subseteq Timer
    BY TaskMade, Zenon
  <1>5. timers \in [Live -> SUBSET Timer]
    BY DEF ViewSyncTypeOK
  <1> HIDE DEF timer
  <1>6. timers' \in [Live -> SUBSET Timer]
    BY <1>2, <1>4, <1>5
  <1> QED BY <1>3, <1>6

\* Broadcasting a view change keeps the types of the queue and the pending view.
LEMMA BroadcastType ==
  ASSUME ViewSyncTypeOK, NEW n \in Live, NEW v \in Rounds, NEW q \in Seq(Event),
         BroadcastViewChange(n, v, q)
  PROVE  queue' \in [Live -> Seq(Event)] /\ pendingView' \in [Live -> Rounds]
  <1>1. Append(q, ViewChange(v)) \in Seq(Event)
    BY EventsMade, AppendIn
  <1>2. queue' \in [Live -> Seq(Event)]
    BY <1>1 DEF ViewSyncTypeOK, BroadcastViewChange
  <1>3. pendingView' \in [Live -> Rounds]
    BY DEF ViewSyncTypeOK, BroadcastViewChange, Larger
  <1> QED BY <1>2, <1>3

\* A handler that broadcasts no view change keeps those types as well.
LEMMA QueueType ==
  ASSUME ViewSyncTypeOK, NEW n \in Live, NEW q \in Seq(Event), NoViewChange(n, q)
  PROVE  queue' \in [Live -> Seq(Event)] /\ pendingView' \in [Live -> Rounds]
  BY DEF ViewSyncTypeOK, NoViewChange

\* Sending a vote keeps the type of the votes on their way.
LEMMA SendType ==
  ASSUME ViewSyncTypeOK, NEW n \in Live, NEW p \in Phases, NEW r \in Rounds, NEW k \in Relays,
         Send(p, r, k, n)
  PROVE  ballots' \subseteq Votes
  <1>1. Vote(p, r, k, n) \in Votes
    BY DEF Vote, Votes, Live
  <1> QED BY <1>1 DEF Send, ViewSyncTypeOK

-----------------------------------------------------------------------------
\* Type correctness, one lemma for each kind of step.

\* The initial states have their types.
LEMMA InitType == Init => ViewSyncTypeOK
  <1> SUFFICES ASSUME Init PROVE ViewSyncTypeOK
    OBVIOUS
  <1>1. StartViews \subseteq [Live -> Rounds] /\ 0 \in Rounds
    BY BoundAssumption DEF Rounds
  <1>2. [r \in Rounds |-> NoTask] \in [Rounds -> TaskState]
    BY NoTaskType
  <1>3. FaultyVote \subseteq Votes
    BY BoundAssumption
  <1>4. <<>> \in Seq(Event)
    OBVIOUS
  <1>5. /\ consView \in [Live -> Rounds] /\ pendingView \in [Live -> Rounds]
        /\ curView \in [Live -> Rounds] /\ collected \in [Live -> Rounds]
    BY <1>1 DEF Init
  <1>6. /\ armed \in [Live -> BOOLEAN] /\ timeouts \in [Live -> Nat]
        /\ timers \in [Live -> SUBSET Timer] /\ asked \in [Live -> SUBSET Rounds]
        /\ relayMap \in [Certs -> SUBSET Node] /\ unread \in [Live -> SUBSET Certs]
    BY DEF Init
  <1>7. task \in [Live -> [Rounds -> TaskState]]
    BY <1>2 DEF Init
  <1>8. queue \in [Live -> Seq(Event)]
    BY <1>4 DEF Init
  <1>9. ballots \subseteq Votes
    BY <1>3 DEF Init
  <1> QED BY <1>5, <1>6, <1>7, <1>8, <1>9, Zenon DEF ViewSyncTypeOK

\* The consensus task enters a view that was announced.
LEMMA EnterViewType ==
  ASSUME ViewSyncTypeOK, NEW n \in Live, EnterView(n)
  PROVE  ViewSyncTypeOK'
  <1>1. consView' \in [Live -> Rounds]
    BY DEF ViewSyncTypeOK, EnterView
  <1>2. armed' \in [Live -> BOOLEAN]
    BY DEF ViewSyncTypeOK, EnterView
  <1> QED BY <1>1, <1>2, Zenon DEF ViewSyncTypeOK, EnterView

\* A view timer fires in a view within the bound.
LEMMA ViewTimerType ==
  ASSUME ViewSyncTypeOK, NEW n \in Live, ViewTimerFires(n)
  PROVE  ViewSyncTypeOK'
  <1>1. consView[n] \in 0 .. MaxView
    BY BoundAssumption DEF ViewSyncTypeOK, ViewTimerFires, Rounds
  <1>2. Append(queue[n], Timeout(consView[n])) \in Seq(Event)
    BY <1>1, EventsMade, AppendIn DEF ViewSyncTypeOK
  <1>3. queue' \in [Live -> Seq(Event)]
    BY <1>2 DEF ViewSyncTypeOK, ViewTimerFires
  <1>4. armed' \in [Live -> BOOLEAN]
    BY DEF ViewSyncTypeOK, ViewTimerFires
  <1> QED BY <1>3, <1>4, Zenon DEF ViewSyncTypeOK, ViewTimerFires

\* A replica timer fires for a relay before the last one.
LEMMA ReplicaTimerType ==
  ASSUME ViewSyncTypeOK, NEW n \in Live, ReplicaTimerFires(n)
  PROVE  ViewSyncTypeOK'
  <1>1. PICK t \in timers[n] :
          /\ t.relay < MaxRelay
          /\ timers' = [timers EXCEPT ![n] = @ \ {t}]
          /\ queue' = [queue EXCEPT ![n] = Append(@, ViewSyncTimeout(t.round, t.relay))]
    BY Zenon DEF ReplicaTimerFires
  <1>2. t \in Timer
    BY DEF ViewSyncTypeOK
  <1>3. t.round \in Rounds /\ t.relay \in 0 .. MaxRelay - 1
    BY <1>1, <1>2, BoundAssumption DEF Timer, Relays
  <1>4. Append(queue[n], ViewSyncTimeout(t.round, t.relay)) \in Seq(Event)
    BY <1>3, EventsMade, AppendIn DEF ViewSyncTypeOK
  <1>5. queue' \in [Live -> Seq(Event)]
    BY <1>1, <1>4 DEF ViewSyncTypeOK
  <1>6. timers' \in [Live -> SUBSET Timer]
    BY <1>1 DEF ViewSyncTypeOK
  <1>7. UNCHANGED <<consView, pendingView, armed, curView, timeouts, collected, task, asked,
                    ballots, relayMap, unread>>
    BY DEF ReplicaTimerFires
  <1> QED BY <1>5, <1>6, <1>7, Zenon DEF ViewSyncTypeOK

\* The first event of a queue, and what it leaves.
LEMMA FirstEvent ==
  ASSUME ViewSyncTypeOK, NEW n \in Live, queue[n] # <<>>
  PROVE  Head(queue[n]) \in Event /\ Tail(queue[n]) \in Seq(Event)
  BY HeadTail DEF ViewSyncTypeOK

\* A timeout: the event is ignored, starts the next view or triggers a round.
LEMMA HandleTimeoutType ==
  ASSUME ViewSyncTypeOK, NEW n \in Live, HandleTimeout(n)
  PROVE  ViewSyncTypeOK'
  <1> DEFINE v == Head(queue[n]).view
             q == Tail(queue[n])
  <1>1. q \in Seq(Event) /\ v \in 0 .. MaxView
    BY FirstEvent, EventFields DEF HandleTimeout
  <1>2. v + 1 \in Rounds
    BY <1>1, BoundAssumption DEF Rounds
  <1>3. /\ consView' \in [Live -> Rounds] /\ armed' \in [Live -> BOOLEAN]
        /\ collected' \in [Live -> Rounds] /\ relayMap' \in [Certs -> SUBSET Node]
        /\ unread' \in [Live -> SUBSET Certs]
    BY DEF HandleTimeout, ViewSyncTypeOK
  <1>4. \/ v < curView[n] /\ NoViewChange(n, q)
            /\ UNCHANGED <<curView, timeouts, task, timers, asked, ballots>>
        \/ /\ timeouts' = [timeouts EXCEPT ![n] = @ + 1]
           /\ FirstTimeout(n, v) \/ RepeatedTimeout(n, v)
    BY Zenon DEF HandleTimeout
  <1> HIDE DEF v, q
  <1>5. CASE NoViewChange(n, q) /\ UNCHANGED <<curView, timeouts, task, timers, asked, ballots>>
    BY <1>1, <1>3, <1>5, QueueType DEF ViewSyncTypeOK
  <1>6. ASSUME timeouts' = [timeouts EXCEPT ![n] = @ + 1]
        PROVE  timeouts' \in [Live -> Nat]
    BY <1>6 DEF ViewSyncTypeOK
  <1>7. ASSUME timeouts' = [timeouts EXCEPT ![n] = @ + 1], FirstTimeout(n, v)
        PROVE  ViewSyncTypeOK'
    <2>1. curView' \in [Live -> Rounds]
      BY <1>7, <1>2 DEF FirstTimeout, ViewSyncTypeOK
    <2>2. BroadcastViewChange(n, v + 1, q)
      BY <1>7, Zenon DEF FirstTimeout, q
    <2>3. queue' \in [Live -> Seq(Event)] /\ pendingView' \in [Live -> Rounds]
      BY <2>2, <1>1, <1>2, BroadcastType
    <2>4. UNCHANGED <<task, timers, asked, ballots>>
      BY <1>7 DEF FirstTimeout
    <2> QED BY <2>1, <2>3, <2>4, <1>3, <1>6, <1>7 DEF ViewSyncTypeOK
  <1>8. ASSUME timeouts' = [timeouts EXCEPT ![n] = @ + 1], RepeatedTimeout(n, v)
        PROVE  ViewSyncTypeOK'
    <2> DEFINE r == v + 1
               t == ReplicaOf(n, r)
               timer == {[round |-> r, relay |-> t.relay]}
    <2>1. Trigger(n, r) /\ NoViewChange(n, q) /\ UNCHANGED curView
      BY <1>8, Zenon DEF RepeatedTimeout, q
    <2>2. /\ Send("PreCommit", r, 0, n)
          /\ task' = [task EXCEPT ![n][r] = [t EXCEPT !.timer = timer]]
          /\ timers' = [timers EXCEPT ![n] = @ \cup timer]
          /\ asked' = [asked EXCEPT ![n] = @ \cup {r}]
      BY <2>1, Zenon DEF Trigger
    <2>3. r \in Rounds
      BY <1>2
    <2> HIDE DEF r
    <2>4. t \in TaskState /\ t.relay \in Relays
      BY <2>3, ReplicaType
    <2> HIDE DEF t
    <2>5. timer \subseteq Timer
      BY <2>3, <2>4 DEF Timer
    <2>6. [t EXCEPT !.timer = timer] \in TaskState
      BY <2>3, <2>4 DEF TaskState, Timer
    <2> HIDE DEF timer
    <2>7. task' \in [Live -> [Rounds -> TaskState]]
      BY <2>2, <2>3, <2>6, TaskUpdate
    <2>8. timers' \in [Live -> SUBSET Timer]
      BY <2>2, <2>5 DEF ViewSyncTypeOK
    <2>9. asked' \in [Live -> SUBSET Rounds]
      BY <2>2, <2>3 DEF ViewSyncTypeOK
    <2>10. ballots' \subseteq Votes
      BY <2>2, <2>3, SendType, BoundAssumption DEF Phases, Relays
    <2>11. queue' \in [Live -> Seq(Event)] /\ pendingView' \in [Live -> Rounds]
      BY <2>1, <1>1, QueueType
    <2>12. curView' \in [Live -> Rounds]
      BY <2>1 DEF ViewSyncTypeOK
    <2> QED BY <2>7, <2>8, <2>9, <2>10, <2>11, <2>12, <1>3, <1>6, <1>8, Zenon DEF ViewSyncTypeOK
  <1> QED BY <1>4, <1>5, <1>7, <1>8, Zenon

\* A view change: the garbage collection only removes, and a view above the
\* current one has a predecessor.
LEMMA HandleViewChangeType ==
  ASSUME ViewSyncTypeOK, NEW n \in Live, HandleViewChange(n)
  PROVE  ViewSyncTypeOK'
  <1> DEFINE v == Head(queue[n]).view
             gone == collected[n] .. v - 1
  <1>1. Tail(queue[n]) \in Seq(Event) /\ v \in Rounds
    BY FirstEvent, EventFields DEF HandleViewChange
  <1>2. queue' \in [Live -> Seq(Event)] /\ pendingView' \in [Live -> Rounds]
    BY <1>1, QueueType, Zenon DEF HandleViewChange
  <1>3. /\ consView' \in [Live -> Rounds] /\ armed' \in [Live -> BOOLEAN]
        /\ timers' \in [Live -> SUBSET Timer] /\ asked' \in [Live -> SUBSET Rounds]
        /\ ballots' \subseteq Votes /\ unread' \in [Live -> SUBSET Certs]
    BY DEF HandleViewChange, ViewSyncTypeOK
  <1>4. \/ UNCHANGED <<curView, timeouts, task, relayMap, collected>>
        \/ /\ curView[n] < v
           /\ curView' = [curView EXCEPT ![n] = v]
           /\ timeouts' = [timeouts EXCEPT ![n] = 0]
           /\ task' = [task EXCEPT ![n] = [r \in Rounds |->
                         IF r \in gone THEN NoTask ELSE task[n][r]]]
           /\ DropRelays(n, gone)
           /\ collected' = [collected EXCEPT ![n] = v - 1]
    BY DEF HandleViewChange, ViewSyncTypeOK
  <1> HIDE DEF gone, v
  <1>5. CASE UNCHANGED <<curView, timeouts, task, relayMap, collected>>
    BY <1>2, <1>3, <1>5 DEF ViewSyncTypeOK
  <1>6. CASE /\ curView[n] < v
             /\ curView' = [curView EXCEPT ![n] = v]
             /\ timeouts' = [timeouts EXCEPT ![n] = 0]
             /\ task' = [task EXCEPT ![n] = [r \in Rounds |->
                           IF r \in gone THEN NoTask ELSE task[n][r]]]
             /\ DropRelays(n, gone)
             /\ collected' = [collected EXCEPT ![n] = v - 1]
    <2>1. curView' \in [Live -> Rounds] /\ timeouts' \in [Live -> Nat]
      BY <1>1, <1>6 DEF ViewSyncTypeOK
    <2>2. [r \in Rounds |-> IF r \in gone THEN NoTask ELSE task[n][r]] \in [Rounds -> TaskState]
      BY NoTaskType DEF ViewSyncTypeOK
    <2>3. task' \in [Live -> [Rounds -> TaskState]]
      BY <1>6, <2>2 DEF ViewSyncTypeOK
    <2>4. v - 1 \in Rounds
      BY <1>1, <1>6, BoundAssumption DEF ViewSyncTypeOK, Rounds
    <2>5. collected' \in [Live -> Rounds]
      BY <1>6, <2>4 DEF ViewSyncTypeOK
    <2>6. relayMap' \in [Certs -> SUBSET Node]
      BY <1>6 DEF ViewSyncTypeOK, DropRelays
    <2> QED BY <2>1, <2>3, <2>5, <2>6, <1>2, <1>3, Zenon DEF ViewSyncTypeOK
  <1> QED BY <1>4, <1>5, <1>6, Zenon

\* The replica task moves to the next relay, which is within the bound.
LEMMA HandleViewSyncTimeoutType ==
  ASSUME ViewSyncTypeOK, NEW n \in Live, HandleViewSyncTimeout(n)
  PROVE  ViewSyncTypeOK'
  <1> DEFINE r == Head(queue[n]).round
             k == Head(queue[n]).relay
  <1>1. Tail(queue[n]) \in Seq(Event) /\ r \in Rounds /\ k \in 0 .. MaxRelay - 1
    BY FirstEvent, EventFields DEF HandleViewSyncTimeout
  <1>2. queue' \in [Live -> Seq(Event)] /\ pendingView' \in [Live -> Rounds]
    BY <1>1, QueueType, Zenon DEF HandleViewSyncTimeout
  <1>3. /\ consView' \in [Live -> Rounds] /\ armed' \in [Live -> BOOLEAN]
        /\ curView' \in [Live -> Rounds] /\ timeouts' \in [Live -> Nat]
        /\ collected' \in [Live -> Rounds] /\ asked' \in [Live -> SUBSET Rounds]
        /\ relayMap' \in [Certs -> SUBSET Node] /\ unread' \in [Live -> SUBSET Certs]
    BY DEF HandleViewSyncTimeout, ViewSyncTypeOK
  <1>4. \/ UNCHANGED <<task, timers, ballots>>
        \/ task' = [task EXCEPT ![n][r] = ReplicaOf(n, r)] /\ UNCHANGED <<timers, ballots>>
        \/ Send("PreCommit", r, k + 1, n) /\ Restarted(n, r, k + 1)
    BY Zenon DEF HandleViewSyncTimeout
  <1>5. k + 1 \in Relays
    BY <1>1, BoundAssumption DEF Relays
  <1> HIDE DEF r, k
  <1>6. CASE UNCHANGED <<task, timers, ballots>>
    BY <1>2, <1>3, <1>6 DEF ViewSyncTypeOK
  <1>7. CASE task' = [task EXCEPT ![n][r] = ReplicaOf(n, r)] /\ UNCHANGED <<timers, ballots>>
    <2>1. task' \in [Live -> [Rounds -> TaskState]]
      BY <1>1, <1>7, ReplicaType, TaskUpdate
    <2> QED BY <1>2, <1>3, <1>7, <2>1 DEF ViewSyncTypeOK
  <1>8. CASE Send("PreCommit", r, k + 1, n) /\ Restarted(n, r, k + 1)
    <2>1. ballots' \subseteq Votes
      BY <1>1, <1>5, <1>8, SendType DEF Phases
    <2>2. task' \in [Live -> [Rounds -> TaskState]] /\ timers' \in [Live -> SUBSET Timer]
      BY <1>1, <1>5, <1>8, RestartedType
    <2> QED BY <1>2, <1>3, <2>1, <2>2, Zenon DEF ViewSyncTypeOK
  <1> QED BY <1>4, <1>6, <1>7, <1>8, Zenon

\* What every handler of a certificate leaves alone or only removes from.
LEMMA ReceivesType ==
  ASSUME ViewSyncTypeOK, NEW n \in Live, NEW c \in unread[n], NEW p, Receives(n, c, p)
  PROVE  /\ consView' \in [Live -> Rounds] /\ armed' \in [Live -> BOOLEAN]
         /\ curView' \in [Live -> Rounds] /\ timeouts' \in [Live -> Nat]
         /\ collected' \in [Live -> Rounds] /\ asked' \in [Live -> SUBSET Rounds]
         /\ relayMap' \in [Certs -> SUBSET Node] /\ unread' \in [Live -> SUBSET Certs]
  <1>1. unread' \in [Live -> SUBSET Certs]
    BY DEF Receives, ViewSyncTypeOK
  <1> QED BY <1>1 DEF Receives, ViewSyncTypeOK

\* The fields of a certificate on its way to a node, and the relay its replica
\* task then is on.
LEMMA CertFields ==
  ASSUME ViewSyncTypeOK, NEW n \in Live, NEW c \in unread[n]
  PROVE  /\ c \in Certs /\ c.round \in Rounds /\ c.relay \in Relays
         /\ Larger(ReplicaOf(n, c.round).relay, c.relay) \in Relays
  <1>1. c \in Certs
    BY DEF ViewSyncTypeOK
  <1>2. c.round \in Rounds /\ c.relay \in Relays
    BY <1>1 DEF Certs
  <1>3. ReplicaOf(n, c.round).relay \in Relays
    BY <1>2, ReplicaType
  <1> QED BY <1>1, <1>2, <1>3, Zenon DEF Larger

\* A certificate of any phase, old or not.
LEMMA RecvType ==
  ASSUME ViewSyncTypeOK, NEW n \in Live,
         RecvOld(n) \/ RecvPreCommit(n) \/ RecvCommit(n) \/ RecvFinalize(n)
  PROVE  ViewSyncTypeOK'
  <1> DEFINE NextRelay(c) == Larger(ReplicaOf(n, c.round).relay, c.relay)
  <1>1. CASE RecvOld(n)
    <2>1. PICK c \in unread[n] :
            Receives(n, c, c.phase) /\ UNCHANGED <<pendingView, queue, task, timers, ballots>>
      BY <1>1 DEF RecvOld
    <2> QED BY <2>1, ReceivesType DEF ViewSyncTypeOK
  <1>2. CASE RecvPreCommit(n)
    <2>1. PICK c \in unread[n] :
            /\ Receives(n, c, "PreCommit") /\ Send("Commit", c.round, c.relay, n)
            /\ Restarted(n, c.round, NextRelay(c)) /\ UNCHANGED <<pendingView, queue>>
      BY <1>2, Zenon DEF RecvPreCommit
    <2>2. c.round \in Rounds /\ c.relay \in Relays /\ NextRelay(c) \in Relays
      BY CertFields
    <2> HIDE DEF NextRelay
    <2>3. ballots' \subseteq Votes
      BY <2>1, <2>2, SendType DEF Phases
    <2>4. task' \in [Live -> [Rounds -> TaskState]] /\ timers' \in [Live -> SUBSET Timer]
      BY <2>1, <2>2, RestartedType
    <2> QED BY <2>1, <2>3, <2>4, ReceivesType DEF ViewSyncTypeOK
  <1>3. CASE RecvCommit(n)
    <2>1. PICK c \in unread[n] :
            /\ Receives(n, c, "Commit") /\ Send("Finalize", c.round, c.relay, n)
            /\ BroadcastViewChange(n, c.round, queue[n])
            /\ Restarted(n, c.round, NextRelay(c))
      BY <1>3, Zenon DEF RecvCommit
    <2>2. c.round \in Rounds /\ c.relay \in Relays /\ NextRelay(c) \in Relays
      BY CertFields
    <2> HIDE DEF NextRelay
    <2>3. ballots' \subseteq Votes
      BY <2>1, <2>2, SendType DEF Phases
    <2>4. task' \in [Live -> [Rounds -> TaskState]] /\ timers' \in [Live -> SUBSET Timer]
      BY <2>1, <2>2, RestartedType
    <2>5. queue[n] \in Seq(Event)
      BY DEF ViewSyncTypeOK
    <2>6. queue' \in [Live -> Seq(Event)] /\ pendingView' \in [Live -> Rounds]
      BY <2>1, <2>2, <2>5, BroadcastType
    <2> QED BY <2>1, <2>3, <2>4, <2>6, ReceivesType DEF ViewSyncTypeOK
  <1>4. CASE RecvFinalize(n)
    <2>1. PICK c \in unread[n] :
            /\ Receives(n, c, "Finalize") /\ BroadcastViewChange(n, c.round, queue[n])
            /\ task' = [task EXCEPT ![n][c.round] = NoTask]
            /\ timers' = [timers EXCEPT ![n] = @ \ task[n][c.round].timer]
            /\ UNCHANGED ballots
      BY <1>4, Zenon DEF RecvFinalize
    <2>2. c.round \in Rounds
      BY CertFields
    <2>3. task' \in [Live -> [Rounds -> TaskState]]
      BY <2>1, <2>2, NoTaskType, TaskUpdate
    <2>4. timers' \in [Live -> SUBSET Timer]
      BY <2>1 DEF ViewSyncTypeOK
    <2>5. queue[n] \in Seq(Event)
      BY DEF ViewSyncTypeOK
    <2>6. queue' \in [Live -> Seq(Event)] /\ pendingView' \in [Live -> Rounds]
      BY <2>1, <2>2, <2>5, BroadcastType
    <2> QED BY <2>1, <2>3, <2>4, <2>6, ReceivesType DEF ViewSyncTypeOK
  <1> QED BY <1>1, <1>2, <1>3, <1>4

\* A vote at its relay: it joins the accumulator or completes a certificate.
LEMMA CollectVoteType ==
  ASSUME ViewSyncTypeOK, NEW v \in ballots, CollectVote(v)
  PROVE  ViewSyncTypeOK'
  <1> DEFINE x == [phase |-> v.phase, round |-> v.round, relay |-> v.relay]
             voters == relayMap[x] \cup {v.voter}
             Same(y) == /\ y.phase = v.phase /\ y.round = v.round
                        /\ Leader[y.round + y.relay] = Leader[v.round + v.relay]
  <1>1. v \in Votes
    BY DEF ViewSyncTypeOK
  <1>2. x \in Certs /\ v.voter \in Node
    BY <1>1 DEF Votes, Certs
  <1>3. voters \subseteq Node
    BY <1>2 DEF ViewSyncTypeOK
  <1>4. ballots' \subseteq Votes
    BY DEF CollectVote, ViewSyncTypeOK
  <1>5. \/ /\ unread' = [n \in Live |-> unread[n] \cup {x}]
           /\ relayMap' = [y \in Certs |-> IF Same(y) THEN {} ELSE relayMap[y]]
        \/ relayMap' = [relayMap EXCEPT ![x] = voters] /\ UNCHANGED unread
    BY Zenon DEF CollectVote
  <1> HIDE DEF x, voters, Same
  <1>6. relayMap' \in [Certs -> SUBSET Node] /\ unread' \in [Live -> SUBSET Certs]
    <2>1. CASE /\ unread' = [n \in Live |-> unread[n] \cup {x}]
               /\ relayMap' = [y \in Certs |-> IF Same(y) THEN {} ELSE relayMap[y]]
      BY <2>1, <1>2 DEF ViewSyncTypeOK
    <2>2. CASE relayMap' = [relayMap EXCEPT ![x] = voters] /\ UNCHANGED unread
      BY <2>2, <1>2, <1>3 DEF ViewSyncTypeOK
    <2> QED BY <1>5, <2>1, <2>2, Zenon
  <1>7. UNCHANGED nodeVars
    BY DEF CollectVote
  <1> QED BY <1>4, <1>6, <1>7 DEF ViewSyncTypeOK, nodeVars

\* Every step keeps the types.
LEMMA StepType == ViewSyncTypeOK /\ [Next]_vars => ViewSyncTypeOK'
  <1> SUFFICES ASSUME ViewSyncTypeOK, [Next]_vars PROVE ViewSyncTypeOK'
    OBVIOUS
  <1>1. ASSUME NEW n \in Live, TaskStep(n) PROVE ViewSyncTypeOK'
    BY <1>1, EnterViewType, HandleTimeoutType, HandleViewChangeType, HandleViewSyncTimeoutType,
       Zenon DEF TaskStep
  <1>2. ASSUME NEW n \in Live, OutsideStep(n) PROVE ViewSyncTypeOK'
    BY <1>2, ViewTimerType, ReplicaTimerType, RecvType, Zenon DEF OutsideStep
  <1>3. ASSUME NEW v \in ballots, CollectVote(v) PROVE ViewSyncTypeOK'
    BY <1>3, CollectVoteType, Zenon
  <1>4. CASE UNCHANGED vars
    BY <1>4 DEF vars, nodeVars, ViewSyncTypeOK
  <1> QED BY <1>1, <1>2, <1>3, <1>4, Zenon DEF Next, RelayStep

\* Type correctness of view sync (view_sync.rs), for every committee, bound
\* and set of starting views.
THEOREM ViewSyncTypeCorrect == Spec => []ViewSyncTypeOK
  BY InitType, StepType, PTL DEF Spec

-----------------------------------------------------------------------------
\* No round is certified that no honest node asked for.

\* An honest node has asked for round r after two timeouts in a row.
Asked(r) == \E m \in Live : r \in asked[m]

\* The events that do not speak of a round nobody asked for.
AskedEvent == {e \in Event : e.type = "ViewSyncTimeout" => Asked(e.round)}

CertsAsked == \A n \in Live : \A c \in unread[n] : Asked(c.round)
BallotsAsked == \A v \in ballots : v.voter \in Faulty \/ Asked(v.round)
RelaysAsked == \A x \in Certs : \A m \in relayMap[x] : m \in Faulty \/ Asked(x.round)
TimersAsked == \A n \in Live : \A t \in timers[n] : Asked(t.round)
QueuesAsked == \A n \in Live : queue[n] \in Seq(AskedEvent)

\* Inductive: everything by which a round spreads (a certificate, the vote of
\* a member that is not faulty, on its way or counted, a replica timer, the
\* event of one) is about a round that an honest node asked for.
Origin == CertsAsked /\ BallotsAsked /\ RelaysAsked /\ TimersAsked /\ QueuesAsked

AskedGrows == \A r : Asked(r) => Asked(r)'

\* A queue over a set of events is one over any larger set.
LEMMA SeqLarger ==
  ASSUME NEW S, NEW T, S \subseteq T
  PROVE  Seq(S) \subseteq Seq(T)
  OBVIOUS

\* No step takes back that a round was asked for.
LEMMA AskedStays ==
  ASSUME ViewSyncTypeOK, [Next]_vars
  PROVE  AskedGrows
  <1>1. \A m \in Live : asked[m] \subseteq asked'[m]
    <2>1. CASE UNCHANGED asked
      BY <2>1
    <2>2. ASSUME NEW n \in Live, NEW r, Trigger(n, r) PROVE \A m \in Live : asked[m] \subseteq asked'[m]
      BY <2>2 DEF Trigger, ViewSyncTypeOK
    <2>3. UNCHANGED asked \/ \E n \in Live : \E r : Trigger(n, r)
      <3>1. ASSUME NEW n \in Live, OutsideStep(n) PROVE UNCHANGED asked
        BY <3>1, Zenon DEF OutsideStep, ViewTimerFires, ReplicaTimerFires, RecvOld, RecvPreCommit,
           RecvCommit, RecvFinalize, Receives
      <3>2. ASSUME NEW n \in Live, TaskStep(n) PROVE UNCHANGED asked \/ \E r : Trigger(n, r)
        BY <3>2, Zenon DEF TaskStep, EnterView, HandleTimeout, FirstTimeout, RepeatedTimeout,
           HandleViewChange, HandleViewSyncTimeout
      <3>3. RelayStep \/ UNCHANGED vars => UNCHANGED asked
        BY Zenon DEF RelayStep, CollectVote, vars, nodeVars
      <3> QED BY <3>1, <3>2, <3>3, Zenon DEF Next
    <2> QED BY <2>1, <2>2, <2>3, Zenon
  <1> QED BY <1>1 DEF Asked, AskedGrows

\* What keeps each part of Origin: nothing new, or only what was asked for.
LEMMA OriginKept ==
  ASSUME AskedGrows
  PROVE  /\ CertsAsked /\ (\A n \in Live : unread'[n] \subseteq unread[n]) => CertsAsked'
         /\ BallotsAsked /\ ballots' \subseteq ballots => BallotsAsked'
         /\ RelaysAsked /\ (\A x \in Certs : relayMap'[x] \subseteq relayMap[x]) => RelaysAsked'
         /\ TimersAsked /\ (\A n \in Live : timers'[n] \subseteq timers[n]) => TimersAsked'
         /\ QueuesAsked /\ UNCHANGED queue => QueuesAsked'
         /\ AskedEvent \subseteq AskedEvent'
  <1>1. AskedEvent \subseteq AskedEvent'
    BY DEF AskedEvent, AskedGrows
  <1>2. Seq(AskedEvent) \subseteq Seq(AskedEvent')
    BY <1>1, SeqLarger
  <1>3. QueuesAsked /\ UNCHANGED queue => QueuesAsked'
    BY <1>2 DEF QueuesAsked
  <1>4. CertsAsked /\ (\A n \in Live : unread'[n] \subseteq unread[n]) => CertsAsked'
    BY Zenon DEF CertsAsked, AskedGrows
  <1>5. BallotsAsked /\ ballots' \subseteq ballots => BallotsAsked'
    BY Zenon DEF BallotsAsked, AskedGrows
  <1>6. RelaysAsked /\ (\A x \in Certs : relayMap'[x] \subseteq relayMap[x]) => RelaysAsked'
    BY Zenon DEF RelaysAsked, AskedGrows
  <1>7. TimersAsked /\ (\A n \in Live : timers'[n] \subseteq timers[n]) => TimersAsked'
    BY Zenon DEF TimersAsked, AskedGrows
  <1> QED BY <1>1, <1>3, <1>4, <1>5, <1>6, <1>7, Zenon

\* A vote for a round that was asked for keeps the votes in order.
LEMMA SendAsked ==
  ASSUME BallotsAsked, AskedGrows,
         NEW n \in Live, NEW p, NEW r, NEW k, Send(p, r, k, n), Asked(r)'
  PROVE  BallotsAsked'
  <1>1. Vote(p, r, k, n).round = r
    BY DEF Vote
  <1> QED BY <1>1, Zenon DEF BallotsAsked, Send, AskedGrows

\* A replica task that restarts spawns a timer of its own round.
LEMMA RestartedAsked ==
  ASSUME ViewSyncTypeOK, TimersAsked, AskedGrows,
         NEW n \in Live, NEW r, NEW k, Restarted(n, r, k), Asked(r)'
  PROVE  TimersAsked'
  <1> DEFINE timer == [round |-> r, relay |-> k]
  <1>1. \A m \in Live : \A t \in timers'[m] : t \in timers[m] \/ t = timer
    BY DEF Restarted, ViewSyncTypeOK
  <1>2. timer.round = r
    OBVIOUS
  <1> HIDE DEF timer
  <1> QED BY <1>1, <1>2, Zenon DEF TimersAsked, AskedGrows

\* An event that is not about a round nobody asked for may join a queue.
LEMMA QueueAsked ==
  ASSUME ViewSyncTypeOK, QueuesAsked, AskedGrows,
         NEW n \in Live, NEW q \in Seq(AskedEvent'), queue' = [queue EXCEPT ![n] = q]
  PROVE  QueuesAsked'
  <1>1. Seq(AskedEvent) \subseteq Seq(AskedEvent')
    BY OriginKept, SeqLarger, Zenon
  <1>2. queue \in [Live -> Seq(Event)]
    BY DEF ViewSyncTypeOK
  <1> QED BY <1>1, <1>2 DEF QueuesAsked

\* The queue of a node, and what is left of it when its first event is taken.
LEMMA QueueParts ==
  ASSUME QueuesAsked, AskedGrows, NEW n \in Live
  PROVE  /\ queue[n] \in Seq(AskedEvent')
         /\ queue[n] # <<>> => Head(queue[n]) \in AskedEvent /\ Tail(queue[n]) \in Seq(AskedEvent')
  <1>1. queue[n] \in Seq(AskedEvent)
    BY DEF QueuesAsked
  <1>2. Seq(AskedEvent) \subseteq Seq(AskedEvent')
    BY OriginKept, SeqLarger, Zenon
  <1>3. queue[n] # <<>> => Head(queue[n]) \in AskedEvent /\ Tail(queue[n]) \in Seq(AskedEvent)
    BY <1>1, HeadTail
  <1> QED BY <1>1, <1>2, <1>3, Zenon

\* A view change or a view timeout is about no round.
LEMMA PlainEvents ==
  /\ \A v \in 0 .. MaxView : Timeout(v) \in AskedEvent'
  /\ \A v \in Rounds : ViewChange(v) \in AskedEvent'
  <1>1. /\ \A v : Timeout(v).type # "ViewSyncTimeout"
        /\ \A v : ViewChange(v).type # "ViewSyncTimeout"
    BY DEF Timeout, ViewChange
  <1>2. \A e \in Event : e.type # "ViewSyncTimeout" => e \in AskedEvent'
    BY Zenon DEF AskedEvent
  <1> QED BY <1>1, <1>2, EventsMade, Zenon

\* Nothing was asked for at the start, and the faulty members' votes are theirs.
LEMMA InitOrigin == Init => Origin
  <1> SUFFICES ASSUME Init PROVE Origin
    OBVIOUS
  <1>1. CertsAsked /\ RelaysAsked /\ TimersAsked
    BY DEF Init, CertsAsked, RelaysAsked, TimersAsked
  <1>2. BallotsAsked
    BY BoundAssumption DEF Init, BallotsAsked
  <1>3. QueuesAsked
    BY DEF Init, QueuesAsked
  <1> QED BY <1>1, <1>2, <1>3 DEF Origin

\* A timeout only makes the node ask for the round it triggers.
LEMMA HandleTimeoutOrigin ==
  ASSUME ViewSyncTypeOK, Origin, AskedGrows, NEW n \in Live, HandleTimeout(n)
  PROVE  Origin'
  <1> DEFINE v == Head(queue[n]).view
             q == Tail(queue[n])
  <1> USE DEF Origin
  <1>1. q \in Seq(AskedEvent') /\ v \in 0 .. MaxView
    BY QueueParts, FirstEvent, EventFields, Zenon DEF HandleTimeout
  <1>2. CertsAsked' /\ RelaysAsked'
    BY OriginKept DEF HandleTimeout
  <1>3. \/ NoViewChange(n, q) /\ UNCHANGED <<timers, ballots>>
        \/ FirstTimeout(n, v) \/ RepeatedTimeout(n, v)
    BY Zenon DEF HandleTimeout
  <1> HIDE DEF v, q
  <1>4. ASSUME NoViewChange(n, q) PROVE QueuesAsked'
    BY <1>1, <1>4, QueueAsked, Zenon DEF NoViewChange
  <1>5. CASE NoViewChange(n, q) /\ UNCHANGED <<timers, ballots>>
    BY <1>2, <1>4, <1>5, OriginKept
  <1>6. CASE FirstTimeout(n, v)
    <2>1. v + 1 \in Rounds
      BY <1>1, BoundAssumption DEF Rounds
    <2>2. Append(q, ViewChange(v + 1)) \in Seq(AskedEvent')
      BY <2>1, <1>1, PlainEvents, AppendIn
    <2>3. QueuesAsked'
      BY <2>2, <1>6, QueueAsked, Zenon DEF FirstTimeout, BroadcastViewChange, q
    <2>4. TimersAsked' /\ BallotsAsked'
      BY <1>6, OriginKept DEF FirstTimeout
    <2> QED BY <1>2, <2>3, <2>4
  <1>7. CASE RepeatedTimeout(n, v)
    <2> PICK r \in Rounds : r = v + 1
      BY <1>1, BoundAssumption DEF Rounds
    <2>0. PICK timer : timer = [round |-> r, relay |-> ReplicaOf(n, r).relay]
      BY Zenon
    <2>1. /\ NoViewChange(n, q) /\ Send("PreCommit", r, 0, n)
          /\ timers' = [timers EXCEPT ![n] = @ \cup {timer}]
          /\ asked' = [asked EXCEPT ![n] = @ \cup {r}]
      BY <1>7, <2>0, Zenon DEF RepeatedTimeout, Trigger, q
    <2>2. timer.round = r
      BY <2>0
    <2>3. Asked(r)'
      BY <2>1 DEF Asked, ViewSyncTypeOK
    <2>4. BallotsAsked'
      BY <2>1, <2>3, SendAsked, Zenon
    <2>5. \A m \in Live : \A t \in timers'[m] : t \in timers[m] \/ t = timer
      BY <2>1 DEF ViewSyncTypeOK
    <2>6. TimersAsked'
      BY <2>2, <2>3, <2>5, Zenon DEF TimersAsked, AskedGrows
    <2> QED BY <1>2, <1>4, <2>1, <2>4, <2>6
  <1> QED BY <1>3, <1>5, <1>6, <1>7, Zenon

\* The event of a replica timer is about a round that was asked for, and so
\* are the vote and the timer that follow from it.
LEMMA HandleViewSyncTimeoutOrigin ==
  ASSUME ViewSyncTypeOK, Origin, AskedGrows, NEW n \in Live, HandleViewSyncTimeout(n)
  PROVE  Origin'
  <1> DEFINE k == Head(queue[n]).relay
             q == Tail(queue[n])
  <1>0. PICK r : r = Head(queue[n]).round
    OBVIOUS
  <1> USE DEF Origin
  <1>1. q \in Seq(AskedEvent') /\ Head(queue[n]) \in AskedEvent
    BY QueueParts, Zenon DEF HandleViewSyncTimeout
  <1>2. Asked(r)
    BY <1>0, <1>1 DEF HandleViewSyncTimeout, AskedEvent
  <1>3. CertsAsked' /\ RelaysAsked'
    BY OriginKept DEF HandleViewSyncTimeout
  <1>4. \/ UNCHANGED <<timers, ballots>>
        \/ Send("PreCommit", r, k + 1, n) /\ Restarted(n, r, k + 1)
    BY <1>0, Zenon DEF HandleViewSyncTimeout
  <1>5. NoViewChange(n, q)
    BY Zenon DEF HandleViewSyncTimeout
  <1> HIDE DEF k, q
  <1>6. QueuesAsked'
    BY <1>1, <1>5, QueueAsked, Zenon DEF NoViewChange
  <1>7. Asked(r)'
    BY <1>2, Zenon DEF AskedGrows
  <1>8. CASE UNCHANGED <<timers, ballots>>
    BY <1>3, <1>6, <1>8, OriginKept
  <1>9. CASE Send("PreCommit", r, k + 1, n) /\ Restarted(n, r, k + 1)
    BY <1>3, <1>6, <1>7, <1>9, SendAsked, RestartedAsked, Zenon
  <1> QED BY <1>4, <1>8, <1>9, Zenon

\* The garbage collection of a view change only removes votes.
LEMMA ViewChangeDrops ==
  ASSUME ViewSyncTypeOK, NEW n \in Live, HandleViewChange(n)
  PROVE  \A x \in Certs : relayMap'[x] \subseteq relayMap[x]
  <1>1. ASSUME NEW gone, DropRelays(n, gone)
        PROVE  \A x \in Certs : relayMap'[x] \subseteq relayMap[x]
    BY <1>1 DEF DropRelays, ViewSyncTypeOK
  <1>2. UNCHANGED relayMap \/ \E gone : DropRelays(n, gone)
    BY Zenon DEF HandleViewChange
  <1>3. CASE UNCHANGED relayMap
    BY <1>3
  <1> QED BY <1>1, <1>2, <1>3, Zenon

\* The consensus task, the timers and a view change spread no new round.
LEMMA LocalOrigin ==
  ASSUME ViewSyncTypeOK, Origin, AskedGrows, NEW n \in Live,
         EnterView(n) \/ ViewTimerFires(n) \/ ReplicaTimerFires(n) \/ HandleViewChange(n)
  PROVE  Origin'
  <1> USE DEF Origin
  <1>1. CASE EnterView(n)
    <2>1. UNCHANGED <<timers, queue, ballots, relayMap, unread>>
      BY <1>1, Zenon DEF EnterView
    <2> QED BY <2>1, OriginKept
  <1>2. CASE ViewTimerFires(n)
    <2>1. consView[n] \in 0 .. MaxView
      BY <1>2, BoundAssumption DEF ViewSyncTypeOK, ViewTimerFires, Rounds
    <2>2. Append(queue[n], Timeout(consView[n])) \in Seq(AskedEvent')
      BY <2>1, PlainEvents, QueueParts, AppendIn
    <2>3. queue' = [queue EXCEPT ![n] = Append(queue[n], Timeout(consView[n]))]
      BY <1>2 DEF ViewTimerFires, ViewSyncTypeOK
    <2>4. QueuesAsked'
      BY <2>2, <2>3, QueueAsked, Zenon
    <2> QED BY <1>2, <2>4, OriginKept DEF ViewTimerFires
  <1>3. CASE ReplicaTimerFires(n)
    <2>1. PICK t \in timers[n] :
            /\ t.relay < MaxRelay
            /\ timers' = [timers EXCEPT ![n] = @ \ {t}]
            /\ queue' = [queue EXCEPT ![n] = Append(@, ViewSyncTimeout(t.round, t.relay))]
            /\ UNCHANGED <<ballots, relayMap, unread>>
      BY <1>3, Zenon DEF ReplicaTimerFires
    <2>2. t.round \in Rounds /\ t.relay \in 0 .. MaxRelay - 1
      BY <2>1, BoundAssumption DEF ViewSyncTypeOK, Timer, Relays
    <2>3. Asked(t.round)'
      BY Zenon DEF TimersAsked, AskedGrows
    <2>4. ViewSyncTimeout(t.round, t.relay).round = t.round
      BY DEF ViewSyncTimeout
    <2>5. ViewSyncTimeout(t.round, t.relay) \in AskedEvent'
      BY <2>2, <2>3, <2>4, EventsMade, Zenon DEF AskedEvent
    <2>6. Append(queue[n], ViewSyncTimeout(t.round, t.relay)) \in Seq(AskedEvent')
      BY <2>5, QueueParts, AppendIn
    <2>7. queue' = [queue EXCEPT ![n] = Append(queue[n], ViewSyncTimeout(t.round, t.relay))]
      BY <2>1 DEF ViewSyncTypeOK
    <2>8. QueuesAsked'
      BY <2>6, <2>7, QueueAsked, Zenon
    <2>9. \A m \in Live : timers'[m] \subseteq timers[m]
      BY <2>1 DEF ViewSyncTypeOK
    <2> QED BY <2>1, <2>8, <2>9, OriginKept
  <1>4. CASE HandleViewChange(n)
    <2>1. Tail(queue[n]) \in Seq(AskedEvent')
      BY <1>4, QueueParts DEF HandleViewChange
    <2>2. QueuesAsked'
      BY <1>4, <2>1, QueueAsked, Zenon DEF HandleViewChange, NoViewChange
    <2>3. \A x \in Certs : relayMap'[x] \subseteq relayMap[x]
      BY <1>4, ViewChangeDrops, Zenon
    <2>4. UNCHANGED <<timers, ballots, unread>>
      BY <1>4, Zenon DEF HandleViewChange
    <2> QED BY <2>2, <2>3, <2>4, OriginKept
  <1> QED BY <1>1, <1>2, <1>3, <1>4

\* A node votes, restarts its timer and changes its view for the round of a
\* certificate it got.
LEMMA RecvOrigin ==
  ASSUME ViewSyncTypeOK, Origin, AskedGrows, NEW n \in Live,
         RecvOld(n) \/ RecvPreCommit(n) \/ RecvCommit(n) \/ RecvFinalize(n)
  PROVE  Origin'
  <1> USE DEF Origin
  <1>1. ASSUME NEW c \in unread[n], NEW p, Receives(n, c, p)
        PROVE  CertsAsked' /\ RelaysAsked' /\ Asked(c.round)' /\ c.round \in Rounds
    <2>1. \A m \in Live : unread'[m] \subseteq unread[m]
      BY <1>1 DEF Receives, ViewSyncTypeOK
    <2>2. RelaysAsked'
      BY <1>1, OriginKept DEF Receives
    <2>3. Asked(c.round)'
      BY Zenon DEF CertsAsked, AskedGrows
    <2> QED BY <2>1, <2>2, <2>3, OriginKept, CertFields, Zenon
  <1>2. ASSUME NEW c \in unread[n], c.round \in Rounds, BroadcastViewChange(n, c.round, queue[n])
        PROVE  QueuesAsked'
    <2>1. Append(queue[n], ViewChange(c.round)) \in Seq(AskedEvent')
      BY <1>2, PlainEvents, QueueParts, AppendIn
    <2> QED BY <1>2, <2>1, QueueAsked, Zenon DEF BroadcastViewChange
  <1>3. CASE RecvOld(n)
    <2>1. PICK c \in unread[n] :
            Receives(n, c, c.phase) /\ UNCHANGED queue /\ UNCHANGED <<task, timers, ballots>>
      BY <1>3, Zenon DEF RecvOld
    <2> QED BY <1>1, <2>1, OriginKept, Zenon
  <1>4. CASE RecvPreCommit(n)
    <2>1. PICK c \in unread[n] :
            /\ Receives(n, c, "PreCommit") /\ Send("Commit", c.round, c.relay, n)
            /\ Restarted(n, c.round, Larger(ReplicaOf(n, c.round).relay, c.relay))
            /\ UNCHANGED queue
      BY <1>4, Zenon DEF RecvPreCommit
    <2>2. CertsAsked' /\ RelaysAsked' /\ Asked(c.round)'
      BY <1>1, <2>1, Zenon
    <2>3. BallotsAsked'
      BY <2>1, <2>2, SendAsked, Zenon
    <2>4. TimersAsked'
      BY <2>1, <2>2, RestartedAsked, Zenon
    <2> QED BY <2>1, <2>2, <2>3, <2>4, OriginKept
  <1>5. CASE RecvCommit(n)
    <2>1. PICK c \in unread[n] :
            /\ Receives(n, c, "Commit") /\ Send("Finalize", c.round, c.relay, n)
            /\ BroadcastViewChange(n, c.round, queue[n])
            /\ Restarted(n, c.round, Larger(ReplicaOf(n, c.round).relay, c.relay))
      BY <1>5, Zenon DEF RecvCommit
    <2>2. CertsAsked' /\ RelaysAsked' /\ Asked(c.round)' /\ c.round \in Rounds
      BY <1>1, <2>1, Zenon
    <2>3. BallotsAsked'
      BY <2>1, <2>2, SendAsked, Zenon
    <2>4. TimersAsked'
      BY <2>1, <2>2, RestartedAsked, Zenon
    <2> QED BY <1>2, <2>1, <2>2, <2>3, <2>4, Zenon
  <1>6. CASE RecvFinalize(n)
    <2>1. PICK c \in unread[n] :
            /\ Receives(n, c, "Finalize") /\ BroadcastViewChange(n, c.round, queue[n])
            /\ timers' = [timers EXCEPT ![n] = @ \ task[n][c.round].timer]
            /\ UNCHANGED ballots
      BY <1>6, Zenon DEF RecvFinalize
    <2>2. CertsAsked' /\ RelaysAsked' /\ c.round \in Rounds
      BY <1>1, <2>1, Zenon
    <2>3. \A m \in Live : timers'[m] \subseteq timers[m]
      BY <2>1 DEF ViewSyncTypeOK
    <2>4. TimersAsked' /\ BallotsAsked'
      BY <2>1, <2>3, OriginKept
    <2> QED BY <1>2, <2>1, <2>2, <2>4, Zenon
  <1> QED BY <1>3, <1>4, <1>5, <1>6

\* A certificate holds the vote of a member that is not faulty.
LEMMA CollectVoteOrigin ==
  ASSUME ViewSyncTypeOK, Origin, AskedGrows, NEW v \in ballots, CollectVote(v)
  PROVE  Origin'
  <1> USE DEF Origin
  <1>1. PICK x : x = [phase |-> v.phase, round |-> v.round, relay |-> v.relay]
    BY Zenon
  <1> DEFINE voters == relayMap[x] \cup {v.voter}
             Same(y) == /\ y.phase = v.phase /\ y.round = v.round
                        /\ Leader[y.round + y.relay] = Leader[v.round + v.relay]
  <1>2. x \in Certs /\ x.round = v.round
    BY <1>1 DEF ViewSyncTypeOK, Votes, Certs
  <1>3. \A m \in voters : m \in Faulty \/ Asked(x.round)
    BY <1>2, Zenon DEF RelaysAsked, BallotsAsked
  <1>4. \A m \in voters : m \in Faulty \/ Asked(x.round)'
    BY <1>3, Zenon DEF AskedGrows
  <1>5. \/ /\ Enough(v.phase, voters)
           /\ unread' = [n \in Live |-> unread[n] \cup {x}]
           /\ relayMap' = [y \in Certs |-> IF Same(y) THEN {} ELSE relayMap[y]]
        \/ relayMap' = [relayMap EXCEPT ![x] = voters] /\ UNCHANGED unread
    BY <1>1, Zenon DEF CollectVote
  <1>6. UNCHANGED <<timers, queue>> /\ ballots' = ballots \ {v}
    BY DEF CollectVote, nodeVars
  <1>7. BallotsAsked' /\ TimersAsked' /\ QueuesAsked'
    BY <1>6, OriginKept
  <1> HIDE DEF voters, Same
  <1>8. CASE /\ Enough(v.phase, voters)
             /\ unread' = [n \in Live |-> unread[n] \cup {x}]
             /\ relayMap' = [y \in Certs |-> IF Same(y) THEN {} ELSE relayMap[y]]
    <2>1. PICK S \in OneHonest \cup Quorum : S \subseteq voters
      BY <1>8 DEF Enough
    <2>2. \E m \in S : m \notin Faulty
      BY ThresholdAssumption
    <2>3. Asked(x.round)'
      BY <1>4, <2>1, <2>2, Zenon
    <2>4. \A n \in Live : \A c \in unread'[n] : c \in unread[n] \/ c = x
      BY <1>8
    <2>5. CertsAsked'
      BY <2>3, <2>4, Zenon DEF CertsAsked, AskedGrows
    <2>6. \A y \in Certs : relayMap'[y] \subseteq relayMap[y]
      BY <1>8
    <2> QED BY <1>7, <2>5, <2>6, OriginKept
  <1>9. CASE relayMap' = [relayMap EXCEPT ![x] = voters] /\ UNCHANGED unread
    <2>1. \A y \in Certs : \A m \in relayMap'[y] : m \in relayMap[y] \/ (y = x /\ m \in voters)
      BY <1>9, <1>2 DEF ViewSyncTypeOK
    <2>2. RelaysAsked'
      BY <2>1, <1>4, Zenon DEF RelaysAsked, AskedGrows
    <2> QED BY <1>7, <1>9, <2>2, OriginKept
  <1> QED BY <1>5, <1>8, <1>9, Zenon

\* Every step keeps the inductive invariant.
LEMMA StepOrigin == ViewSyncTypeOK /\ Origin /\ [Next]_vars => Origin'
  <1> SUFFICES ASSUME ViewSyncTypeOK, Origin, [Next]_vars PROVE Origin'
    OBVIOUS
  <1>1. AskedGrows
    BY AskedStays
  <1>2. ASSUME NEW n \in Live, TaskStep(n) \/ OutsideStep(n) PROVE Origin'
    BY <1>1, <1>2, LocalOrigin, HandleTimeoutOrigin, HandleViewSyncTimeoutOrigin, RecvOrigin, Zenon
       DEF TaskStep, OutsideStep
  <1>3. ASSUME NEW v \in ballots, CollectVote(v) PROVE Origin'
    BY <1>1, <1>3, CollectVoteOrigin, Zenon
  <1>4. CASE UNCHANGED vars
    BY <1>1, <1>4, OriginKept DEF vars, nodeVars, Origin
  <1> QED BY <1>2, <1>3, <1>4, Zenon DEF Next, RelayStep

\* Whatever the faulty members vote for, a view sync certificate that reaches
\* a node is for a round that an honest node asked for.  Without the invariant
\* on votes, timers and queued events the property is not inductive: a vote
\* is cast several steps before its certificate is made.
THEOREM CertificatesAreAskedFor == Spec => []AskedByHonest
  <1>1. Origin => AskedByHonest
    BY DEF Origin, CertsAsked, Asked, AskedByHonest
  <1> QED BY <1>1, InitType, StepType, InitOrigin, StepOrigin, PTL DEF Spec

-----------------------------------------------------------------------------
\* A finalize certificate finds the honest part of a quorum in its view.

\* Member m, unless faulty, has announced the view change to round r.
Announced(r, m) == m \in Faulty \/ (m \in Live /\ pendingView[m] >= r)

BallotsAnnounced == \A v \in ballots : v.phase = "Finalize" => Announced(v.round, v.voter)
RelaysAnnounced ==
  \A x \in Certs : x.phase = "Finalize" => \A m \in relayMap[x] : Announced(x.round, m)

\* Inductive: a vote to finalize, on its way or counted, follows the view
\* change of its voter.
Entered == BallotsAnnounced /\ RelaysAnnounced /\ FinalizedMeansEntered

AnnouncedGrows == \A r \in Rounds : \A m : Announced(r, m) => Announced(r, m)'

\* The pending view never falls.
LEMMA AnnouncedStays ==
  ASSUME ViewSyncTypeOK, [Next]_vars
  PROVE  AnnouncedGrows
  <1>1. \A m \in Live : pendingView[m] \in Int /\ pendingView'[m] >= pendingView[m]
    <2>1. \A m \in Live : pendingView[m] \in Int
      BY BoundAssumption DEF ViewSyncTypeOK, Rounds
    <2>2. CASE UNCHANGED pendingView
      BY <2>1, <2>2
    <2>3. ASSUME NEW n \in Live, NEW v \in Rounds, NEW q, BroadcastViewChange(n, v, q)
          PROVE  \A m \in Live : pendingView'[m] >= pendingView[m]
      <3>1. v \in Int /\ pendingView \in [Live -> Rounds]
        BY BoundAssumption DEF ViewSyncTypeOK, Rounds
      <3>2. pendingView' = [pendingView EXCEPT ![n] = Larger(pendingView[n], v)]
        BY <2>3, <3>1 DEF BroadcastViewChange
      <3>3. Larger(pendingView[n], v) >= pendingView[n]
        BY <2>1, <3>1 DEF Larger
      <3> QED BY <2>1, <3>1, <3>2, <3>3
    <2>4. ASSUME NEW n \in Live, HandleTimeout(n)
          PROVE  UNCHANGED pendingView \/ \E v \in Rounds, q \in {Tail(queue[n])} : BroadcastViewChange(n, v, q)
      <3>0. Head(queue[n]).view \in 0 .. MaxView
        BY <2>4, FirstEvent, EventFields, Zenon DEF HandleTimeout
      <3>1. Head(queue[n]).view + 1 \in Rounds
        BY <3>0, BoundAssumption DEF Rounds
      <3> QED BY <2>4, <3>1, Zenon DEF HandleTimeout, FirstTimeout, RepeatedTimeout, NoViewChange
    <2>5. ASSUME NEW n \in Live, RecvCommit(n) \/ RecvFinalize(n)
          PROVE  \E v \in Rounds : BroadcastViewChange(n, v, queue[n])
      BY <2>5, CertFields, Zenon DEF RecvCommit, RecvFinalize
    <2>6. \/ UNCHANGED pendingView
          \/ \E n \in Live : HandleTimeout(n) \/ RecvCommit(n) \/ RecvFinalize(n)
      BY Zenon DEF Next, TaskStep, OutsideStep, RelayStep, vars, nodeVars, EnterView, HandleViewChange,
         HandleViewSyncTimeout, ViewTimerFires, ReplicaTimerFires, RecvOld, RecvPreCommit,
         NoViewChange, CollectVote
    <2> QED BY <2>1, <2>2, <2>3, <2>4, <2>5, <2>6, Zenon
  <1> QED
    <2> SUFFICES ASSUME NEW r \in Rounds, NEW m, Announced(r, m) PROVE Announced(r, m)'
      BY Zenon DEF AnnouncedGrows
    <2>1. CASE m \in Faulty
      BY <2>1 DEF Announced
    <2>2. CASE m \in Live /\ pendingView[m] >= r
      <3>1. r \in Int /\ pendingView'[m] \in Int
        BY <2>2, StepType, BoundAssumption DEF Rounds, ViewSyncTypeOK
      <3> QED BY <1>1, <2>2, <3>1 DEF Announced
    <2> QED BY <2>1, <2>2 DEF Announced

\* What keeps each part of Entered: nothing new.
LEMMA EnteredKept ==
  ASSUME ViewSyncTypeOK, AnnouncedGrows
  PROVE  /\ BallotsAnnounced /\ ballots' \subseteq ballots => BallotsAnnounced'
         /\ RelaysAnnounced /\ (\A x \in Certs : relayMap'[x] \subseteq relayMap[x]) => RelaysAnnounced'
         /\ FinalizedMeansEntered /\ (\A n \in Live : unread'[n] \subseteq unread[n])
              => FinalizedMeansEntered'
  <1>1. /\ \A v \in ballots : v.round \in Rounds
        /\ \A x \in Certs : x.round \in Rounds
        /\ \A n \in Live : \A c \in unread[n] : c.round \in Rounds
    BY CertFields DEF ViewSyncTypeOK, Votes, Certs
  <1>2. BallotsAnnounced /\ ballots' \subseteq ballots => BallotsAnnounced'
    BY <1>1, Zenon DEF BallotsAnnounced, AnnouncedGrows
  <1>3. RelaysAnnounced /\ (\A x \in Certs : relayMap'[x] \subseteq relayMap[x]) => RelaysAnnounced'
    BY <1>1, Zenon DEF RelaysAnnounced, AnnouncedGrows
  <1>4. ASSUME FinalizedMeansEntered, \A n \in Live : unread'[n] \subseteq unread[n]
        PROVE  FinalizedMeansEntered'
    <2> SUFFICES ASSUME NEW n \in Live, NEW c \in unread'[n], c.phase = "Finalize"
                 PROVE  \E Q \in Quorum : \A m \in Q \ Faulty : m \in Live /\ pendingView'[m] >= c.round
      BY DEF FinalizedMeansEntered
    <2>1. c \in unread[n] /\ c.round \in Rounds
      BY <1>1, <1>4
    <2>2. PICK Q \in Quorum : \A m \in Q \ Faulty : m \in Live /\ pendingView[m] >= c.round
      BY <1>4, <2>1 DEF FinalizedMeansEntered
    <2>3. \A m \in Q \ Faulty : Announced(c.round, m)'
      BY <2>1, <2>2, Zenon DEF Announced, AnnouncedGrows
    <2> QED BY <2>3, Zenon DEF Announced
  <1> QED BY <1>2, <1>3, <1>4, Zenon

\* A vote that is not to finalize, or whose voter has announced the view.
LEMMA SendAnnounced ==
  ASSUME ViewSyncTypeOK, AnnouncedGrows, BallotsAnnounced,
         NEW n \in Live, NEW p, NEW r, NEW k, Send(p, r, k, n),
         p = "Finalize" => Announced(r, n)'
  PROVE  BallotsAnnounced'
  <1>1. /\ Vote(p, r, k, n).round = r /\ Vote(p, r, k, n).voter = n
        /\ Vote(p, r, k, n).phase = p
    BY DEF Vote
  <1>2. \A v \in ballots : v.round \in Rounds
    BY DEF ViewSyncTypeOK, Votes
  <1>3. \A v \in ballots : v.phase = "Finalize" => Announced(v.round, v.voter)'
    BY <1>2, Zenon DEF BallotsAnnounced, AnnouncedGrows
  <1>4. Vote(p, r, k, n).phase = "Finalize"
          => Announced(Vote(p, r, k, n).round, Vote(p, r, k, n).voter)'
    BY <1>1, Zenon
  <1>5. \A v \in ballots' : v \in ballots \/ v = Vote(p, r, k, n)
    BY DEF Send
  <1> QED BY <1>3, <1>4, <1>5, Zenon DEF BallotsAnnounced

\* A step of a node: the only votes to finalize are those of RecvCommit, which
\* broadcasts the view change in the same step.
LEMMA NodeEntered ==
  ASSUME ViewSyncTypeOK, AnnouncedGrows, Entered, NEW n \in Live, TaskStep(n) \/ OutsideStep(n)
  PROVE  Entered'
  <1> USE DEF Entered
  <1>1. \A x \in Certs : relayMap'[x] \subseteq relayMap[x]
    <2>1. CASE UNCHANGED relayMap
      BY <2>1
    <2>2. CASE HandleViewChange(n)
      BY <2>2, ViewChangeDrops, Zenon
    <2>3. UNCHANGED relayMap \/ HandleViewChange(n)
      BY Zenon DEF TaskStep, OutsideStep, EnterView, HandleTimeout, HandleViewSyncTimeout,
         ViewTimerFires, ReplicaTimerFires, RecvOld, RecvPreCommit, RecvCommit, RecvFinalize, Receives
    <2> QED BY <2>1, <2>2, <2>3, Zenon
  <1>2. \A m \in Live : unread'[m] \subseteq unread[m]
    <2>1. UNCHANGED unread \/ \E c \in unread[n] : unread' = [unread EXCEPT ![n] = @ \ {c}]
      BY Zenon DEF TaskStep, OutsideStep, EnterView, HandleTimeout, HandleViewSyncTimeout, HandleViewChange,
         ViewTimerFires, ReplicaTimerFires, RecvOld, RecvPreCommit, RecvCommit, RecvFinalize, Receives
    <2> QED BY <2>1, Zenon DEF ViewSyncTypeOK
  <1>3. BallotsAnnounced'
    <2>1. CASE UNCHANGED ballots
      BY <2>1, EnteredKept
    <2>2. ASSUME NEW p \in {"PreCommit", "Commit"}, NEW r, NEW k, Send(p, r, k, n)
          PROVE  BallotsAnnounced'
      BY <2>2, SendAnnounced
    <2>3. CASE RecvCommit(n)
      <3>1. PICK c \in unread[n] :
              Send("Finalize", c.round, c.relay, n) /\ BroadcastViewChange(n, c.round, queue[n])
        BY <2>3, Zenon DEF RecvCommit
      <3>2. c.round \in Rounds
        BY CertFields
      <3>3. Announced(c.round, n)'
        BY <3>1, <3>2, BoundAssumption DEF Announced, BroadcastViewChange, Larger, ViewSyncTypeOK, Rounds
      <3> QED BY <3>1, <3>3, SendAnnounced, Zenon
    <2>4. \/ UNCHANGED ballots \/ RecvCommit(n)
          \/ \E p \in {"PreCommit", "Commit"} : \E r, k : Send(p, r, k, n)
      BY Zenon DEF TaskStep, OutsideStep, EnterView, HandleTimeout, FirstTimeout, RepeatedTimeout, Trigger,
         HandleViewSyncTimeout, HandleViewChange, ViewTimerFires, ReplicaTimerFires, RecvOld,
         RecvPreCommit, RecvFinalize
    <2> QED BY <2>1, <2>2, <2>3, <2>4, Zenon
  <1> QED BY <1>1, <1>2, <1>3, EnteredKept, Zenon

\* A finalize certificate holds the votes of a quorum.
LEMMA CollectVoteEntered ==
  ASSUME ViewSyncTypeOK, AnnouncedGrows, Entered, NEW v \in ballots, CollectVote(v)
  PROVE  Entered'
  <1> USE DEF Entered
  <1>1. PICK x : x = [phase |-> v.phase, round |-> v.round, relay |-> v.relay]
    BY Zenon
  <1> DEFINE voters == relayMap[x] \cup {v.voter}
             Same(y) == /\ y.phase = v.phase /\ y.round = v.round
                        /\ Leader[y.round + y.relay] = Leader[v.round + v.relay]
  <1>2. x \in Certs /\ x.round = v.round /\ x.phase = v.phase /\ x.round \in Rounds
    BY <1>1 DEF ViewSyncTypeOK, Votes, Certs
  <1>3. x.phase = "Finalize" => \A m \in voters : Announced(x.round, m)'
    BY <1>2, Zenon DEF RelaysAnnounced, BallotsAnnounced, AnnouncedGrows
  <1>4. \/ /\ Enough(v.phase, voters)
           /\ unread' = [n \in Live |-> unread[n] \cup {x}]
           /\ relayMap' = [y \in Certs |-> IF Same(y) THEN {} ELSE relayMap[y]]
        \/ relayMap' = [relayMap EXCEPT ![x] = voters] /\ UNCHANGED unread
    BY <1>1, Zenon DEF CollectVote
  <1>5. BallotsAnnounced'
    BY EnteredKept DEF CollectVote
  <1> HIDE DEF voters, Same
  <1>6. CASE /\ Enough(v.phase, voters)
             /\ unread' = [n \in Live |-> unread[n] \cup {x}]
             /\ relayMap' = [y \in Certs |-> IF Same(y) THEN {} ELSE relayMap[y]]
    <2>1. \A y \in Certs : relayMap'[y] \subseteq relayMap[y]
      BY <1>6
    <2>2. ASSUME NEW n \in Live, NEW c \in unread'[n], c.phase = "Finalize"
          PROVE  \E Q \in Quorum : \A m \in Q \ Faulty : m \in Live /\ pendingView'[m] >= c.round
      <3>1. CASE c \in unread[n]
        <4>1. PICK Q \in Quorum : \A m \in Q \ Faulty : m \in Live /\ pendingView[m] >= c.round
          BY <2>2, <3>1 DEF FinalizedMeansEntered
        <4>2. UNCHANGED pendingView
          BY DEF CollectVote, nodeVars
        <4> QED BY <4>1, <4>2
      <3>2. CASE c = x
        <4>1. PICK Q \in Quorum : Q \subseteq voters
          BY <1>2, <1>6, <2>2, <3>2 DEF Enough
        <4>2. \A m \in Q : Announced(x.round, m)'
          BY <1>3, <2>2, <3>2, <4>1, Zenon
        <4> QED BY <3>2, <4>2, Zenon DEF Announced
      <3> QED BY <1>6, <3>1, <3>2
    <2>3. FinalizedMeansEntered'
      BY <2>2, Zenon DEF FinalizedMeansEntered
    <2>4. RelaysAnnounced'
      BY <2>1, EnteredKept, Zenon
    <2> QED BY <1>5, <2>3, <2>4
  <1>7. CASE relayMap' = [relayMap EXCEPT ![x] = voters] /\ UNCHANGED unread
    <2>1. \A y \in Certs : \A m \in relayMap'[y] : m \in relayMap[y] \/ (y = x /\ m \in voters)
      BY <1>7, <1>2 DEF ViewSyncTypeOK
    <2>2. \A y \in Certs : y.round \in Rounds
      BY DEF Certs
    <2>3. RelaysAnnounced'
      BY <2>1, <2>2, <1>3, Zenon DEF RelaysAnnounced, AnnouncedGrows
    <2>4. FinalizedMeansEntered'
      BY <1>7, EnteredKept
    <2> QED BY <1>5, <2>3, <2>4
  <1> QED BY <1>4, <1>6, <1>7, Zenon

\* When a finalize certificate is out, the honest members of some quorum are
\* in its view or have announced the change to it.  A member that gets the
\* commit certificate votes to finalize and announces the view in one handler
\* (view_sync.rs), and announcements are never taken back.
THEOREM FinalizeFollowsViewChange == Spec => []FinalizedMeansEntered
  <1>1. Init => Entered
    <2> SUFFICES ASSUME Init PROVE Entered
      OBVIOUS
    <2>1. BallotsAnnounced
      BY BoundAssumption DEF Init, BallotsAnnounced, Announced
    <2>2. RelaysAnnounced /\ FinalizedMeansEntered
      BY DEF Init, RelaysAnnounced, FinalizedMeansEntered
    <2> QED BY <2>1, <2>2 DEF Entered
  <1>2. ViewSyncTypeOK /\ Entered /\ [Next]_vars => Entered'
    <2> SUFFICES ASSUME ViewSyncTypeOK, Entered, [Next]_vars PROVE Entered'
      OBVIOUS
    <2>1. AnnouncedGrows
      BY AnnouncedStays
    <2>2. CASE UNCHANGED vars
      BY <2>1, <2>2, EnteredKept DEF vars, nodeVars, Entered
    <2> QED BY <2>1, <2>2, NodeEntered, CollectVoteEntered, Zenon DEF Next, RelayStep
  <1>3. Entered => FinalizedMeansEntered
    BY DEF Entered
  <1> QED BY <1>1, <1>2, <1>3, InitType, StepType, PTL DEF Spec

-----------------------------------------------------------------------------
\* The views of a node.

\* Neither the consensus task nor the view sync task of a node ever goes back
\* to an earlier view, whatever order timeouts, view changes and certificates
\* come in: handle_view_change and the handlers of the view sync task compare
\* the view of an event with their own first.
THEOREM ViewsOnlyGrow == Spec => ViewsNeverFallBack
  <1> DEFINE Grow == \A n \in Live : consView'[n] >= consView[n] /\ curView'[n] >= curView[n]
  <1>1. ASSUME ViewSyncTypeOK, [Next]_vars PROVE Grow
    <2>1. \A m \in Live : consView[m] \in Int /\ curView[m] \in Int /\ pendingView[m] \in Int
      BY <1>1, BoundAssumption DEF ViewSyncTypeOK, Rounds
    <2>2. CASE UNCHANGED <<consView, curView>>
      BY <2>1, <2>2
    <2>3. ASSUME NEW n \in Live, EnterView(n) PROVE Grow
      BY <1>1, <2>1, <2>3 DEF EnterView, ViewSyncTypeOK
    <2> DEFINE Sets(n, v) == curView' = [curView EXCEPT ![n] = v] /\ curView[n] <= v
    <2>0. ASSUME NEW n \in Live, NEW v \in Int, UNCHANGED consView, Sets(n, v) PROVE Grow
      BY <1>1, <2>0, <2>1 DEF ViewSyncTypeOK
    <2>4. ASSUME NEW n \in Live, HandleTimeout(n) PROVE Grow
      <3>1. Head(queue[n]).view \in Int
        <4>1. Head(queue[n]).view \in 0 .. MaxView
          BY <1>1, <2>4, FirstEvent, EventFields, Zenon DEF HandleTimeout
        <4> QED BY <4>1, BoundAssumption
      <3>2. \/ UNCHANGED curView
            \/ /\ ~ (Head(queue[n]).view < curView[n])
               /\ curView' = [curView EXCEPT ![n] = Head(queue[n]).view + 1]
        BY <2>4, Zenon DEF HandleTimeout, FirstTimeout, RepeatedTimeout
      <3>3. UNCHANGED consView
        BY <2>4 DEF HandleTimeout
      <3>4. UNCHANGED curView \/ Sets(n, Head(queue[n]).view + 1)
        BY <2>1, <3>1, <3>2
      <3> QED BY <2>0, <2>2, <3>1, <3>3, <3>4
    <2>5. ASSUME NEW n \in Live, HandleViewChange(n) PROVE Grow
      <3>1. Head(queue[n]).view \in Int
        <4>1. Head(queue[n]).view \in Rounds
          BY <1>1, <2>5, FirstEvent, EventFields, Zenon DEF HandleViewChange
        <4> QED BY <4>1, BoundAssumption DEF Rounds
      <3>2. \/ UNCHANGED curView
            \/ /\ curView[n] < Head(queue[n]).view
               /\ curView' = [curView EXCEPT ![n] = Head(queue[n]).view]
        BY <2>5, Zenon DEF HandleViewChange
      <3>3. UNCHANGED consView
        BY <2>5 DEF HandleViewChange
      <3>4. UNCHANGED curView \/ Sets(n, Head(queue[n]).view)
        BY <2>1, <3>1, <3>2
      <3> QED BY <2>0, <2>2, <3>1, <3>3, <3>4
    <2>6. \/ UNCHANGED <<consView, curView>>
          \/ \E n \in Live : EnterView(n) \/ HandleTimeout(n) \/ HandleViewChange(n)
      <3>1. ASSUME NEW n \in Live, OutsideStep(n) PROVE UNCHANGED <<consView, curView>>
        BY <3>1, Zenon DEF OutsideStep, ViewTimerFires, ReplicaTimerFires, RecvOld, RecvPreCommit,
           RecvCommit, RecvFinalize, Receives
      <3>2. ASSUME NEW n \in Live, HandleViewSyncTimeout(n) PROVE UNCHANGED <<consView, curView>>
        BY <3>2 DEF HandleViewSyncTimeout
      <3>3. RelayStep \/ UNCHANGED vars => UNCHANGED <<consView, curView>>
        BY Zenon DEF RelayStep, CollectVote, vars, nodeVars
      <3> QED BY <1>1, <3>1, <3>2, <3>3, Zenon DEF Next, TaskStep
    <2> QED BY <2>2, <2>3, <2>4, <2>5, <2>6, Zenon
  <1> HIDE DEF Grow
  <1>2. ViewSyncTypeOK /\ [Next]_vars => [Grow]_vars
    BY <1>1, Zenon
  <1>3. Spec => [][Grow]_vars
    BY <1>2, ViewSyncTypeCorrect, PTL DEF Spec
  <1> QED BY <1>3 DEF ViewsNeverFallBack, Grow
=============================================================================
