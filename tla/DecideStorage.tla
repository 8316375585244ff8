--------------------------- MODULE DecideStorage ---------------------------
(***************************************************************************)
(* How a node keeps the leaves its consensus decides, and hands them, with  *)
(* the payloads that reached its storage, to the consumer that archives     *)
(* them: handle_events, and append_decided_leaves of both storage backends, *)
(* files and a database.                                                    *)
(*                                                                          *)
(* Leaves are their heights; ViewOf[h] is the view of leaf h.  The node may *)
(* stop at any moment, storing may fail, and the consumer may refuse.       *)
(***************************************************************************)
EXTENDS Integers, Sequences, FiniteSetsExt

CONSTANTS
  Backends,    \* the storage backends considered, of "fs" and "sql"
  MaxHeight,   \* bound on the leaves
  ViewOf,      \* the view of each leaf
  DaViews,     \* the views whose DA proposal reaches the node
  Retentions,  \* for how many views data that nobody took may be kept
  StoreFails,  \* the leaves whose storing may fail
  MaxEvents,   \* bound on the Decide events waiting for handle_events
  MaxCrashes   \* bound on the restarts in the middle of a call

Height == 0..MaxHeight
View == 0..ViewOf[MaxHeight]

ASSUME StorageAssumption ==
  /\ Backends \subseteq {"fs", "sql"}
  /\ MaxHeight \in Nat /\ MaxEvents \in Nat /\ MaxCrashes \in Nat
  /\ ViewOf \in [Height -> Nat] /\ ViewOf[0] = 0
  /\ \A g, h \in Height : g < h => ViewOf[g] < ViewOf[h]
  /\ DaViews \subseteq View /\ Retentions \subseteq Nat /\ StoreFails \subseteq Height

VARIABLES
  backend,      \* the storage of this node
  leaves,       \* stored: the decided leaves
  da,           \* stored: the views with a DA proposal
  processed,    \* stored: last_processed_view of the database, or -1
  lastDecided,  \* the last leaf decided by the running consensus
  events,       \* Decide events: the first and the last leaf of each
  pc,           \* what append_decided_leaves is about to do
  call,         \* the view it was called with
  chain,        \* the leaves of the event that are not stored yet
  batch,        \* the leaves read for the consumer
  todo,         \* those it has not taken yet
  payloads,     \* the views of the batch whose payload was read
  taken,        \* the leaves the consumer has taken
  takenDa,      \* the views whose payload it has taken
  crashes       \* the restarts in the middle of a call

stored == <<leaves, da, processed>>
consumer == <<taken, takenDa>>
work == <<call, chain, batch, todo, payloads>>
vars == <<backend, stored, lastDecided, events, pc, work, consumer, crashes>>

-----------------------------------------------------------------------------
\* Consensus and the other users of the storage.

\* A Decide event with a chain of leaves that follows the last decided one, or
\* begins later if consensus does not know the leaves in between.
Decide(a, b) ==
  /\ Len(events) < MaxEvents
  /\ lastDecided < a /\ a <= b
  /\ events' = Append(events, <<a, b>>)
  /\ lastDecided' = b
  /\ UNCHANGED <<backend, stored, pc, work, consumer, crashes>>

\* Mutant: files are not locked.
AppendDaUnlocked(v) ==
  /\ v \notin da
  /\ da' = da \cup {v}
  /\ UNCHANGED <<backend, leaves, processed, lastDecided, events, pc, work, consumer, crashes>>

\* append_da2, which DaTaskState calls after it has computed the payload
\* commitment, whatever was decided meanwhile.  Files are locked for as
\* long as append_decided_leaves runs.
AppendDa(v) ==
  /\ v \notin da
  /\ backend = "fs" => pc = "idle"
  /\ da' = da \cup {v}
  /\ UNCHANGED <<backend, leaves, processed, lastDecided, events, pc, work, consumer, crashes>>

-----------------------------------------------------------------------------
\* append_decided_leaves.

\* handle_events takes the next event.
TakeEvent ==
  /\ pc = "idle" /\ events # << >>
  /\ LET a == Head(events)[1]
         b == Head(events)[2]
     IN  chain' = a..b /\ call' = ViewOf[b]
  /\ events' = Tail(events)
  /\ pc' = "store"
  /\ UNCHANGED <<backend, stored, lastDecided, batch, todo, payloads, consumer, crashes>>

\* The leaves are stored: one file after the other, the newest leaf first, or
\* all in one transaction.
StoreLeaves ==
  /\ pc = "store" /\ chain # {}
  /\ LET new == IF backend = "fs" THEN {Max(chain)} ELSE chain
     IN  leaves' = leaves \cup new /\ chain' = chain \ new
  /\ UNCHANGED <<backend, da, processed, lastDecided, events, pc, call, batch, todo, payloads,
                 consumer, crashes>>

\* An error while storing ends the call.
StoreError ==
  /\ pc = "store" /\ chain \cap StoreFails # {}
  /\ backend = "fs" => Max(chain) \in StoreFails
  /\ pc' = "idle" /\ chain' = {}
  /\ UNCHANGED <<backend, stored, lastDecided, events, call, batch, todo, payloads, consumer, crashes>>

\* Mutant: the oldest leaf counts as taken whatever it is.
FsBatchAnyOldest ==
  LET known == {h \in leaves : ViewOf[h] <= call}
  IN  IF known = {} THEN {} ELSE known \ {Min(known)}

\* The leaves generate_decide_events reads from the files: all but the oldest,
\* which the consumer has taken before, unless that is the genesis leaf.
FsBatch ==
  LET known == {h \in leaves : ViewOf[h] <= call}
  IN  IF known = {} THEN {} ELSE known \ ({Min(known)} \ {0})

\* The leaves generate_decide_events reads from the database: the first chain
\* of consecutive leaves behind the last processed view.
SqlBatch ==
  LET new == {h \in leaves : ViewOf[h] > processed}
  IN  {h \in new : Min(new)..h \subseteq new}

\* Leaves and payloads are read; with none, the database goes on to prune.
ReadBatch ==
  /\ pc = "store" /\ chain = {}
  /\ LET next == IF backend = "fs" THEN FsBatch ELSE SqlBatch
     IN  /\ batch' = next /\ todo' = next
         /\ payloads' = {ViewOf[h] : h \in next} \cap da
         /\ pc' = IF next = {} /\ backend = "sql" THEN "prune" ELSE "consume"
  /\ UNCHANGED <<backend, stored, lastDecided, events, call, chain, consumer, crashes>>

\* Mutant: the newest leaf is handed on first.
ConsumeNewest ==
  /\ pc = "consume" /\ todo # {}
  /\ LET now == IF backend = "fs" THEN {Max(todo)} ELSE todo
     IN  /\ taken' = taken \cup now
         /\ takenDa' = takenDa \cup ({ViewOf[h] : h \in now} \cap payloads)
         /\ todo' = todo \ now
  /\ UNCHANGED <<backend, stored, lastDecided, events, pc, call, chain, batch, payloads, crashes>>

\* The consumer takes an event: a leaf at a time from the files, the whole
\* chain from the database.
Consume ==
  /\ pc = "consume" /\ todo # {}
  /\ LET now == IF backend = "fs" THEN {Min(todo)} ELSE todo
     IN  /\ taken' = taken \cup now
         /\ takenDa' = takenDa \cup ({ViewOf[h] : h \in now} \cap payloads)
         /\ todo' = todo \ now
  /\ UNCHANGED <<backend, stored, lastDecided, events, pc, call, chain, batch, payloads, crashes>>

\* The views of a batch, those without a leaf between consecutive leaves
\* included.
Covered(b) ==
  {v \in View : \E l, h \in b : l..h \subseteq b /\ ViewOf[l] <= v /\ v <= ViewOf[h]}

PruneView(r) == IF call > r THEN call - r ELSE 0

Garbage(S, r) == {v \in S : v < PruneView(r) \/ v \in Covered(batch)}

Finish == pc' = "idle" /\ call' = 0 /\ batch' = {} /\ todo' = {} /\ payloads' = {}

\* Mutant: the newest leaf is garbage as well.
CollectGarbageAll(r) ==
  /\ backend = "fs" /\ pc = "consume" /\ todo = {}
  /\ da' = da \ Garbage(da, r)
  /\ leaves' = {h \in leaves : ViewOf[h] \notin Garbage(View, r)}
  /\ Finish
  /\ UNCHANGED <<backend, processed, lastDecided, events, chain, consumer, crashes>>

\* Files: collect_garbage removes one file after the other, in any order but
\* the leaves last, and may fail in the middle.  The leaf of the view the call
\* is for stays.
CollectGarbage(r) ==
  /\ backend = "fs" /\ pc = "consume" /\ todo = {}
  /\ \E D \in SUBSET Garbage(da, r) :
       \E L \in SUBSET {h \in leaves : ViewOf[h] # call /\ ViewOf[h] \in Garbage(View, r)} :
         /\ L # {} => D = Garbage(da, r)
         /\ da' = da \ D
         /\ leaves' = leaves \ L
  /\ Finish
  /\ UNCHANGED <<backend, processed, lastDecided, events, chain, consumer, crashes>>

\* Mutant: the last processed view is that of the call.
DeleteProcessedToCall ==
  /\ backend = "sql" /\ pc = "consume" /\ todo = {}
  /\ processed' = call
  /\ da' = da \ Covered(batch)
  /\ leaves' = leaves \ (batch \ {Max(batch)})
  /\ pc' = "store"
  /\ UNCHANGED <<backend, lastDecided, events, call, chain, batch, todo, payloads, consumer, crashes>>

\* Database: one transaction moves the last processed view and deletes what the
\* consumer has taken, but for the newest leaf; then the next chain is read.
DeleteProcessed ==
  /\ backend = "sql" /\ pc = "consume" /\ todo = {}
  /\ processed' = ViewOf[Max(batch)]
  /\ da' = da \ Covered(batch)
  /\ leaves' = leaves \ (batch \ {Max(batch)})
  /\ pc' = "store"
  /\ UNCHANGED <<backend, lastDecided, events, call, chain, batch, todo, payloads, consumer, crashes>>

\* Database: what is too old is deleted when there is nothing more to hand on.
Prune(r) ==
  /\ pc = "prune"
  /\ da' = {v \in da : v >= PruneView(r)}
  /\ leaves' = {h \in leaves : ViewOf[h] >= PruneView(r)}
  /\ Finish
  /\ UNCHANGED <<backend, processed, lastDecided, events, chain, consumer, crashes>>

\* The consumer, or a transaction, fails: the call ends, to be made up for by
\* the next one.
Fail ==
  /\ pc \in {"consume", "prune"}
  /\ Finish
  /\ UNCHANGED <<backend, stored, lastDecided, events, chain, consumer, crashes>>

-----------------------------------------------------------------------------
\* Restarts.

\* The node stops and starts again from the newest leaf in storage: consensus
\* announces the genesis leaf if that is the one, and handle_events begins
\* with the leaves of the previous run.
Restart ==
  /\ pc # "idle" => crashes < MaxCrashes
  /\ crashes' = IF pc = "idle" THEN crashes ELSE crashes + 1
  /\ lastDecided' = IF leaves = {} THEN 0 ELSE Max(leaves)
  /\ events' = IF leaves \subseteq {0} THEN << <<0, 0>> >> ELSE << >>
  /\ pc' = IF leaves = {} THEN "idle" ELSE "store"
  /\ call' = IF leaves = {} THEN 0 ELSE ViewOf[Max(leaves)]
  /\ chain' = {} /\ batch' = {} /\ todo' = {} /\ payloads' = {}
  /\ UNCHANGED <<backend, stored, consumer>>

-----------------------------------------------------------------------------

Init ==
  /\ backend \in Backends
  /\ leaves = {} /\ da = {} /\ processed = -1
  /\ lastDecided = 0 /\ events = << <<0, 0>> >>
  /\ pc = "idle" /\ call = 0 /\ chain = {} /\ batch = {} /\ todo = {} /\ payloads = {}
  /\ taken = {} /\ takenDa = {} /\ crashes = 0

Work ==
  \/ TakeEvent \/ StoreLeaves \/ ReadBatch \/ Consume \/ DeleteProcessed
  \/ \E r \in Retentions : CollectGarbage(r) \/ Prune(r)

Next ==
  \/ Work
  \/ StoreError \/ Fail \/ Restart
  \/ \E a, b \in Height : Decide(a, b)
  \/ \E v \in DaViews : AppendDa(v)

Spec == Init /\ [][Next]_vars

\* append_decided_leaves goes on until it is done and is called again and again
\* (a restart stands for the next call).  No leaf is refused by the consumer for
\* ever, and the deleting transaction does not fail for ever.
FairSpec ==
  /\ Spec
  /\ WF_vars(Work)
  /\ WF_vars(pc = "idle" /\ Restart)
  /\ \A h \in Height : SF_vars(Consume /\ h = Min(todo))
  /\ SF_vars(DeleteProcessed)

-----------------------------------------------------------------------------
\* Properties.

TypeOK ==
  /\ backend \in Backends
  /\ leaves \subseteq Height /\ da \subseteq View /\ processed \in View \cup {-1}
  /\ lastDecided \in Height
  /\ events \in Seq(Height \X Height)
  /\ pc \in {"idle", "store", "consume", "prune"}
  /\ call \in View /\ chain \subseteq Height
  /\ batch \subseteq Height /\ todo \subseteq batch /\ payloads \subseteq View
  /\ taken \subseteq Height /\ takenDa \subseteq View
  /\ crashes \in 0..MaxCrashes

\* No leaf is deleted from storage before the consumer has taken it, whether
\* as processed or as too old.
TakenBeforeDeleted == [][\A h \in leaves \ leaves' : h \in taken]_vars

\* The newest leaf ever stored is never deleted: a restart resumes from there.
NewestLeafStays == [][leaves # {} => leaves' # {} /\ Max(leaves) <= Max(leaves')]_vars

\* The consumer never takes a leaf while an older one it has not seen is in
\* storage: leaves reach the archive in order.
TakenInOrder ==
  [][\A h \in taken' \ taken : \A k \in leaves : k < h => k \in taken']_vars

\* A payload in the files of a leaf that is handed on is handed on with it
\* before collect_garbage deletes it.  The database does not keep its tables
\* locked while the consumer runs, and has no such promise.
FilePayloadsHandedOver ==
  [][backend = "fs" => \A h \in batch : ViewOf[h] \in da \ da' => ViewOf[h] \in takenDa]_vars

\* Every leaf that is stored is taken by the consumer in the end.
EveryLeafTaken == \A h \in Height : h \in leaves ~> h \in taken
=============================================================================
