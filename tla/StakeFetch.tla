----------------------------- MODULE StakeFetch -----------------------------
(***************************************************************************)
(* How a node reads the events of the stake table contract from L1, keeps   *)
(* them in storage, and makes the stake tables of epochs from them: the     *)
(* update loop and the calls of add_epoch_root run side by side, on the     *)
(* file or the database storage, and the node may stop at any moment.       *)
(*                                                                          *)
(* An event is its number in the order of (block, log index).  A stake      *)
(* table is the sequence of events it is computed from: StakeTable models   *)
(* the computation.                                                         *)
(***************************************************************************)
EXTENDS Integers, Sequences, FiniteSets, FiniteSetsExt, Functions

CONSTANTS
  Backends,    \* the storage backends considered, of "fs" and "sql"
  NumEvents,   \* the number of authenticated events of the contract
  BlockOf,     \* the L1 block of each
  InitBlock,   \* initializedAtBlock of the contract
  MaxBlock,    \* bound on the L1 blocks
  ChunkSize,   \* l1_events_max_block_range
  Epochs,      \* epochs whose stake table is asked for
  RootBlock,   \* the finalized L1 block in the root header of each
  MaxTorn,     \* bound on the event files whose content is lost
  MaxCrashes   \* bound on the restarts

Log == 1..NumEvents
Block == 0..MaxBlock
Loop == 0
Caller == {Loop} \cup Epochs

ASSUME FetchAssumption ==
  /\ Backends \subseteq {"fs", "sql"}
  /\ NumEvents \in Nat /\ BlockOf \in [Log -> InitBlock..MaxBlock]
  /\ \A d, e \in Log : d < e => BlockOf[d] <= BlockOf[e]
  /\ MaxBlock \in Nat /\ InitBlock \in Block /\ ChunkSize \in Nat \ {0}
  /\ Epochs \subseteq Nat \ {0} /\ RootBlock \in [Epochs -> Block]
  /\ MaxTorn \in Nat /\ MaxCrashes \in Nat

VARIABLES
  backend,    \* the storage of this node
  finalized,  \* the last finalized L1 block
  files,      \* stored: events
  torn,       \* stored: events whose file exists without its content
  marker,     \* stored: the L1 block up to which events are stored, or -1
  kept,       \* stored: stake tables, pairs of an epoch and its events
  tables,     \* the stake tables in memory, likewise
  pc,         \* what each caller is about to do
  to,         \* to_block of each
  from,       \* from_block of each, or -1
  got,        \* its events
  crashes     \* the restarts so far

stored == <<files, torn, marker, kept>>
call == <<pc, to, from, got>>
vars == <<backend, finalized, stored, tables, call, crashes>>

-----------------------------------------------------------------------------
\* Operators.

\* sort_events: a set of numbers as the increasing sequence of them.
Sorted(S) ==
  LET below(x) == Cardinality({y \in S : y < x})
  IN  [i \in 1..Cardinality(S) |-> CHOOSE x \in S : below(x) = i - 1]

UpTo(S, b) == {e \in S : BlockOf[e] <= b}

\* Vec::dedup: an event equal to the one before it is dropped.
Dedup(s) ==
  LET first == Sorted({i \in DOMAIN s : i = 1 \/ s[i] # s[i - 1]})
  IN  [j \in DOMAIN first |-> s[first[j]]]

\* The block ranges in which [start, end] is queried.
Chunks(start, end) ==
  LET chunk[s \in 0..(end + 1)] ==
        LET last == Min({s + ChunkSize - 1, end})
        IN  IF last < s THEN {} ELSE {s..last} \cup chunk[last + 1]
  IN  IF start > end THEN {} ELSE chunk[start]

\* fetch_events_from_contract.
ContractEvents(start, end) == {e \in Log : \E c \in Chunks(start, end) : BlockOf[e] \in c}

\* The event store_events writes next for a caller, of those not there.
Missing(c) == Range(got[c]) \ (files \cup torn)

-----------------------------------------------------------------------------
\* L1 and the callers.

Finalize ==
  /\ finalized < MaxBlock
  /\ finalized' = finalized + 1
  /\ UNCHANGED <<backend, stored, tables, call, crashes>>

Begin(c, b) ==
  /\ pc' = [pc EXCEPT ![c] = "load"]
  /\ to' = [to EXCEPT ![c] = b]
  /\ UNCHANGED <<backend, finalized, stored, tables, from, got, crashes>>

\* Mutant: the loop stops once there are events.
StartUpdateOnce == pc[Loop] = "idle" /\ marker = -1 /\ Begin(Loop, finalized)

\* update_loop: the next round.
StartUpdate == pc[Loop] = "idle" /\ Begin(Loop, finalized)

\* add_epoch_root, for an epoch whose table is not there.
AddEpochRoot(e) ==
  /\ pc[e] = "idle" /\ RootBlock[e] <= finalized
  /\ ~ \E p \in tables : p[1] = e
  /\ Begin(e, RootBlock[e])

\* The call of c is over.
Leave(c) ==
  /\ pc' = [pc EXCEPT ![c] = "idle"]
  /\ to' = [to EXCEPT ![c] = 0]
  /\ from' = [from EXCEPT ![c] = -1]
  /\ got' = [got EXCEPT ![c] = << >>]

-----------------------------------------------------------------------------
\* fetch_and_store_stake_table_events.

\* The persistence lock is held for as long as events are being written.
Unlocked == \A c \in Caller : pc[c] # "write"

\* load_events finds nothing stored.
LoadNothing(c) ==
  /\ pc[c] = "load" /\ Unlocked /\ marker = -1
  /\ pc' = [pc EXCEPT ![c] = "query"]
  /\ UNCHANGED <<backend, finalized, stored, tables, to, from, got, crashes>>

\* Mutant: the contract is asked again for the last stored block.
LoadStoredAgain(c) ==
  LET q == Min({marker, to[c]})
  IN  /\ pc[c] = "load" /\ Unlocked /\ marker # -1
      /\ UpTo(torn, q) = {}
      /\ got' = [got EXCEPT ![c] = Sorted(UpTo(files, q))]
      /\ pc' = [pc EXCEPT ![c] = IF q = to[c] THEN "store" ELSE "query"]
      /\ from' = [from EXCEPT ![c] = IF q = to[c] THEN -1 ELSE q]
      /\ UNCHANGED <<backend, finalized, stored, tables, to, crashes>>

\* load_events finds events up to the block, or up to an earlier one.
LoadStored(c) ==
  LET q == Min({marker, to[c]})
  IN  /\ pc[c] = "load" /\ Unlocked /\ marker # -1
      /\ UpTo(torn, q) = {}
      /\ got' = [got EXCEPT ![c] = Sorted(UpTo(files, q))]
      /\ pc' = [pc EXCEPT ![c] = IF q = to[c] THEN "store" ELSE "query"]
      /\ from' = [from EXCEPT ![c] = IF q = to[c] THEN -1 ELSE q + 1]
      /\ UNCHANGED <<backend, finalized, stored, tables, to, crashes>>

\* The rest is read from the contract, with a retry after every error.
Query(c) ==
  /\ pc[c] = "query"
  /\ LET start == IF from[c] = -1 THEN InitBlock ELSE from[c]
     IN  \E answer \in {ContractEvents(start, to[c])} :
           got' = [got EXCEPT ![c] = Dedup(got[c] \o Sorted(answer))]
  /\ pc' = [pc EXCEPT ![c] = "store"]
  /\ UNCHANGED <<backend, finalized, stored, tables, to, from, crashes>>

\* The caller has its events: the loop waits for its next round, an epoch goes
\* on to its table, unless there is no validator to put in it.
Return(c) ==
  IF c = Loop \/ got[c] = << >>
  THEN Leave(c)
  ELSE pc' = [pc EXCEPT ![c] = "keep"] /\ UNCHANGED <<to, from, got>>

\* store_events has nothing to do.
StoreNothing(c) ==
  /\ pc[c] = "store" /\ Unlocked
  /\ got[c] = << >> \/ marker > to[c]
  /\ Return(c)
  /\ UNCHANGED <<backend, finalized, stored, tables, crashes>>

\* Mutant: a lower block replaces a higher one.
StoreRowsAlways(c) ==
  /\ backend = "sql" /\ pc[c] = "store"
  /\ got[c] # << >>
  /\ files' = files \cup Range(got[c])
  /\ marker' = to[c]
  /\ Return(c)
  /\ UNCHANGED <<backend, finalized, torn, kept, tables, crashes>>

\* Database: events and block in one transaction.
StoreRows(c) ==
  /\ backend = "sql" /\ pc[c] = "store"
  /\ got[c] # << >> /\ marker <= to[c]
  /\ files' = files \cup Range(got[c])
  /\ marker' = to[c]
  /\ Return(c)
  /\ UNCHANGED <<backend, finalized, torn, kept, tables, crashes>>

\* Mutant: the block is written before the events.
StoreFilesMarkerFirst(c) ==
  /\ backend = "fs" /\ pc[c] = "store" /\ Unlocked
  /\ got[c] # << >> /\ marker <= to[c]
  /\ pc' = [pc EXCEPT ![c] = "write"]
  /\ marker' = to[c]
  /\ UNCHANGED <<backend, finalized, files, torn, kept, tables, to, from, got, crashes>>

\* Files: the lock is taken,
StoreFiles(c) ==
  /\ backend = "fs" /\ pc[c] = "store" /\ Unlocked
  /\ got[c] # << >> /\ marker <= to[c]
  /\ pc' = [pc EXCEPT ![c] = "write"]
  /\ UNCHANGED <<backend, finalized, stored, tables, to, from, got, crashes>>

\* each event that has no file yet is written to one,
WriteEvent(c) ==
  /\ pc[c] = "write" /\ Missing(c) # {}
  /\ files' = files \cup {Min(Missing(c))}
  /\ UNCHANGED <<backend, finalized, torn, marker, kept, tables, call, crashes>>

\* or only created, if the error of the buffer's last flush is dropped,
TearEvent(c) ==
  /\ pc[c] = "write" /\ Missing(c) # {} /\ Cardinality(torn) < MaxTorn
  /\ torn' = torn \cup {Min(Missing(c))}
  /\ UNCHANGED <<backend, finalized, files, marker, kept, tables, call, crashes>>

\* and the block after them.
WriteMarker(c) ==
  /\ pc[c] = "write" /\ Missing(c) = {}
  /\ marker' = to[c]
  /\ Return(c)
  /\ UNCHANGED <<backend, finalized, files, torn, kept, tables, crashes>>

\* Storage fails, or an event file cannot be parsed: the loop tries again, an
\* epoch gives up.
Fail(c) ==
  /\ pc[c] \in {"load", "store", "write"}
  /\ pc[c] # "write" => Unlocked
  /\ IF c = Loop
     THEN /\ pc' = [pc EXCEPT ![c] = "load"]
          /\ from' = [from EXCEPT ![c] = -1]
          /\ got' = [got EXCEPT ![c] = << >>]
          /\ UNCHANGED to
     ELSE Leave(c)
  /\ UNCHANGED <<backend, finalized, stored, tables, crashes>>

\* add_epoch_root has the table of its epoch: it is stored, an error is only
\* logged, and put in memory.
KeepTable(e) ==
  LET Put(S) == {p \in S : p[1] # e} \cup {<<e, got[e]>>}
  IN  /\ pc[e] = "keep" /\ Unlocked
      /\ kept' \in {kept, Put(kept)}
      /\ tables' = Put(tables)
      /\ Leave(e)
      /\ UNCHANGED <<backend, finalized, files, torn, marker, crashes>>

\* The node stops, possibly between the creation of a file and its writing,
\* and starts again with the tables of reload_stake, if these can be read.
Crash ==
  /\ crashes < MaxCrashes /\ crashes' = crashes + 1
  /\ torn' \in {torn} \cup {torn \cup {Min(Missing(c))} :
                              c \in {d \in Caller : pc[d] = "write" /\ Missing(d) # {}
                                                    /\ Cardinality(torn) < MaxTorn}}
  /\ tables' \in {kept, {}}
  /\ pc' = [c \in Caller |-> "idle"]
  /\ to' = [c \in Caller |-> 0]
  /\ from' = [c \in Caller |-> -1]
  /\ got' = [c \in Caller |-> << >>]
  /\ UNCHANGED <<backend, finalized, files, marker, kept>>

-----------------------------------------------------------------------------

Init ==
  /\ backend \in Backends /\ finalized = 0
  /\ files = {} /\ torn = {} /\ marker = -1 /\ kept = {} /\ tables = {}
  /\ pc = [c \in Caller |-> "idle"] /\ to = [c \in Caller |-> 0]
  /\ from = [c \in Caller |-> -1] /\ got = [c \in Caller |-> << >>]
  /\ crashes = 0

Load(c) == LoadNothing(c) \/ LoadStored(c)
Store(c) == StoreNothing(c) \/ StoreRows(c) \/ StoreFiles(c)
Write(c) == WriteEvent(c) \/ WriteMarker(c)

Next ==
  \/ Finalize \/ StartUpdate \/ Crash
  \/ \E e \in Epochs : AddEpochRoot(e) \/ KeepTable(e)
  \/ \E c \in Caller : Load(c) \/ Query(c) \/ Store(c) \/ Write(c) \/ TearEvent(c) \/ Fail(c)

Spec == Init /\ [][Next]_vars

\* The loop has its rounds and an answer from L1, locks are given back, and
\* storage does not fail for ever.
FairSpec ==
  /\ Spec
  /\ WF_vars(StartUpdate \/ Query(Loop))
  /\ WF_vars(\E e \in Epochs : Write(e))
  /\ SF_vars(Load(Loop)) /\ SF_vars(Store(Loop)) /\ SF_vars(Write(Loop))

-----------------------------------------------------------------------------
\* Properties.

TypeOK ==
  /\ backend \in Backends /\ finalized \in Block
  /\ files \subseteq Log /\ torn \subseteq Log /\ marker \in Block \cup {-1}
  /\ kept \subseteq Epochs \X Seq(Log) /\ tables \subseteq Epochs \X Seq(Log)
  /\ pc \in [Caller -> {"idle", "load", "query", "store", "write", "keep"}]
  /\ to \in [Caller -> Block] /\ from \in [Caller -> Block \cup {-1}]
  /\ got \in [Caller -> Seq(Log)]
  /\ crashes \in 0..MaxCrashes

\* A stake table, in memory or in storage, comes from exactly the events up to
\* the L1 block of the epoch's root, each once and in order, whatever was
\* stored before and whoever stored it: all nodes have the same table.
TableExact ==
  \A p \in tables \cup kept : p[2] = Sorted(UpTo(Log, RootBlock[p[1]]))

\* The stored block is never ahead of the stored events, after a crash either.
MarkerCovers == UpTo(Log, marker) \subseteq files \cup torn

\* The stored block never falls back, whoever of the callers is late.
MarkerNeverFallsBack == [][marker <= marker']_vars

\* Storage follows L1: once there are events up to a finalized block, they are
\* stored up to that block in the end, unless a file has lost its content.
FollowsL1 ==
  \A b \in Block :
    finalized >= b /\ UpTo(Log, b) # {} ~> marker >= b \/ torn # {}
=============================================================================
