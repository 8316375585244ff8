----------------------------- MODULE RelayServer -----------------------------
(***************************************************************************)
(* The state relay server (sequencer/src/state_signature/relay_server.rs)   *)
(* and the state signers that post to it (state_signature.rs).  As the      *)
(* chain grows every node signs the light client states of decided blocks,  *)
(* at its own pace; the server collects the signatures height by height,    *)
(* weighs them by the stake table of the height's epoch, serves the newest  *)
(* state that enough stake has signed and forgets what is older.            *)
(*                                                                          *)
(* A request holds the server's lock while it waits for the sequencer, so   *)
(* requests are handled one at a time.  A request that fails is not sent    *)
(* again.  Some nodes are faulty: they sign any state of any height.  The   *)
(* next stake table that is signed along with a state is left out: a bundle *)
(* has that of its first signature.                                         *)
(***************************************************************************)
EXTENDS EpochChain, FiniteSets, FiniteSetsExt, Functions

CONSTANTS
  Node,        \* nodes that sign states
  Faulty,      \* the faulty ones
  EpochStart,  \* the block at which epochs start
  Upgrade,     \* the first block of a version with epochs
  Heights,     \* heights of the states that are signed
  Stake        \* of each table and node: its stake, 0 if it is not in the table

VARIABLES
  configured,  \* whether blocks_per_epoch and epoch_start_block are known
  known,       \* known_nodes and thresholds: the table of each epoch in the maps
  bundles,     \* signers and accumulated weight of each height and state
  queue,       \* the heights that have bundles
  latest,      \* latest_available_bundle and latest_block_height, height 0 if none
  signed,      \* of each node: the last height it has signed
  posted       \* history: the heights above latest that honest nodes have posted

server == <<configured, known, bundles, queue, latest>>
relayVars == <<vars, server, signed, posted>>

\* The states of one height: the decided one, and any other.
States == {"decided", "other"}

EpochAt(h) == epoch_from_block_number(h, height)
First == EpochAt(EpochStart)

\* The table of an epoch: the first two epochs have the genesis table.
TableFrom(first, e) == IF e <= first + 1 THEN 0 ELSE e
TableOf(e) == TableFrom(First, e)

\* The stake of some nodes in a table: the units of it that they hold.
Units(table, nodes) == UNION {{n} \X (1..Stake[table][n]) : n \in nodes}
Weight(table, nodes) == Cardinality(Units(table, nodes))

one_honest_threshold(table) == Weight(table, Node) \div 3 + 1

\* There is a table for every state that may be signed, and faulty nodes never
\* have the stake that is sure to include an honest node.
ASSUME StakeAssumption ==
  /\ IsFiniteSet(Node) /\ Faulty \subseteq Node
  /\ Heights \subseteq Nat /\ EpochStart \in Nat /\ Upgrade \in Nat
  /\ \A k \in EpochHeights, h \in Heights :
       TableFrom(epoch_from_block_number(EpochStart, k), epoch_from_block_number(h, k))
         \in DOMAIN Stake
  /\ \A t \in DOMAIN Stake : Stake[t] \in [Node -> Nat]
  /\ \A t \in DOMAIN Stake : Weight(t, Faulty) < one_honest_threshold(t)

\* Epochs start with a version that has them, or in the epoch of the upgrade to
\* it, ten blocks before its end at the latest: with other heights no node votes
\* for the upgrade.
ASSUME UpgradeAssumption ==
  \A k \in EpochHeights :
    \/ Upgrade <= EpochStart + 1
    \/ epoch_from_block_number(Upgrade + 10, k) = epoch_from_block_number(EpochStart, k)

NoSignatures == [signers |-> {}, weight |-> 0]

RelayInit ==
  /\ Init
  /\ configured = FALSE
  /\ known = [e \in {} |-> 0]
  /\ bundles = [b \in Heights \X States |-> NoSignatures]
  /\ queue = {}
  /\ latest = [height |-> 0, state |-> "decided", signers |-> {}]
  /\ signed = [n \in Node |-> 0]
  /\ posted = {}

-----------------------------------------------------------------------------
\* The server.

\* The map from epochs to tables with the table of e added.
Insert(nodes, e, table) ==
  [f \in DOMAIN nodes \union {e} |-> IF f = e THEN table ELSE nodes[f]]

\* init_genesis, at the first signature: the fetches are repeated until they
\* succeed.
InitGenesis == IF configured THEN known ELSE Insert(known, First, 0)

\* sync_stake_table: the table of the epoch of h, unless the latest bundle is
\* of that epoch or a later one.  The fetch is repeated until it succeeds.
SyncStakeTable(nodes, h) ==
  IF EpochAt(h) \in DOMAIN nodes \/ EpochAt(h) <= EpochAt(latest.height)
    THEN nodes
    ELSE Insert(nodes, EpochAt(h), IF h >= EpochStart THEN TableOf(EpochAt(h)) ELSE 0)

\* Mutant: the table of the next block's epoch is removed as well.
PruneTablesInclusive(nodes, heights, until) ==
  IF \E h \in heights : h > until
    THEN nodes
    ELSE Restrict(nodes, DOMAIN nodes \ (EpochAt(Min(heights))..EpochAt(until + 1)))

\* prune, on the tables: those of the epochs from the oldest queued height up to
\* the epoch of the next block are removed, if nothing above until is queued.
PruneTables(nodes, heights, until) ==
  IF \E h \in heights : h > until
    THEN nodes
    ELSE Restrict(nodes, DOMAIN nodes \ (EpochAt(Min(heights))..(EpochAt(until + 1) - 1)))

\* prune, on the bundles.
PruneBundles(all, until) ==
  [b \in DOMAIN all |-> IF b[1] <= until THEN NoSignatures ELSE all[b]]

\* The end of post_signature: the signature of n is added to the bundle, and a
\* bundle with enough weight is served from now on.
Collect(n, h, x, nodes) ==
  LET table == nodes[EpochAt(h)]
      old == bundles[<<h, x>>]
      new == [signers |-> old.signers \union {n}, weight |-> old.weight + Stake[table][n]]
      heights == queue \union {h}
      all == [bundles EXCEPT ![<<h, x>>] = new]
  IN  IF new.weight >= one_honest_threshold(table)
        THEN /\ latest' = [height |-> h, state |-> x, signers |-> new.signers]
             /\ known' = PruneTables(nodes, heights, h)
             /\ bundles' = PruneBundles(all, h)
             /\ queue' = {g \in heights : g > h}
        ELSE /\ known' = nodes /\ bundles' = all /\ queue' = heights
             /\ UNCHANGED latest

\* Once epochs have started, blocks behind the root of their epoch are ignored.
Ignored(h) == h > EpochStart /\ is_gt_epoch_root(h, height)

\* Mutant: a second signature of the same key and state is counted.
RefusedUnlessMember(n, h, x, nodes) ==
  EpochAt(h) \notin DOMAIN nodes \/ Stake[nodes[EpochAt(h)]][n] = 0

\* The errors: the epoch has no table, the node is not in it, or its signature of
\* this state is there already.
Refused(n, h, x, nodes) ==
  \/ EpochAt(h) \notin DOMAIN nodes
  \/ Stake[nodes[EpochAt(h)]][n] = 0
  \/ n \in bundles[<<h, x>>].signers

\* post_signature; a height that is no longer needed changes nothing.
post_signature(n, h, x) ==
  LET nodes == InitGenesis
      synced == SyncStakeTable(nodes, h)
  IN  \/ /\ h <= latest.height
         /\ UNCHANGED server
      \/ /\ h > latest.height
         /\ configured' = TRUE
         /\ IF Ignored(h)
              THEN known' = nodes /\ UNCHANGED <<bundles, queue, latest>>
            ELSE IF Refused(n, h, x, synced)
              THEN known' = synced /\ UNCHANGED <<bundles, queue, latest>>
              ELSE Collect(n, h, x, synced)

-----------------------------------------------------------------------------
\* The signers.

\* Mutant: the root itself is signed too.
SignsRoot(h) == ~(h >= Upgrade /\ is_gt_epoch_root(h, height))

\* What handle_event of the state signer signs: the root of an epoch and the
\* blocks behind it are left to the consensus.
Signs(h) == ~(h >= Upgrade /\ is_ge_epoch_root(h, height))

\* handle_event, for a decided block: a node signs the newest block of a decide
\* event only, so it may pass over blocks.
HandleDecide(n, h) ==
  /\ h <= block /\ signed[n] < h /\ Signs(h)
  /\ signed' = [signed EXCEPT ![n] = h]
  /\ post_signature(n, h, "decided")
  /\ posted' = {p \in posted \union {<<n, h>>} : p[2] > latest'.height}
  /\ UNCHANGED vars

\* A faulty node posts what it likes.
FaultyPost(n, h, x) ==
  /\ post_signature(n, h, x)
  /\ posted' = {p \in posted : p[2] > latest'.height}
  /\ UNCHANGED <<vars, signed>>

\* The chain decides a block.
Decide == NextBlock /\ UNCHANGED <<server, signed, posted>>

RelayNext ==
  \/ Decide
  \/ \E n \in Node \ Faulty, h \in Heights : HandleDecide(n, h)
  \/ \E n \in Faulty, h \in Heights, x \in States : FaultyPost(n, h, x)

RelaySpec == RelayInit /\ [][RelayNext]_relayVars

-----------------------------------------------------------------------------
\* A served state is the decided state of a decided block, although the faulty
\* nodes sign other states and sign twice: signatures are counted for each state
\* by itself, once for each key, and weighed by the table of the state's epoch,
\* although tables are fetched late and thrown away early.
ServedIsDecided ==
  latest.height # 0 =>
    /\ latest.height <= block
    /\ latest.state = "decided"
    /\ Weight(TableOf(EpochAt(latest.height)), latest.signers)
         >= one_honest_threshold(TableOf(EpochAt(latest.height)))

\* What the provers rely on: the height of the served bundle only grows, and from
\* the upgrade on it is never that of an epoch root or behind it, for which the
\* contract's voting table would be another one than the bundle's.
ServesAsProversExpect ==
  [][latest'.height # latest.height =>
       /\ latest'.height > latest.height
       /\ latest'.height >= Upgrade => ~is_ge_epoch_root(latest'.height, height)]_relayVars

\* However requests are ordered, no needed signature is lost: what a member of an
\* epoch's table has posted for a height above the served one is in the bundle of
\* that height, and the bundle is short of the threshold.  Pruning for a lower
\* height, and the rule that tables are fetched for epochs beyond the latest one
\* only, throw nothing away that is still needed.  The first epoch is left out:
\* its table is fetched only if epochs start in it.
NothingNeededIsLost ==
  \A p \in posted :
    LET h == p[2]
        table == TableOf(EpochAt(h))
    IN  EpochAt(h) > 1 /\ Stake[table][p[1]] > 0 =>
          /\ p[1] \in bundles[<<h, "decided">>].signers
          /\ h \in queue
          /\ Weight(table, bundles[<<h, "decided">>].signers) < one_honest_threshold(table)
=============================================================================
