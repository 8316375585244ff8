# A TLA+ model of the Espresso network

The modules in this directory model the parts of the Espresso network whose correctness depends on
the order in which things happen: the voting core of the HotShot consensus and its restart from
storage, its view synchronisation, the hand-over of decided leaves to the archive, the stake table on
L1 with its fetching, storing and replay by the nodes, and the light client contract with the relay
server and the provers that feed it.  TLC checks the models on small instances, TLAPS proves the main
theorems for all instances.  `PROJECT.json` lists the runs, the theorems and, for each definition, the
source lines it stands for.

## The system

A HotShot **replica** is a set of tasks that share one `Consensus` structure behind a lock and talk
through an internal event stream (`crates/hotshot/task-impls`).  A **proposal** carries a justify
QC for its parent.  The quorum proposal receive task checks it against the lock (safety: the chain
passes through the locked view; liveness: the justify QC is newer than the lock), stores its leaf
and emits `QuorumProposalValidated`.  The quorum vote task takes that event, moves the lock to the
view of the justify QC, decides the grandparent if it is one view older than the parent, collects
garbage, and, once the DA certificate and VID share are there, votes through a dependency task.  The
network task records the vote before it sends it.  Views advance by QCs, by timeouts and by **view
sync**: after two timeouts in a row a node asks the leaders of the views from the next one on, the
*relays*, to collect votes for that view (the *round*) in three phases, pre-commit, commit and
finalize.  Whoever gets the commit certificate moves to the view.

What a node decides is announced as `Decide` events.  `handle_events` of the sequencer stores the
leaves of an event in files or in a database, hands what is stored to an event consumer, which
archives it, and deletes what was archived.  After a restart a node begins with the newest
leaf in storage and the view recorded with its last vote; everything else it learns again.

Blocks are grouped into **epochs**.  Five blocks before the end of an epoch its root fixes the
stake table of the epoch after the next.  The stake table comes from the **stake table contract** on
L1: every node fetches the contract's events and keeps them in its storage, in a loop that
follows L1 and again for the root of each epoch, replays them and takes the validators with the
most stake.

Every decided block up to the epoch root is signed by the nodes for the **light client contract**;
the root is signed with the stake table of the next epoch.  The signatures go to a **relay
server**, from which **provers** take the latest bundle, prove it and submit it.  The contract accepts
a state if a quorum of its current voting table has signed it, and takes over the next table with
the root of an epoch.

| Part | State | Operations | What makes it hard |
|---|---|---|---|
| voting core | view, lock, high QC, leaf and state maps, last decided view, last vote, event queue | receive and fetch proposals, handle validated, vote, view change | tasks interleave; equivocation; missing parents; garbage collection |
| consensus task, view sync | timers, relays, certificates | timeout, view sync rounds | lost messages, liveness |
| proposal, DA, VID, transaction tasks | dependencies of a view | build, disperse, propose | dependencies in any order |
| persistence, restart | decided leaves, recorded actions, events | store, load | crash between two writes |
| stake table contract | validators, delegations, exits, keys | register, delegate, undelegate, exit, claim, update keys, upgrade | long sequences of legal calls |
| replay, fetcher | events, validators, L1 block | fetch, store, replay, select | agreement of all nodes; concurrent fetchers |
| light client contract | finalized state, voting table, history | new state, owner's settings | epoch boundaries; pruned history |
| prover | contract snapshot, local table | read, fetch, advance, submit | torn reads, races, lost answers |
| relay server | bundles by height, tables by epoch | post, prune | late and early signatures |
| builder, query service, request-response | queues and caches | | |

## The modules

| Module | Models |
|---|---|
| `HotShot` | the tasks of a replica around a quorum proposal, for any tree of leaves |
| `CommonLedger`, `HotShotLedger` | what consensus promises, one growing log, and the mapping to it |
| `HotShotRestart` | `HotShot` with storage that fails and nodes that stop and restart at any moment |
| `HotShot_proofs` | the theorems about them |
| `MCHotShot`, `MCReplica` | instances: a trunk and a fork, with or without an equivocating leader; a replica that restarts and lags behind its own votes |
| `ViewSync`, `MCViewSync`, `ViewSync_proofs` | view sync: timers, replica tasks and relays of the nodes of one committee; instances; theorems |
| `DecideStorage`, `MCDecideStorage`, `DecideStorage_proofs` | how decided leaves are stored, handed to the consumer and deleted, on files and on the database; an instance; theorems |
| `StakeFetch`, `MCStakeFetch`, `StakeFetch_proofs` | how nodes fetch and store the events of the stake table contract and keep the tables of epochs; an instance; theorems |
| `StakeTable`, `MCStakeTable` | the stake table contract V1 and V2, and the nodes' replay of its events; an instance |
| `StakeTable_proofs`, `StakeReplay_proofs` | the theorems about the contract's books, with lemmas about sums; those about the replay |
| `Epochs`, `EpochChain` | the epoch arithmetic; a chain that counts its epochs |
| `RelayServer`, `MCRelayServer`, `RelayServer_proofs` | the chain with the nodes that sign its states and the relay server that collects the signatures; an instance; theorems about them and about the epoch arithmetic |
| `LightClient`, `StateProver` | the light client contract V2; its composition with several provers |
| `LightClient_proofs` | the theorems about them |

### HotShot

A quorum proposal is represented by its leaf.  The constant `Leaf` is the set of all leaves that any
leader may propose, with their views and parents; because leaders are unrestricted, equivocation
and every fork are included.  `votes` of faulty members are not state: a certificate exists when a
quorum exists whose honest members have voted.  `RecvProposal` is the handler of the receive task
(`handle_quorum_proposal_recv`), with its two paths: `RecvWithoutParent` when the parent is unknown
(`validate_proposal_liveness`) and `RecvWithParent` (`validate_proposal_safety_and_liveness`).
`HandleValidated` is the handler of the vote task, `Vote` the dependency task,
`ViewChange` the event reaching the tasks, `AdvanceView` any other reason for a new view,
`FetchProposal` the request for a missing proposal.

`Spec` interleaves the tasks freely, with a queue of validated proposals between the receive task and the
vote task.  The lock is checked in one task and moved in the other, and nothing makes the receive task
wait: a proposal may be checked against a lock that a queued proposal is about to move.  So a node may vote
below the lock of an earlier vote of its own (`VotesRespectLock` fails), and enough such votes decide two
branches: `Agreement` is not a property of this code under every schedule (run `fork`).  What holds under
every schedule is that nothing else forks the chain.  `ForksNeedLockBreach` says so of states,
`ExtendsUnlessLockBreach` of the steps of the common log, and `AcceptedAtLock` says that the check itself is
sound at the moment it is made.

The last three blocks of an epoch, whose proposals need certificates of two epochs, are excluded.

### HotShotRestart

Storage is three variables of `HotShot`: `actedView`, the highest view of a vote or proposal
(`record_action`), `restartView`, one more than the highest view voted in, and `anchor`, the newest
decided leaf.  `HotShotRestart` adds what may happen to them: `RecordProposal` and `RecordViewSyncVote` are
actions other than quorum votes that move the stored views (a view sync vote is recorded as a vote
without counting as one in memory), `PersistDecided` is the event loop storing the leaves of past
`Decide` events, and `VoteUnsent` a vote that the network task gives up after memory has
counted it, with `RecordInPart` for how far the recording came; the files are two.  `Restart` may
happen between any two steps; it is `load_consensus_state`, `new_from_channels` and
`start_consensus`: lock, high QC and last decided view are those of the anchor, leaves and event
queue are gone, and the last vote is taken to be the acted view.  The lock is not stored, so that a
restarted node may vote below it; `ForksNeedLockBreach` counts such a vote as one below the lock, and is
proved of `RestartSpec` too.

`load_consensus_state` says in a comment that a node starts "from the view following the maximum" of the
view voted in and the anchor's; it starts from the maximum of the restart view and the anchor's view
itself.  `StartsBehindVotes` holds because the restart view is already one ahead of the vote.

### DecideStorage

Leaves are their heights.  `append_decided_leaves` is a sequence of steps: `TakeEvent`,
`StoreLeaves` (one file after the other, or one transaction), `ReadBatch`, `Consume`, then
`CollectGarbage` for files, or `DeleteProcessed` and, when nothing is left to hand on, `Prune` for the
database.  The two backends choose the leaves to hand on by different rules.  With files (`FsBatch`)
all leaves but the oldest, which is taken to be the anchor of the call before; with the database
(`SqlBatch`) the next chain of consecutive leaves behind the recorded `last_processed_view`.  Storing
may fail (`StoreError`), the consumer may refuse or a transaction fail (`Fail`), and the node may
stop between any two steps (`Restart`).  `Decide` may leave out leaves, as a node that was
behind does.  `AppendDa` stores the DA proposal of a view at any time, except that files are locked
while a call runs.  `taken` and `takenDa` are what the consumer has taken.

### StakeFetch

The callers are the update loop (`Loop`) and one call of `add_epoch_root` per epoch; each goes through
loading, querying and storing (`pc`), with the persistence lock released in between, so that
their steps interleave.  An event is its number in the order of block and log index, and a stake table
the sequence of events it is made from; `StakeTable` models what is computed from them.  `Chunks`
cuts the blocks to query as the code does, `Dedup` is `Vec::dedup`, and `Sorted` is the ascending sequence of
a set.  Files are written one event at a
time and then the block they reach up to (`WriteEvent`, `WriteMarker`), rows in one transaction
(`StoreRows`).  `TearEvent` and `Crash` may leave an event file without its content, which
`load_events` cannot parse.  The events of finalized L1 blocks never change.

### ViewSync

A node is its view sync task (`curView`, `timeouts`, `collected`, the replica task map `task`), with the
queue of internal events in front of it, and its consensus task (`consView`, the timer `armed`), which
takes view changes at its own pace (`pendingView`).  `HandleTimeout`, `HandleViewChange` and
`HandleViewSyncTimeout` are the arms of `ViewSyncTaskState::handle` for internal events, `RecvPreCommit`,
`RecvCommit` and `RecvFinalize` those for certificates, each with what the replica task does with the
event; `CollectVote` is the arm for votes, at the relay.  A replica timer is an element of `timers`: a
task that is garbage-collected, or triggered again, leaves its timer running, as dropping a join
handle does.  Votes and certificates are delivered in any order; a certificate that is never delivered
is a lost one.  `Silent` members are down, `Faulty` ones vote for what they like (`FaultyVote`).
`asked` is a history variable: the rounds a node has started itself.  All views are in one epoch.

The constant `Prompt` chooses the schedule.  If it is false, everything interleaves; if it is true, timers
fire and messages arrive only when every node has emptied its queue (`Ready`, `Idle`), which is
what makes the larger instance fit.  The proofs cover both.

### StakeTable

One action per function of the contract, with V1 and V2 variants before and after the upgrade.  The
events the contract emits are a sequence, and `Replay` folds `Apply` over it as
`validators_from_l1_events` does.  Tokens are counted per account.  Events of V2 carry signatures that
the nodes verify, and drop the event if they do not hold; `Authentic` is the set of outcomes that occur, both
in the run and in the proofs.  The contract itself checks the BLS signature and leaves the Schnorr
signature to the nodes, so that a registration may count in the contract and be dropped by the nodes
(`Dropped`).  If such a validator then takes part in an event that is kept (`Orphaned`), the replay fails, as
the code has it, and `ReplayAgrees` says that it fails in no other case.
`ActiveSet` takes the validators of a rank below `MaxActive` in the order of the stable sort (`Precedes`),
among those with the minimum stake (`Valid`).

### RelayServer

`RelayServer` extends `EpochChain`, whose `NextBlock` decides a block, with the state signers
(`HandleDecide`, which is `handle_event` on a `Decide` event) and the server (`post_signature`, with
`InitGenesis`, `SyncStakeTable`, `Collect` and the two halves of `prune` as operators).  A node
signs heights in their order and may pass over some; nodes are at different heights, and a request
that fails is not repeated.  Faulty nodes post any state of any height, again and again
(`FaultyPost`).  A request is one step, since it holds the write lock of the server while it waits
for the sequencer, whose answers are fetched in endless loops.  `known` stands for `known_nodes` and
`thresholds`, which always have the same keys. The weight of a bundle is the number of the units of stake
(`Units`) of its signers.  `posted` is a history variable.  The next stake table
that is signed along with a state is left out: bundles are keyed by the state alone and keep that of
their first signature.

Two assumptions are about the configuration.  `StakeAssumption`: the faulty nodes never have the stake that
is sure to include an honest node.  `UpgradeAssumption`: epochs start with a version that has them, or in
the epoch of the upgrade, and ten blocks before its end at the latest.  Nodes propose and vote for no
other upgrade to the version that brings epochs (`epoch_upgrade_checks` in
`crates/hotshot/task-impls/src/upgrade.rs`); an upgrade that passes over that version is not covered.

`ServesAsProversExpect` is what `PublishBundle` of `StateProver` takes for granted.

### LightClient and StateProver

A stake table is represented by the epoch it belongs to and a state by its height.  `QuorumSigned`
says what quorums sign, taken from the state signer and the epoch root vote.  The assumption
`LightClientAssumption` states what the configuration must satisfy: epochs longer than five blocks, an
upgrade before the root of the first epoch, and no start block up to that epoch that is behind the
root of its epoch.  While HotShot is before the first epoch the owner may still change the start block.

`StateProver` extends the contract, configured with its start block, with provers.  Each call that
`sync_state` makes to the contract, to the relay server or to a query node is a step, so that
updates by other provers may fall between any two of them.  Failures are: a call that fails, a
transaction that is executed but whose answer is lost, and a restart.

## The runs

| Run | Checks | Bounds |
|---|---|---|
| `agree` | `ForksNeedLockBreach`, `ExtendsUnlessLockBreach`, `AcceptedAtLock` under `Spec` | two nodes, both needed for a quorum, with queues of two proposals; two branches, with leaves of one view on both (an equivocating leader), each long enough to be decided |
| `replica` | `HighQcCoversLock`, `DecidedLeafKnown`, `UniqueCertificates`, `StartsBehindVotes`, `AnchorWasDecided` under `RestartSpec` | one honest node, whose stake is a quorum, and a faulty one; it receives, fetches, jumps views, collects garbage and restarts any number of times; two proposals in view 3, repeated delivery |
| `fork` (violation) | `Agreement` under `Spec` | as `agree`, but every leaf has a view of its own: no leader equivocates, and no node is faulty |
| `viewsync_relay` | `RoundCompletes`, `ViewsNeverFallBack` under `FairSpec` | four members, one down, the others in view 1 or 2; two relays per round, the first of which may be the member that is down |
| `viewsync_live` | `AskedByHonest`, `FinalizedMeansEntered`, `BackInAgreement` under `RunningSpec`, prompt nodes | four members, one of them faulty, the others in neighbouring views, timers up to view 3; one relay, and the faulty member's votes are for the first phase of round 3 |
| `viewsync_scattered` (violation) | `BackInAgreement` under `FairSpec` | three nodes in views 1, 2 and 3, the fourth down, four relays: every member is a relay of every round |
| `archive` | `TakenBeforeDeleted`, `NewestLeafStays`, `TakenInOrder`, `FilePayloadsHandedOver`, `EveryLeafTaken` under `FairSpec` | both backends, four leaves of which one skips a view, two DA proposals, retention of none or two views, two events waiting, one crash in the middle of a call and any number between calls |
| `tables` | `TableExact`, `MarkerCovers`, `MarkerNeverFallsBack`, `FollowsL1` under `FairSpec` | both backends, the loop and two epochs, three events in three blocks, chunks of two blocks, one lost file, one crash |
| `contract` | `TypeOK`, `Solvent`, `StakeAccounting`, `ReplayAgrees`, `KeysDistinct`, `ActiveSetIsTop` | two validators for one seat, two delegators, three keys, amounts 1 and 3, V2 events with and without a valid signature, five events: enough for a full life of a validator, the attempt to reuse its key, and a delegation to a validator the nodes have dropped |
| `relay` | `PhasesAgree`, `ServedIsDecided`, `NothingNeededIsLost`, `ServesAsProversExpect` | epochs of 7 blocks that start in the third one, 29 blocks; four nodes, one faulty; states in the first, second, third and fifth epoch, among them the last block of an epoch, an epoch root and a block behind a root; one node leaves the table before the fifth epoch |
| `lightclient` | `VotingTableIsCurrent`, `EveryRootFinalized`, `CanAdvance`, `CommitmentCovers`, `EscapeHatchExact` | epochs of 8 blocks from the second one on, five updates, so that two roots may be passed or missed |
| `sync` | `BundleProofFits`, `NeverAheadOfBundle`, `ContractCatchesUp` | two provers, one failure, bundles in the first, second, fourth and fifth epoch |

Deadlock is not checked where the bounds end the behaviour.  In `ViewSync` `MaxView` stops the view timers
and `MaxRelay` the replica timers, so every behaviour of the model ends; the three views and the two
relays are what it takes for a node to ask a round twice and for nodes to ask for different rounds.

**Fairness.** Every assumption is about code that loops or retries:

* `StateProver`: weak fairness of each prover's steps; `run_prover_service` calls `sync_state` in an
  endless loop, after an error as well.  Failures are finite (`MaxFailures`).  Nothing is assumed of
  the relay server.
* `ViewSync`, `FairSpec`: weak fairness of each node that is up (its tasks loop over their events, its
  timers are spawned tasks that end in a broadcast, certificates sent to it arrive) and of the
  delivery of votes to relays that are up.  Nothing is assumed of members that are down, and no
  proposal ever arrives.  `RunningSpec` only assumes that the system as a whole does not stop.
* `DecideStorage`: weak fairness of the steps of a call that has begun, and of the next call when a node is
  idle, which `handle_events` makes with each decide and every start makes too.  The consumer
  and the deletion may fail, but not for ever (strong fairness of `Consume` for each leaf and of
  `DeleteProcessed`).
* `StakeFetch`: weak fairness of the start and the queries of the update loop, which retries without
  end, and of the writing of files, and strong fairness of its loading and storing, which share a
  lock with the epochs.  Finalized L1 events do not change, and the L1 block of an epoch root is finalized.

## What is proved

`HotShot_proofs`, for every committee whose quorums intersect in an honest member
(`QuorumAssumption`), every finite or infinite tree of leaves (`LeafAssumption`, `AncAssumption`) and any
number of views:

* `TypeCorrect`, `CertificatesUnique` and `HighQcHolds` of `Spec`.  The inductive invariants are `FreeInv`
  (what the maps hold, and that a node sends at most one vote per view because the recorded view only
  grows) and `HighInv`.
* `ForksOnlyByLockBreach`.  The argument is that of HotStuff-2: if a quorum has voted for a leaf whose
  parent and grandparent form a two-chain, every quorum that certifies a later leaf shares an honest member
  with it, whose later vote is justified no lower as long as it respects the lock, so that the later leaf
  is on the branch of the two-chain.  The inductive invariant `BranchInv` adds to `FreeInv` that
  a certified leaf blocks every other branch (`ForkInv`), under the condition that no vote so far has gone below
  a lock, and that what is decided has a certified child in the next view (`DecideInv`).  The property
  alone is not inductive: it speaks of decided leaves, and the fork is made by votes.
* `LockGuardsAcceptance`, from the map invariant `MapInv`: what the walk through the state map finds at a view
  is a leaf of that view, also when a proposal of the same view has replaced another.
* `LogExtends`, and from it `LedgerImplemented`: a behaviour in which no vote ever goes below a lock implements
  `CommonLedger`.  The condition is one on the behaviour; the run `fork` shows that the code does not ensure it.

`ViewSync_proofs`, of `Spec`, for every committee, leader schedule, bound and set of starting views, if
the faulty members do not reach the failure threshold (`ThresholdAssumption`, `BoundAssumption`):

* `ViewSyncTypeCorrect`, and from it `ViewsOnlyGrow`.
* `CertificatesAreAskedFor`.  The invariant `Origin` says of everything by which a round spreads, that is
  certificates, votes on their way or counted, replica timers and queued timeouts, that an honest node
  asked for that round; the property alone is not inductive, since a vote is cast and a timer spawned
  several steps before the certificate.
* `FinalizeFollowsViewChange`.  The invariant `Entered` says that every vote to finalize of a member that is
  not faulty follows its view change.

`HotShot_proofs`, of `RestartSpec`, under the same assumptions, for nodes that stop and restart any number of
times and storage that fails at any write:

* `RestartUnique`, `RestartForks`, `StartsAfterVotes`, `RestartHighQc`, `RestartsFromDecided` and
  `DecidedLeafStays`.
  The invariant `RestartInv` is `FreeInv`, which the restart preserves although it resets most of
  what `FreeInv` speaks of, and `RecordInv`: every vote is on record before anyone can see it, which is
  what a restarted node has in place of its memory.  `KnownInv` and `LeafInv` relate the last decided
  view, the state map and the saved leaves through garbage collection.

`DecideStorage_proofs`, of `Spec`, for both backends, any number of leaves, failures and crashes:

* `LeavesTakenFirst`, `RestartsFromNewest` and `LeavesTakenInOrder`, provided that storing the genesis leaf
  does not fail (`0 \notin StoreFails`, see the findings).  `StorageInv` says of every moment of a
  call what is stored, taken and still to be handed over: waiting events are in order and behind
  everything stored (`QueueInv`), the genesis leaf is the first to be stored (`ChainInv`), the newest
  leaf is the one the call was made for (`NewestInv`), what will not be in a batch has been taken
  (`TakenInv`), and a batch is the next piece of the chain (`BatchInv`).
* `PayloadsHandedOver`, without that condition.  `PayloadInv` says that with files the payloads of a batch were
  all read with it, since the lock keeps new ones out, and that they follow their leaves.

`StakeTable_proofs`, of `Spec`, for any finite sets of accounts (addresses are 160 bits), any amounts and any
number of calls and events, across the upgrade to V2:

* `AmountsNeverNegative`, `AlwaysSolvent` and `StakeAlwaysAccounted`.  The invariant `Books` adds to the three
  that nobody has delegated to an account that was never registered, and that an exit is on record only
  for a validator that left: without the first a registration would start with stake, without the
  second a claim could take what an active validator counts as its stake.  Sums change by what one
  account changes (`OneDebtChanges`, `OneDelegationChanges`).

`StakeReplay_proofs`, under the same conditions and whichever V2 events lack a valid signature:

* `KeysAlwaysDistinct`.  The replay forgets the keys of key updates; the
  invariant `KeysKnown` says that every key of a replayed table is one the contract has recorded, and
  the contract accepts none of them again.
* `ReplayAlwaysAgrees` and `ActiveSetAlwaysTop`.  The invariant `Agrees` says that the replayed table mirrors
  the contract, delegator by delegator, but for the dropped validators, as long as none of these takes part in
  a later event, and has failed once one does; and that its keys are recorded, so that the replay meets none of
  its other error cases.  `ReplayMore` reduces
  the fold over the log to the last event, and one lemma for each handler (`RegisterEffect`,
  `UndelegateEffect`, ...) says what it does to a table.  For the active set, the ranks of a finite strict
  order are each taken once (`RanksOnce`, `TopSize`).

`StakeFetch_proofs`, of `Spec`, for both backends, any number of blocks, events, epochs and callers, every
chunk size, and any number of lost files and crashes:

* `TablesAlwaysExact`, `MarkerAlwaysCovers` and `MarkerMonotone`.  The invariant `Sound` says what each caller
  holds at each point of its call (`CallOK`: what was loaded are all events before the block from which
  it queries; what it is about to store are all events up to its block), and that files are written by
  one caller at a time (`Writing`).  `ContractEventsExact` says that the chunks cover the range of blocks
  without gap or overlap, also when the last one is shorter.

`RelayServer_proofs`, for every epoch height above five, chains of any length, and any nodes, tables and
heights:

* `PhasesAlwaysAgree`, of `Spec` of `EpochChain`.  The invariant `PlaceInv` says that the block number is the
  sum of the full epochs and the position; the rest is the uniqueness of quotient and remainder
  (`Remainder`).
* `ServedAlwaysDecided`, `NothingNeededEverLost` and `ServesAsExpected`, of `RelaySpec`, under `StakeAssumption`
  and `UpgradeAssumption`.  The invariant `Relayed` says that the map of tables holds the right ones
  (`TablesRight`), that the table of the latest bundle's epoch is still there while that epoch has more
  blocks (`TableKept`: it is not fetched again), that the weight of each bundle is that of its signers,
  short of the threshold, and that honest nodes sign decided states only (`Counted`), and that posted
  signatures are in their bundles (`PostedKept`).  `TableThere` and `NotIgnored` are the heart of it: a
  signature of a member above the served height always finds its table, and the server ignores no
  height that the nodes sign.

`LightClient_proofs`, under `LightClientAssumption` (which excludes start blocks that are behind the root of
their epoch), for every epoch height, set of heights and number of updates:

* `VotesWithCurrentTable`, `NoRootIsSkipped`, `NeverStuck`, `CommitmentAlwaysCovers` and
  `EscapeHatchAlwaysExact`.  The invariant `LightInv` consists of the types, of `HistoryInv` (the entries
  from the first index on are the tail of the emitted events, whose heights and blocks grow and end with
  the finalized state) and of `EpochInv` (the voting table is current, every root is finalized, and
  from the first epoch on the finalized state is not behind the root of its epoch).  The properties of
  epochs are not inductive alone: a table is current because no update comes from behind a root.

`LightClient_proofs`, of `ProverSpec`, for any number of provers and failures:

* `ContractFollowsBundle` and `BundleProofAlwaysFits`.  The invariant `SyncInv` adds to `LightInv` what each
  prover knows at each point of `sync_state`: what it has read is not newer than the contract, its
  local table is that of its epoch, and the epochs it has yet to advance lie below its bundle's.

Every inductive invariant was model-checked on the instance of its run before it was proved.

Only model-checked: the liveness properties (`RoundCompletes`, `BackInAgreement`, `EveryLeafTaken`,
`FollowsL1`, `ContractCatchesUp`), since fairness and `ENABLED` are outside the proof system, and the
properties refuted by the two runs that expect a violation.  Out of what `ActiveSetIsTop` covers is the order
among validators of equal stake: the model has it (`Precedes`), no property speaks of it.

## Findings

* Honest replicas may decide two branches when their vote tasks lag behind their proposal receive tasks
  (`fork`), with no faulty member and no equivocation.  The lock is moved when the vote task takes the event
  (`crates/hotshot/task-impls/src/quorum_vote/handlers.rs:263`), not when the proposal is accepted, and is not
  checked again before the vote.  It takes proposals of several views to be accepted before the votes for the
  first are handled, and a leader that has not seen the certificates of the trunk.
* Nodes in three different views do not find together by view sync alone (`viewsync_scattered`): the
  timer of a replica task changes the relay and not the round, so each waits in a round of its own.
  Such a spread takes lost proposals in two views and a member that is down; a quorum of nodes in two
  neighbouring views recovers (`viewsync_live`).

Observations that are not runs.  The models follow the code in each of them:

* A second proposal on the same parent decides the same grandparent again.  `update_last_decided_view`
  refuses it, in the branch whose comment says "this should never happen"
  (`crates/hotshot/task-impls/src/quorum_vote/handlers.rs:280`); nothing is announced twice.
* With the database, a DA proposal that is stored between the transaction that reads a batch and the
  one that deletes it is deleted without having been handed on; `FilePayloadsHandedOver` is
  therefore claimed of files, which are locked meanwhile.
* With files, if storing the genesis leaf fails, the oldest leaf of the next call is taken for the old
  anchor and never handed on, although a comment says that it "was always included in the _previous_
  decide event" (`sequencer/src/persistence/fs.rs:414`).
* With files, a stake table event whose file was created but not written is skipped afterwards, since
  the file exists, and `load_events` fails for good.
* With files, the migration of the legacy anchor leaf is never reached: `create_dir_all` comes before
  the test that the directory is missing.
* The light client contract compares heights with `epochStartBlock` in one place and epochs with
  `firstEpoch` in another.  The two agree only if the start block is not behind the root of its epoch:
  the proofs brought out that assumption, and nothing in the contract enforces it.
* The relay server fetches a table only for epochs beyond that of its latest bundle, which is taken to be 1
  when there is none.  If epochs start later than in the first one, its signatures are answered by
  "Stake table not found", where `post_signature` promises errors only for signatures that are
  "invalid, already posted, or no longer needed" (`sequencer/src/state_signature/relay_server.rs:274`).
* A view sync vote for a view that is already garbage-collected creates an accumulator that no later
  collection reaches (`crates/hotshot/task-impls/src/view_sync.rs:383`).
* `prune` of the relay server returns as soon as it meets a later height; tables of epochs that end
  meanwhile are then never removed.

* A validator whose V2 registration the nodes drop for its Schnorr signature stays registered in the contract.  The
  first kept event about it, a delegation for example, makes `validators_from_l1_events` return an error,
  and every later replay of the log too (`ReplayAgrees`).

Three comments the models do not follow, because the code differs from them: the epoch root is the sixth
block from the end of an epoch and not the third (`crates/hotshot/types/src/utils.rs:461`); and a
replica task may get a timeout of a higher relay than its own
(`crates/hotshot/task-impls/src/view_sync.rs:896`), when the event waits in the queue while the
finalize certificate ends the task, and meets a new task at relay 0, which ignores it; and
`lagOverEscapeHatchThreshold` does not revert "if the blockThreshold is zero"
(`contracts/src/LightClient.sol:366`): it answers as for any other threshold, and `EscapeHatchExact` covers
that answer.

## Not modelled

`PROJECT.json` lists every component with its status.

* Transport, HTTP APIs, metrics, command line tools, cryptography and generated code have no order of
  events to check; the models assume of the network that messages may be lost, repeated and
  reordered, and of signatures that they cannot be forged.
* The proposal task: `HotShot` lets any leader propose any leaf at any time, which includes whatever
  the proposal dependency task does, but says nothing of whether a correct leader proposes in time.
* Epoch transitions: the last blocks of an epoch, whose proposals and votes need certificates of two
  epochs and the extended QC, timeout certificates and view sync rounds across the boundary.  The
  models are of one epoch; the theorems about forks are not claimed across an epoch change.
* The DRB computation and the catchup of missing epochs from peers.
* The DA, VID, transaction and request tasks, of which `HotShot` sees only that data for a view is there.
* The accumulators of quorum, DA and timeout votes; those of view sync are modelled.
* The query service's own fetching and pruning, the builders and the request-response protocol: systems
  of their own, behind interfaces the modelled parts do not depend on for safety.
