----------------------------- MODULE StateProver -----------------------------
(***************************************************************************)
(* The state prover service (hotshot-state-prover/src/service.rs) keeping   *)
(* the light client contract up to date: it reads the contract, takes the   *)
(* latest bundle of signatures from the relay server, submits the epoch     *)
(* roots the contract has missed and then the bundle's state.               *)
(*                                                                          *)
(* Several provers may run.  The contract's state and voting table are read *)
(* by two calls and used long after, so every other prover's update may     *)
(* come in between; calls fail and provers restart.                         *)
(***************************************************************************)
EXTENDS LightClient

CONSTANT MaxFailures   \* bound on the failed calls and restarts

VARIABLES
  bundle,    \* height of the relay server's latest available bundle, 0 if none
  prover,    \* the state of each prover
  failures   \* failed calls and restarts so far

vars == <<lightClientVars, bundle, prover, failures>>

\* The start of sync_state.  Only the epoch of the local stake table lives
\* from one call of it to the next; 0 stands for None.
Idle(epoch) ==
  [pc |-> "idle", epoch |-> epoch, fin |-> 0, table |-> 0, bundle |-> 0, next |-> 0, goal |-> 0]

Set(p, s) == prover' = [prover EXCEPT ![p] = s]

-----------------------------------------------------------------------------
\* sync_state, call by call.

\* read_contract_state, the call of finalizedState.
ReadFinalized(p) ==
  /\ prover[p].pc = "idle"
  /\ Set(p, [prover[p] EXCEPT !.pc = "read", !.fin = finalized])
  /\ UNCHANGED <<lightClientVars, bundle, failures>>

\* read_contract_state, the call of votingStakeTableState.
ReadVoting(p) ==
  /\ prover[p].pc = "read"
  /\ Set(p, [prover[p] EXCEPT !.pc = "fetch", !.table = voting])
  /\ UNCHANGED <<lightClientVars, bundle, failures>>

\* option_epoch_from_block_number.
EpochOf(b) ==
  IF b >= EpochStart THEN epoch_from_block_number(b, BlocksPerEpoch) ELSE 0

\* Mutant: the epoch of the block, even if the block is an epoch root.
ContractEpochOfBlock(fin) == EpochOf(fin)

\* The epoch of the contract: past an epoch root it is the next one already.
ContractEpoch(fin) ==
  IF fin >= EpochStart /\ is_epoch_root(fin, BlocksPerEpoch) THEN EpochOf(fin) + 1 ELSE EpochOf(fin)

Larger(x, y) == IF x > y THEN x ELSE y

\* fetch_latest_state, and what sync_state makes of the bundle: the local table
\* follows the contract's epoch, and a contract that is behind is advanced.
\* Without a bundle the call fails, and all starts again.
FetchLatest(p) ==
  LET s == prover[p]
      epoch == ContractEpoch(s.fin)
  IN  /\ s.pc = "fetch"
      /\ Set(p, IF s.fin >= bundle THEN Idle(s.epoch)
                ELSE IF bundle < EpochStart
                THEN [s EXCEPT !.pc = "submit", !.bundle = bundle]
                ELSE IF EpochOf(bundle) > epoch
                THEN [s EXCEPT !.pc = "advance", !.bundle = bundle, !.epoch = epoch,
                               !.next = Larger(epoch, First), !.goal = EpochOf(bundle)]
                ELSE [s EXCEPT !.pc = "finish", !.bundle = bundle, !.epoch = epoch])
      /\ UNCHANGED <<lightClientVars, bundle, failures>>

\* generate_proof succeeds when the entries of the local table have signed, and
\* are what the stake table state read from the contract commits to.
CanProve(p, h, next) ==
  /\ TableOf(prover[p].epoch) = prover[p].table
  /\ QuorumSigned(h, prover[p].table, next)

\* The contract takes a proof, which is for the table read earlier.
Accepts(p, h, next) ==
  CanProve(p, h, next) /\ voting = prover[p].table /\ Acceptable(h, next)

\* Mutant: the loop runs up to the target epoch and over it.
EpochsLeftInclusive(s) == s.next <= s.goal

\* The epochs of the loop of advance_epoch: base_epoch..target_epoch.
EpochsLeft(s) == s.next < s.goal

\* Mutant: the local table stays behind by an epoch.
SyncedEpochLate(s) == s.next

\* The epoch of the local table after a round of the loop.
SyncedEpoch(s) == s.next + 1

\* One round of advance_epoch: the root of the next epoch is submitted with the
\* state certificate of a query node.  A proof that is not accepted ends
\* sync_state with an error.
AdvanceEpoch(p) ==
  LET s == prover[p]
      root == root_block_in_epoch(s.next, BlocksPerEpoch)
      next == TableOf(s.next + 1)
  IN  /\ s.pc = "advance"
      /\ EpochsLeft(s)
      /\ \/ /\ Accepts(p, root, next)
            /\ NewFinalizedState(p, root, next)
            /\ Set(p, [s EXCEPT !.epoch = SyncedEpoch(s), !.table = next, !.next = @ + 1])
         \/ /\ ~Accepts(p, root, next)
            /\ Set(p, Idle(s.epoch))
            /\ UNCHANGED lightClientVars
      /\ UNCHANGED <<bundle, failures>>

\* advance_epoch is over.
Advanced(p) ==
  /\ prover[p].pc = "advance"
  /\ ~EpochsLeft(prover[p])
  /\ Set(p, IF prover[p].goal > EpochOf(prover[p].bundle) THEN Idle(prover[p].epoch)
            ELSE [prover[p] EXCEPT !.pc = "finish"])
  /\ UNCHANGED <<lightClientVars, bundle, failures>>

\* With the contract in the epoch of the bundle, either the epoch is ended or
\* the bundle is submitted.
Finish(p) ==
  LET s == prover[p]
      epoch == EpochOf(s.bundle)
  IN  /\ s.pc = "finish"
      /\ Set(p, IF is_ge_epoch_root(s.bundle, BlocksPerEpoch)
                THEN [s EXCEPT !.pc = "advance", !.epoch = epoch, !.next = epoch, !.goal = epoch + 1]
                ELSE [s EXCEPT !.pc = "submit"])
      /\ UNCHANGED <<lightClientVars, bundle, failures>>

\* generate_proof and submit_state_and_proof for the bundle.
Submit(p) ==
  LET s == prover[p]
  IN  /\ s.pc = "submit"
      /\ \/ Accepts(p, s.bundle, s.table) /\ NewFinalizedState(p, s.bundle, s.table)
         \/ ~Accepts(p, s.bundle, s.table) /\ UNCHANGED lightClientVars
      /\ Set(p, Idle(s.epoch))
      /\ UNCHANGED <<bundle, failures>>

\* A call to the relay server, a query node or the L1 fails: sync_state returns
\* the error and run_prover_service calls it again.
CallFails(p) ==
  /\ failures < MaxFailures
  /\ prover[p].pc # "idle"
  /\ failures' = failures + 1
  /\ Set(p, Idle(prover[p].epoch))
  /\ UNCHANGED <<lightClientVars, bundle>>

\* The transaction is executed, but submit_state_and_proof, or the fetch of the
\* next table after it, fails: the prover does not know of its own update.
AnswerLost(p) ==
  LET s == prover[p]
      root == root_block_in_epoch(s.next, BlocksPerEpoch)
      next == TableOf(s.next + 1)
  IN  /\ failures < MaxFailures
      /\ \/ s.pc = "advance" /\ EpochsLeft(s) /\ Accepts(p, root, next) /\ NewFinalizedState(p, root, next)
         \/ s.pc = "submit" /\ Accepts(p, s.bundle, s.table) /\ NewFinalizedState(p, s.bundle, s.table)
      /\ failures' = failures + 1
      /\ Set(p, Idle(s.epoch))
      /\ UNCHANGED bundle

\* The service restarts with the genesis table.
Restart(p) ==
  /\ failures < MaxFailures
  /\ failures' = failures + 1
  /\ Set(p, Idle(0))
  /\ UNCHANGED <<lightClientVars, bundle>>

-----------------------------------------------------------------------------

\* The relay server has enough signatures for a later state.
PublishBundle(h) ==
  /\ h > bundle
  /\ h >= Upgrade => ~is_ge_epoch_root(h, BlocksPerEpoch)
  /\ bundle' = h
  /\ UNCHANGED <<lightClientVars, prover, failures>>

\* The contract has been given the start block.
ProverInit ==
  /\ Init /\ Configured
  /\ bundle = 0
  /\ prover = [p \in Prover |-> Idle(0)]
  /\ failures = 0

SyncStep(p) ==
  \/ ReadFinalized(p)
  \/ ReadVoting(p)
  \/ FetchLatest(p)
  \/ AdvanceEpoch(p)
  \/ Advanced(p)
  \/ Finish(p)
  \/ Submit(p)

ProverNext ==
  \/ \E p \in Prover : SyncStep(p) \/ CallFails(p) \/ AnswerLost(p) \/ Restart(p)
  \/ \E h \in Heights : PublishBundle(h)

\* Every prover keeps calling sync_state.
ProverSpec ==
  ProverInit /\ [][ProverNext]_vars /\ \A p \in Prover : WF_vars(SyncStep(p))

-----------------------------------------------------------------------------
\* Properties.

\* The proof of a bundle's state is only in vain if another prover has moved the
\* contract on since sync_state read it: the epochs that advance_epoch has gone
\* through, and the local table it ends with, are those the contract checks.
BundleProofFits ==
  \A p \in Prover :
    LET s == prover[p]
    IN  s.pc = "submit" => \/ Accepts(p, s.bundle, s.table)
                           \/ finalized >= s.bundle
                           \/ voting # s.table

\* advance_epoch stops in the epoch of the bundle: the contract never gets ahead
\* of the latest state the relay server knows to be signed.
NeverAheadOfBundle == finalized <= bundle

\* Whatever the interleaving of the provers, the calls that fail and the
\* restarts, the contract reaches every state the relay server makes available.
ContractCatchesUp == \A h \in Heights : bundle = h ~> finalized >= h
=============================================================================
