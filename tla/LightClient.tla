----------------------------- MODULE LightClient -----------------------------
(***************************************************************************)
(* The light client contract (LightClient.sol and LightClientV2.sol): the   *)
(* finalized HotShot state it holds, the stake table whose quorum may       *)
(* update it, and the history of updates it answers queries from.           *)
(*                                                                          *)
(* A stake table is represented by the epoch it belongs to, the genesis     *)
(* table by 0.  A light client state is represented by its block height:    *)
(* consensus finalizes one block per height, with growing views.            *)
(*                                                                          *)
(* The SNARK verifier accepts what a quorum has signed (QuorumSigned).      *)
(***************************************************************************)
EXTENDS Epochs, Sequences

CONSTANTS
  BlocksPerEpoch,
  EpochStart,  \* the epoch_start_block of the HotShot configuration
  Upgrade,     \* first block decided under the version with epochs
  Starts,      \* start blocks that the contract may have been given
  Prover,      \* accounts that submit states
  NoProver,    \* address(0)
  Heights,     \* heights of the states that are submitted
  Retentions,  \* retention periods, in the unit of time of the model
  MaxTime,     \* bound on block.timestamp
  MaxUpdates   \* bound on the number of updates

First == epoch_from_block_number(EpochStart, BlocksPerEpoch)

\* initializeV2 demands epochs of more than five blocks.  Epochs are switched
\* on by an upgrade in the first epoch, early enough to precede its root (the
\* epoch checks of the upgrade task).  A start block in that epoch or an earlier
\* one is not behind the root of its epoch.
ASSUME LightClientAssumption ==
  /\ BlocksPerEpoch \in Nat /\ BlocksPerEpoch > 5
  /\ EpochStart \in Starts /\ Starts \subseteq Nat /\ Heights \subseteq Nat /\ Upgrade \in Nat
  /\ Retentions \subseteq Nat /\ Retentions # {} /\ MaxTime \in Nat /\ MaxUpdates \in Nat
  /\ epoch_from_block_number(Upgrade, BlocksPerEpoch) = First
  /\ ~is_ge_epoch_root(Upgrade, BlocksPerEpoch)
  /\ \A b \in Starts :
       epoch_from_block_number(b, BlocksPerEpoch) <= First => ~is_gt_epoch_root(b, BlocksPerEpoch)
  /\ NoProver \notin Prover

VARIABLES
  finalized,   \* finalizedState.blockHeight
  voting,      \* votingStakeTableState
  epochStart,  \* epochStartBlock, and with it firstEpoch
  permitted,   \* permissionedProver
  retention,   \* stateHistoryRetentionPeriod
  history,     \* stateHistoryCommitments
  firstIndex,  \* stateHistoryFirstIndex, counted from 1
  now,         \* block.timestamp and block.number
  emitted      \* the NewState events, with the block they were emitted in

contract == <<finalized, voting, epochStart, permitted, retention, history, firstIndex, emitted>>

lightClientVars == <<contract, now>>

-----------------------------------------------------------------------------
\* What the quorums of HotShot sign.

\* The table of epoch e: set_first_epoch gives the genesis table to the first
\* two epochs, and before them there is no other.
TableOf(e) == IF e <= First + 1 THEN 0 ELSE e

\* The state signer signs every decided block up to the epoch root together
\* with the table of its epoch; the root of an epoch is signed with the epoch
\* root vote, together with the table of the next epoch; nothing behind the
\* root is signed.
QuorumSigned(h, table, next) ==
  LET e == epoch_from_block_number(h, BlocksPerEpoch)
  IN  /\ table = TableOf(e)
      /\ IF h >= Upgrade /\ is_epoch_root(h, BlocksPerEpoch)
           THEN next = TableOf(e + 1)
           ELSE next = table /\ ~(h >= Upgrade /\ is_ge_epoch_root(h, BlocksPerEpoch))

-----------------------------------------------------------------------------
\* The contract.

EpochFromBlockNumber(b) ==
  IF b = 0 THEN 1
  ELSE IF b % BlocksPerEpoch = 0 THEN b \div BlocksPerEpoch
  ELSE b \div BlocksPerEpoch + 1

IsEpochRoot(b) == b # 0 /\ (b + 5) % BlocksPerEpoch = 0

\* Mutant: the root itself counts as behind the root.
IsGeEpochRoot(b) ==
  b # 0 /\ (b % BlocksPerEpoch = 0 \/ b % BlocksPerEpoch >= BlocksPerEpoch - 5)

IsGtEpochRoot(b) ==
  b # 0 /\ (b % BlocksPerEpoch = 0 \/ b % BlocksPerEpoch > BlocksPerEpoch - 5)

FirstEpoch == EpochFromBlockNumber(epochStart)

VerifyProof(h, next) ==
  QuorumSigned(h, voting, IF h >= epochStart /\ IsEpochRoot(h) THEN next ELSE voting)

\* Mutant: an epoch may be entered whatever the last state was.
EpochChecksWithoutRoot(h) ==
  LET e == EpochFromBlockNumber(h)
  IN  /\ e >= FirstEpoch => ~IsGtEpochRoot(h)
      /\ e > FirstEpoch => e < EpochFromBlockNumber(finalized) + 2

\* The checks of newFinalizedState on epochs: nothing behind an epoch root is
\* accepted, and the next epoch only after the root of the last one.
EpochChecks(h) ==
  LET e == EpochFromBlockNumber(h)
      last == EpochFromBlockNumber(finalized)
  IN  /\ e >= FirstEpoch => ~IsGtEpochRoot(h)
      /\ e > FirstEpoch => e < last + 2 /\ (e = last + 1 => IsEpochRoot(finalized))

Zero == [block |-> 0, time |-> 0, height |-> 0]

\* updateStateHistory: at most one old entry is deleted per update.
UpdateStateHistory(h) ==
  LET old == history # << >> /\ now - history[firstIndex].time > retention
      entry == [block |-> now, time |-> now, height |-> h]
  IN  /\ history' = Append(IF old THEN [history EXCEPT ![firstIndex] = Zero] ELSE history, entry)
      /\ firstIndex' = IF old THEN firstIndex + 1 ELSE firstIndex

Acceptable(h, next) == h > finalized /\ EpochChecks(h) /\ VerifyProof(h, next)

\* Mutant: the new table is taken over one epoch late.
NextVotingLate(h, next) ==
  IF EpochFromBlockNumber(h) > FirstEpoch + 1 /\ IsEpochRoot(h) THEN next ELSE voting

NextVoting(h, next) ==
  IF EpochFromBlockNumber(h) >= FirstEpoch /\ IsEpochRoot(h) THEN next ELSE voting

NewFinalizedState(p, h, next) ==
  /\ permitted \in {NoProver, p}
  /\ Acceptable(h, next)
  /\ Len(emitted) < MaxUpdates
  /\ finalized' = h
  /\ voting' = NextVoting(h, next)
  /\ UpdateStateHistory(h)
  /\ emitted' = Append(emitted, [height |-> h, block |-> now])
  /\ UNCHANGED <<epochStart, permitted, retention, now>>

SetPermissionedProver(p) ==
  /\ p # permitted
  /\ permitted' = p
  /\ UNCHANGED <<finalized, voting, epochStart, retention, history, firstIndex, now, emitted>>

DisablePermissionedProverMode ==
  /\ permitted # NoProver
  /\ permitted' = NoProver
  /\ UNCHANGED <<finalized, voting, epochStart, retention, history, firstIndex, now, emitted>>

SetStateHistoryRetentionPeriod(r) ==
  /\ r > retention
  /\ retention' = r
  /\ UNCHANGED <<finalized, voting, epochStart, permitted, history, firstIndex, now, emitted>>

UpdateEpochStartBlock(b) ==
  /\ epochStart' = b
  /\ UNCHANGED <<finalized, voting, permitted, retention, history, firstIndex, now, emitted>>

\* Another L1 block.
Tick ==
  /\ now < MaxTime
  /\ now' = now + 1
  /\ UNCHANGED contract

\* The view functions.

\* Mutant: the search starts with the newest entry.
GetHotShotCommitmentNewest(h) == history[Len(history)].height

\* getHotShotCommitment, for h below the last height in the history.
GetHotShotCommitment(h) ==
  LET i == CHOOSE i \in firstIndex..Len(history) :
             history[i].height > h /\ \A j \in firstIndex..(i - 1) : history[j].height <= h
  IN  history[i].height

\* Mutant: the update looked for is strictly older than the block.
LagFromOlderUpdate(b, threshold) ==
  LET i == CHOOSE i \in firstIndex..Len(history) :
             /\ history[i].block < b \/ i = firstIndex
             /\ \A j \in (i + 1)..Len(history) : history[j].block >= b
  IN  b - history[i].block > threshold

\* lagOverEscapeHatchThreshold, for a block b that is not before the first
\* entry nor in the future.
LagOverEscapeHatchThreshold(b, threshold) ==
  LET i == CHOOSE i \in firstIndex..Len(history) :
             history[i].block <= b /\ \A j \in (i + 1)..Len(history) : history[j].block > b
  IN  b - history[i].block > threshold

-----------------------------------------------------------------------------

Init ==
  /\ finalized = 0
  /\ voting = 0
  /\ epochStart \in Starts
  /\ permitted = NoProver
  /\ retention \in Retentions
  /\ history = << >>
  /\ firstIndex = 1
  /\ now = 0
  /\ emitted = << >>

\* The contract knows the start block before HotShot reaches the first epoch,
\* and the owner leaves it alone from then on.
Configured == epochStart = EpochStart

Next ==
  \/ \E p \in Prover, h \in Heights :
       /\ Configured \/ EpochFromBlockNumber(h) < First
       /\ \E next \in 0..(EpochFromBlockNumber(h) + 1) : NewFinalizedState(p, h, next)
  \/ \E p \in Prover : SetPermissionedProver(p)
  \/ DisablePermissionedProverMode
  \/ \E r \in Retentions : SetStateHistoryRetentionPeriod(r)
  \/ \E b \in Starts : EpochFromBlockNumber(finalized) < First /\ UpdateEpochStartBlock(b)
  \/ Tick

Spec == Init /\ [][Next]_lightClientVars

-----------------------------------------------------------------------------
\* Properties.

Entry == [block : Nat, time : Nat, height : Nat]

\* The types of the contract's storage; stateHistoryFirstIndex is the index of
\* an entry once there is one.
TypeOK ==
  /\ finalized \in Nat
  /\ voting \in Nat
  /\ epochStart \in Starts
  /\ permitted \in Prover \cup {NoProver}
  /\ retention \in Retentions
  /\ history \in Seq(Entry)
  /\ firstIndex \in 1..Len(history) \/ (history = << >> /\ firstIndex = 1)
  /\ now \in 0..MaxTime
  /\ emitted \in Seq([height : Nat, block : Nat])

\* The epoch whose quorum may make the next update: one past an epoch root
\* belongs to the next epoch.
UpdateEpoch ==
  LET e == EpochFromBlockNumber(finalized)
  IN  IF e >= First /\ IsEpochRoot(finalized) THEN e + 1 ELSE e

\* The stake table that newFinalizedState verifies against is the table of the
\* epoch that the next update belongs to.
VotingTableIsCurrent == voting = TableOf(UpdateEpoch)

\* No epoch is skipped: when the finalized state is in some epoch, the roots of
\* all the earlier ones since the activation have been finalized.
EveryRootFinalized ==
  \A e \in First..(EpochFromBlockNumber(finalized) - 1) :
    \E i \in DOMAIN emitted : emitted[i].height = root_block_in_epoch(e, BlocksPerEpoch)

\* The contract is never stuck: some state that a quorum signs within the next
\* two epochs is accepted, whatever was submitted before.
CanAdvance ==
  Configured =>
    \E h \in (finalized + 1)..(finalized + 2 * BlocksPerEpoch) :
      \E next \in {TableOf(EpochFromBlockNumber(h) + 1), voting} : Acceptable(h, next)

\* getHotShotCommitment answers with the first finalized height above h among
\* those the contract has kept, never with a deleted entry.
CommitmentCovers ==
  history # << >> =>
    \A h \in 0..(finalized - 1) :
      LET c == GetHotShotCommitment(h)
      IN  /\ c > h
          /\ \A i \in firstIndex..Len(emitted) : emitted[i].height > h => c <= emitted[i].height

\* lagOverEscapeHatchThreshold tells whether there was no update in the last
\* blocks before b, although it only sees the entries that were not deleted.
\* A threshold of zero is answered like any other: the comment that says that
\* the function reverts then is not what it does.
EscapeHatchExact ==
  history # << >> =>
    \A b \in history[firstIndex].block..now, threshold \in 0..MaxTime :
      LagOverEscapeHatchThreshold(b, threshold) <=>
        ~\E i \in DOMAIN emitted : emitted[i].block <= b /\ emitted[i].block + threshold >= b
=============================================================================
