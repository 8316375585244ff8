------------------------------ MODULE EpochChain -----------------------------
(***************************************************************************)
(* A chain that counts its epochs: every block either is the next one of    *)
(* its epoch or begins a new epoch.                                         *)
(***************************************************************************)
EXTENDS Epochs

CONSTANTS
  EpochHeights,  \* heights of an epoch
  MaxBlock       \* bound on the length of the chain

\* An epoch has more than five blocks, as initializeV2 of the light client
\* contract demands.
ASSUME HeightsAssumption == EpochHeights \subseteq Nat /\ \A h \in EpochHeights : h > 5

VARIABLES
  height,    \* the epoch height
  block,     \* the last block
  epoch,     \* its epoch
  position   \* its place in the epoch, from 1 to height

vars == <<height, block, epoch, position>>

Init ==
  /\ height \in EpochHeights
  /\ block = 1 /\ epoch = 1 /\ position = 1

NextBlock ==
  /\ block < MaxBlock
  /\ block' = block + 1
  /\ IF position = height
       THEN epoch' = epoch + 1 /\ position' = 1
       ELSE epoch' = epoch /\ position' = position + 1
  /\ UNCHANGED height

Spec == Init /\ [][NextBlock]_vars

\* epoch_from_block_number, a division, counts the epochs of the chain, and the
\* predicates on block numbers agree with each other and with the functions that
\* give the root and the transition block of an epoch: every epoch has one root,
\* five blocks before its end, then blocks behind the root, then the transition:
\* the last full block, two middle blocks and the last block.
PhasesAgree ==
  LET left == height - position   \* blocks that follow in the epoch
  IN  /\ epoch_from_block_number(block, height) = epoch
      /\ is_epoch_root(block, height) <=> left = 5
      /\ is_epoch_root(block, height) <=> block = root_block_in_epoch(epoch, height)
      /\ is_ge_epoch_root(block, height) <=> block >= root_block_in_epoch(epoch, height)
      /\ is_gt_epoch_root(block, height) <=> block > root_block_in_epoch(epoch, height)
      /\ is_transition_block(block, height) <=> block = transition_block_for_epoch(epoch, height)
      /\ is_epoch_transition(block, height) <=> block >= transition_block_for_epoch(epoch, height)
      /\ is_first_transition_block(block, height) <=> left = 2
      /\ is_middle_transition_block(block, height) <=>
           /\ is_epoch_transition(block, height)
           /\ ~is_transition_block(block, height)
           /\ ~is_last_block(block, height)
=============================================================================
