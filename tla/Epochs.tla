------------------------------- MODULE Epochs -------------------------------
(***************************************************************************)
(* The epoch arithmetic of hotshot_types::utils.  An epoch of height h has  *)
(* h blocks; its root is the block five before its last one, and its last   *)
(* three blocks and the one before them form the epoch transition.          *)
(*                                                                          *)
(* The functions take u64 arguments.  Subtractions such as h - 5 wrap for   *)
(* heights from 1 to 4, which no deployment uses: the light client contract *)
(* rejects heights up to 5, and 0 turns epochs off.                         *)
(***************************************************************************)
EXTENDS Naturals, FiniteSets

epoch_from_block_number(b, h) ==
  IF h = 0 THEN 0
  ELSE IF b = 0 THEN 1
  ELSE IF b % h = 0 THEN b \div h
  ELSE b \div h + 1

root_block_in_epoch(e, h) == IF h = 0 \/ e < 1 THEN 0 ELSE h * e - 5

transition_block_for_epoch(e, h) == IF h = 0 \/ e < 1 THEN 0 ELSE h * e - 3

is_transition_block(b, h) == b # 0 /\ h # 0 /\ (b + 3) % h = 0

is_first_transition_block(b, h) == b # 0 /\ h # 0 /\ b % h = h - 2

\* Mutant: the last block of the epoch is left out.
is_epoch_transition_short(b, h) == b # 0 /\ h # 0 /\ b % h >= h - 3

is_epoch_transition(b, h) == b # 0 /\ h # 0 /\ (b % h >= h - 3 \/ b % h = 0)

is_last_block(b, h) == b # 0 /\ h # 0 /\ b % h = 0

is_middle_transition_block(b, h) == b # 0 /\ h # 0 /\ h - (b % h) \in {1, 2}

is_epoch_root(b, h) == b # 0 /\ h # 0 /\ (b + 5) % h = 0

is_ge_epoch_root(b, h) == b # 0 /\ h # 0 /\ (b % h = 0 \/ b % h >= h - 5)

is_gt_epoch_root(b, h) == b # 0 /\ h # 0 /\ (b % h = 0 \/ b % h > h - 5)
=============================================================================
