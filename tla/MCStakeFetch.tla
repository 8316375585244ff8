---------------------------- MODULE MCStakeFetch ----------------------------
(***************************************************************************)
(* Two events in the first block, a block without any, and a last event;    *)
(* the tables of two epochs, one before and one after it.                   *)
(***************************************************************************)
EXTENDS StakeFetch

MCBlockOf == [e \in Log |-> IF e < 3 THEN 1 ELSE 3]
MCRootBlock == [e \in Epochs |-> IF e = 1 THEN 1 ELSE 3]
=============================================================================
