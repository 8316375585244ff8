---------------------------- MODULE CommonLedger ----------------------------
(***************************************************************************)
(* What consensus promises to its clients: one log of decided leaves, which *)
(* only ever grows by extending the branch it already holds.                *)
(***************************************************************************)
CONSTANTS Leaf, Genesis, Anc

VARIABLE log

Init == log = {Genesis}

\* The log becomes the branch of a leaf that extends everything in it.
Extend == \E l \in Leaf : log \subseteq Anc[l] /\ log' = Anc[l]

Spec == Init /\ [][Extend]_log
=============================================================================
