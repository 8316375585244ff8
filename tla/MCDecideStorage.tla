-------------------------- MODULE MCDecideStorage --------------------------
(* Leaves of which one follows a view without a leaf. *)
EXTENDS DecideStorage

MCViewOf == [h \in Height |-> IF h < 2 THEN h ELSE h + 1]
=============================================================================
