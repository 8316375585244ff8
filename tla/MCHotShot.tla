----------------------------- MODULE MCHotShot -----------------------------
(***************************************************************************)
(* Small instances of HotShot.  The leaf universe is a trunk A, B, C that   *)
(* decides A and a fork X, Y, Z from the genesis leaf that decides X.       *)
(***************************************************************************)
EXTENDS HotShotLedger, FiniteSets, TLC

MCParent ==
  [l \in {"G", "A", "B", "C", "X", "Y", "Z"} |->
     CASE l \in {"G", "A", "X"} -> "G" [] l = "B" -> "A" [] l = "C" -> "B"
       [] l = "Y" -> "X" [] l = "Z" -> "Y"]
MCLeaf == DOMAIN MCParent
MCAnc ==
  [l \in MCLeaf |->
     CASE l = "G" -> {"G"} [] l = "A" -> {"G", "A"} [] l = "B" -> {"G", "A", "B"}
       [] l = "C" -> {"G", "A", "B", "C"} [] l = "X" -> {"G", "X"}
       [] l = "Y" -> {"G", "X", "Y"} [] l = "Z" -> {"G", "X", "Y", "Z"}]
MCViews == 0..6

\* An equivocating leader: C and X are proposals of one view.
MCView ==
  [l \in MCLeaf |->
     CASE l = "G" -> 0 [] l = "A" -> 1 [] l = "B" -> 2 [] l \in {"C", "X"} -> 3
       [] l = "Y" -> 4 [] l = "Z" -> 5]

\* Every leader makes one proposal; that of X has not seen the trunk.
MCViewApart ==
  [l \in MCLeaf |->
     CASE l = "G" -> 0 [] l = "A" -> 1 [] l = "B" -> 2 [] l = "C" -> 3
       [] l = "X" -> 4 [] l = "Y" -> 5 [] l = "Z" -> 6]

\* The smallest sets that reach the success threshold when all members have
\* the same stake; larger ones add no certificates.
MCQuorum == {Q \in SUBSET Node : Cardinality(Q) = (2 * Cardinality(Node)) \div 3 + 1}
Symmetry == Permutations(Honest)
=============================================================================
