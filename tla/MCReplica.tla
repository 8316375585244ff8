----------------------------- MODULE MCReplica -----------------------------
(***************************************************************************)
(* A replica whose tasks interleave freely and which may restart at any     *)
(* moment.  Its own vote is a quorum, so that after a restart it lags       *)
(* behind certificates of its earlier votes; n2 is faulty.  The chain is    *)
(* long enough for garbage collection, and view 3 has two proposals.        *)
(***************************************************************************)
EXTENDS HotShotRestart, TLC

CONSTANTS n1, n2

MCView ==
  "G" :> 0 @@ "A1" :> 1 @@ "B2" :> 2 @@ "C3" :> 3 @@ "X3" :> 3 @@ "D4" :> 4
MCParent ==
  "G" :> "G" @@ "A1" :> "G" @@ "B2" :> "A1" @@ "C3" :> "B2" @@ "X3" :> "B2" @@ "D4" :> "C3"
MCLeaf == DOMAIN MCView
MCAnc ==
  LET anc[l \in MCLeaf] == IF l = "G" THEN {"G"} ELSE {l} \cup anc[MCParent[l]]
  IN  anc
MCViews == 0..5
MCQuorum == {{n1}, {n1, n2}}
=============================================================================
