----------------------------- MODULE MCViewSync -----------------------------
(***************************************************************************)
(* Four members of equal stake, one of them down or faulty: the failure     *)
(* threshold is two of them and the success threshold three.                *)
(***************************************************************************)
EXTENDS ViewSync, FiniteSets

MCNode == 1 .. 4
MCOneHonest == {S \in SUBSET MCNode : Cardinality(S) = 2}
MCQuorum == {S \in SUBSET MCNode : Cardinality(S) = 3}
\* Views go round the members, starting with member 4 in view 3.
MCLeader == [v \in 0 .. MaxView + 1 + MaxRelay |-> (v % 4) + 1]
\* Nodes that are at most one view apart.
MCAdjacent == [Live -> {1, 2}]

\* Members 1, 2 and 4 in three different views: member 4 has voted in view 2,
\* member 2 in view 1 only, and member 1 has missed both proposals.
MCScattered == {[n \in Live |-> IF n = 4 THEN 3 ELSE n]}

\* The faulty members ask for round 3 at its first relay.
MCFaultyVote == {Vote("PreCommit", 3, 0, n) : n \in Faulty}
=============================================================================
