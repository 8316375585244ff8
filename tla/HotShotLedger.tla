--------------------------- MODULE HotShotLedger ---------------------------
(***************************************************************************)
(* What the replicas of HotShot together show of CommonLedger: the log is   *)
(* what all Decide events so far have announced, with the ancestors they    *)
(* imply.                                                                   *)
(***************************************************************************)
EXTENDS HotShot

AllDecided == UNION {decided[n] : n \in Honest}

DecidedLog == {Genesis} \cup UNION {Anc[a] : a \in AllDecided}

L == INSTANCE CommonLedger WITH log <- DecidedLog

\* Every step of the replicas extends the common log or leaves it alone, and
\* no Decide event of any node replaces or forks what was decided before.
ImplementsLedger == L!Spec

\* A step that changes the log extends it, unless some node has by then voted
\* below its lock: up to the first such vote the Decide events of all nodes,
\* in whatever order they are announced, grow one common ledger.
ExtendsUnlessLockBreach == [][VotesRespectLock' => L!Extend]_DecidedLog
=============================================================================
