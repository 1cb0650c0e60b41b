----------------------------- MODULE MCJobEngine -----------------------------
(* A small instance of JobEngine: two jobs that deploy to the same site, and goroutines   *)
(* enough for a duplicate trigger of either while both are being handled.                 *)
EXTENDS JobEngine, TLC

CONSTANTS j1, j2, t1, t2, t3, s1

MCJobs == {j1, j2}
MCTasks == {t1, t2, t3}
MCTwoTasks == {t1, t2}
MCSites == {s1}
MCSameSite == [j \in MCJobs |-> s1]
MCOneSite == [j \in MCJobs |-> IF j = j1 THEN s1 ELSE NoSite]

Symmetry == Permutations(Tasks) \cup Permutations(MCJobs)
==============================================================================
