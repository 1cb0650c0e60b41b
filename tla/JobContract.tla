----------------------------- MODULE JobContract -----------------------------
(***************************************************************************)
(* What the job engine promises the control plane, with no goroutines,     *)
(* marks or messages: every start of a job uses up one offer of it, a job  *)
(* never runs twice at once, at most MaxConcurrent jobs run, and at most   *)
(* one of them is inside the deploy section of a site.                     *)
(***************************************************************************)
EXTENDS Integers, FiniteSets

CONSTANTS Jobs, Sites, SiteOf, MaxConcurrent

VARIABLES credit, running, deploying

vars == <<credit, running, deploying>>

Init ==
    /\ credit = [j \in Jobs |-> 1]
    /\ running = {} /\ deploying = {}

Offer(j) ==
    /\ credit' = [credit EXCEPT ![j] = @ + 1]
    /\ UNCHANGED <<running, deploying>>

GoesElsewhere(j) ==
    /\ credit[j] > 0
    /\ credit' = [credit EXCEPT ![j] = @ - 1]
    /\ UNCHANGED <<running, deploying>>

Start(j) ==
    /\ j \notin running /\ credit[j] > 0
    /\ Cardinality(running) < MaxConcurrent
    /\ running' = running \cup {j}
    /\ credit' = [credit EXCEPT ![j] = @ - 1]
    /\ UNCHANGED deploying

EnterDeploy(j) ==
    /\ j \in running \ deploying /\ SiteOf[j] \in Sites
    /\ \A k \in deploying : SiteOf[k] # SiteOf[j]
    /\ deploying' = deploying \cup {j}
    /\ UNCHANGED <<credit, running>>

LeaveDeploy(j) ==
    /\ j \in deploying
    /\ deploying' = deploying \ {j}
    /\ UNCHANGED <<credit, running>>

Finish(j) ==
    /\ j \in running \ deploying
    /\ running' = running \ {j}
    /\ UNCHANGED <<credit, deploying>>

\* The process ends: whatever ran is gone.
Abort ==
    /\ running' = {} /\ deploying' = {}
    /\ UNCHANGED credit

Next ==
    \/ \E j \in Jobs : \/ Offer(j) \/ GoesElsewhere(j) \/ Start(j)
                       \/ EnterDeploy(j) \/ LeaveDeploy(j) \/ Finish(j)
    \/ Abort

Spec == Init /\ [][Next]_vars
==============================================================================
