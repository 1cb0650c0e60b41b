--------------------------- MODULE JobEngineProofs ---------------------------
(***************************************************************************)
(* Theorems about JobEngine for every number of jobs, goroutines and sites *)
(* and every bound. The argument rests on one fact, OneOwnerPerJob: the    *)
(* dispatched mark gives a job to one goroutine from markDispatched to     *)
(* clearDispatched. Each of the other books (the mark, the active entry,   *)
(* the site lock, the credit of a job) is kept by the owner alone.         *)
(***************************************************************************)
EXTENDS JobEngine, FiniteSetTheorems, TLAPS

USE DEF Marked, Activated, Slotted, InAction, Owing

Holders == {t \in Tasks : pc[t] \in Slotted}
\* The semaphore counts the goroutines between AcquireSlot and ReleaseSlot.
SlotCount == slots = Cardinality(Holders)

LEMMA HoldersFinite == IsFiniteSet(Holders) /\ Cardinality(Holders) \in Nat
  BY TasksAssumption, FS_Subset, FS_CardinalityType DEF Holders

LEMMA InitType == Init => TypeOK /\ SlotCount
<1> SUFFICES ASSUME Init PROVE TypeOK /\ SlotCount
  OBVIOUS
<1>1. TypeOK
  <2> USE DEF Init
  <2>1. /\ cp \in [Jobs -> {"pending", "accepted", "elsewhere", "closed"}]
        /\ late \subseteq Jobs /\ faulted \subseteq Jobs /\ polled \subseteq Jobs
        /\ dispatched \subseteq Jobs /\ active \subseteq Jobs /\ siteLock \subseteq Sites
    OBVIOUS
  <2>2. slots \in Nat /\ cancelled \in BOOLEAN
    OBVIOUS
  <2>3. /\ pc \in [Tasks -> PcStates] /\ job \in [Tasks -> Jobs \cup {NoJob}]
        /\ \A t \in Tasks : job[t] = NoJob <=> pc[t] = "idle"
    BY DEF PcStates
  <2>4. credit \in [Jobs -> Int] /\ triggers \in Nat /\ requeues \in Nat /\ stops \in Nat
    OBVIOUS
  <2>5. QED
    BY <2>1, <2>2, <2>3, <2>4 DEF TypeOK
<1>2. Holders = {}
  BY DEF Init, Holders
<1>3. QED
  BY <1>1, <1>2, FS_EmptySet DEF Init, SlotCount

LEMMA StepType == TypeOK /\ SlotCount /\ [Next]_vars => TypeOK'
<1> SUFFICES ASSUME TypeOK, SlotCount, [Next]_vars PROVE TypeOK'
  OBVIOUS
<1> USE JobsAssumption, SitesAssumption, BoundsAssumption
<1>1. ASSUME NEW j \in Jobs,
             Requeue(j) \/ OtherWorkerClaims(j) \/ LateClaimArrives(j)
               \/ LateClaimDropped(j) \/ PollSkip(j)
      PROVE  TypeOK'
  BY <1>1 DEF TypeOK, Requeue, OtherWorkerClaims, LateClaimArrives, LateClaimDropped, PollSkip,
              cpVars, engineVars, procVars
<1>2. ASSUME NEW t \in Tasks, NEW j \in Jobs, WSTrigger(t, j) \/ PollSpawn(t, j)
      PROVE  TypeOK'
  BY <1>2 DEF TypeOK, WSTrigger, PollSpawn, Spawn, At, PcStates, cpVars, engineVars
<1>3. CASE PollFetch \/ PollEmpty
  BY <1>3 DEF TypeOK, PollFetch, PollEmpty, vars, cpVars, engineVars, procVars
<1>4. ASSUME NEW t \in Tasks, TaskStep(t) PROVE TypeOK'
  <2> USE DEF TypeOK, At, Goto, Retire, HitBy, PcStates, cpVars, engineVars, procVars
  <2>1. CASE MarkDispatched(t) BY <2>1 DEF MarkDispatched
  <2>2. CASE SkipDuplicate(t) BY <2>2 DEF SkipDuplicate
  <2>3. CASE ClaimGranted(t) BY <2>3 DEF ClaimGranted
  <2>4. CASE ClaimConflict(t) BY <2>4 DEF ClaimConflict
  <2>5. CASE ClaimFails(t) BY <2>5 DEF ClaimFails
  <2>6. CASE Dedup(t) BY <2>6 DEF Dedup
  <2>7. CASE CancelWait(t) BY <2>7 DEF CancelWait
  <2>8. CASE TakeSiteLock(t) BY <2>8 DEF TakeSiteLock
  <2>9. CASE SiteBusy(t) BY <2>9 DEF SiteBusy
  <2>10. CASE Report(t) BY <2>10 DEF Report
  <2>11. CASE ReportLost(t) BY <2>11 DEF ReportLost
  <2>12. CASE ReleaseSlot(t)
    <3>1. t \in Holders
      BY <2>12 DEF ReleaseSlot, Holders
    <3>2. Cardinality(Holders) # 0
      BY <3>1, HoldersFinite, FS_EmptySet
    <3>3. slots' \in Nat
      BY <2>12, <3>2, HoldersFinite DEF ReleaseSlot, SlotCount
    <3>4. QED
      BY <2>12, <3>3 DEF ReleaseSlot
  <2>13. CASE DeleteActive(t) BY <2>13 DEF DeleteActive
  <2>14. CASE ClearDispatched(t) BY <2>14 DEF ClearDispatched
  <2>15. QED
    BY <1>4, <2>1, <2>2, <2>3, <2>4, <2>5, <2>6, <2>7, <2>8, <2>9, <2>10, <2>11, <2>12,
       <2>13, <2>14 DEF TaskStep
<1>5. ASSUME NEW t \in Tasks, AcquireSlot(t) \/ ActionEnds(t) PROVE TypeOK'
  BY <1>5 DEF TypeOK, At, Goto, PcStates, AcquireSlot, ActionEnds, WorkReturns, ScriptReturns,
              WorkPanics, cpVars, engineVars, procVars
<1>6. CASE Stop \/ Exit \/ Crash
  <2>1. CASE Stop
    BY <2>1 DEF TypeOK, Stop, cpVars, engineVars
  <2>2. CASE Reboot /\ stops' \in Nat
    <3>1. {job[t] : t \in {u \in Tasks : pc[u] \in Marked}} \subseteq Jobs
      BY DEF TypeOK
    <3>2. {job[t] : t \in {u \in Tasks : At(u, "claim")}} \subseteq Jobs
      BY DEF TypeOK, At
    <3>3. /\ pc' \in [Tasks -> PcStates] /\ job' \in [Tasks -> Jobs \cup {NoJob}]
          /\ \A t \in Tasks : job'[t] = NoJob <=> pc'[t] = "idle"
      BY <2>2 DEF Reboot, PcStates
    <3>4. cancelled' \in BOOLEAN /\ slots' \in Nat
      BY <2>2 DEF Reboot
    <3>5. QED
      BY <2>2, <3>1, <3>2, <3>3, <3>4 DEF TypeOK, Reboot
  <2>3. QED
    BY <1>6, <2>1, <2>2 DEF Exit, Crash, TypeOK
<1>7. CASE UNCHANGED vars
  BY <1>7 DEF TypeOK, vars, cpVars, engineVars, procVars
<1>8. QED
  BY <1>1, <1>2, <1>3, <1>4, <1>5, <1>6, <1>7 DEF Next

-----------------------------------------------------------------------------
(* Most steps change no book of the engine. *)

\* The same goroutines are in S before and after the step, for the same jobs.
SameHolders(S) ==
    \A u \in Tasks : (pc'[u] \in S <=> pc[u] \in S) /\ (pc[u] \in S => job'[u] = job[u])

Quiet ==
    /\ UNCHANGED engineVars
    /\ SameHolders(Marked) /\ SameHolders(Activated) /\ SameHolders(Slotted)
    /\ SameHolders({"script"})

BookStep(t) ==
    \/ MarkDispatched(t) \/ Dedup(t) \/ AcquireSlot(t) \/ TakeSiteLock(t)
    \/ ScriptReturns(t) \/ WorkPanics(t)
    \/ ReleaseSlot(t) \/ DeleteActive(t) \/ ClearDispatched(t)

LEMMA SameJobOf ==
  ASSUME NEW S, SameHolders(S)
  PROVE  JobOf(S)' = JobOf(S)
<1>1. {u \in Tasks : pc'[u] \in S} = {u \in Tasks : pc[u] \in S}
  BY DEF SameHolders
<1>2. \A u \in {v \in Tasks : pc[v] \in S} : job'[u] = job[u]
  BY DEF SameHolders
<1>3. QED
  BY <1>1, <1>2 DEF JobOf

LEMMA StepKinds ==
  ASSUME TypeOK, [Next]_vars
  PROVE  Quiet \/ Reboot \/ \E t \in Tasks : BookStep(t)
<1> USE DEF Quiet, SameHolders, engineVars, TypeOK, PcStates
<1>1. ASSUME NEW j \in Jobs,
             Requeue(j) \/ OtherWorkerClaims(j) \/ LateClaimArrives(j)
               \/ LateClaimDropped(j) \/ PollSkip(j)
      PROVE  Quiet
  BY <1>1 DEF Requeue, OtherWorkerClaims, LateClaimArrives, LateClaimDropped, PollSkip
<1>2. ASSUME NEW t \in Tasks, NEW j \in Jobs, WSTrigger(t, j) \/ PollSpawn(t, j)
      PROVE  Quiet
  BY <1>2 DEF WSTrigger, PollSpawn, Spawn, At
<1>3. CASE PollFetch \/ PollEmpty \/ Stop \/ UNCHANGED vars
  BY <1>3 DEF PollFetch, PollEmpty, Stop, vars
<1>4. ASSUME NEW t \in Tasks,
             SkipDuplicate(t) \/ ClaimGranted(t) \/ ClaimConflict(t) \/ ClaimFails(t)
      PROVE  Quiet
  BY <1>4 DEF SkipDuplicate, ClaimGranted, ClaimConflict, ClaimFails, At, Goto, Retire
<1>5. ASSUME NEW t \in Tasks,
             CancelWait(t) \/ SiteBusy(t) \/ Report(t) \/ ReportLost(t) \/ WorkReturns(t)
      PROVE  Quiet
  BY <1>5 DEF CancelWait, SiteBusy, Report, ReportLost, WorkReturns, At, Goto
<1>6. QED
  BY <1>1, <1>2, <1>3, <1>4, <1>5
  DEF Next, TaskStep, ActionEnds, BookStep, Exit, Crash

-----------------------------------------------------------------------------
(* The semaphore. *)

LEMMA StepSlots == TypeOK /\ SlotCount /\ [Next]_vars => SlotCount'
<1> SUFFICES ASSUME TypeOK, SlotCount, [Next]_vars PROVE SlotCount'
  OBVIOUS
<1>1. ASSUME UNCHANGED slots, SameHolders(Slotted) PROVE SlotCount'
  <2>1. Holders' = Holders
    BY <1>1 DEF Holders, SameHolders
  <2>2. QED
    BY <1>1, <2>1 DEF SlotCount
<1>2. CASE Quiet
  BY <1>1, <1>2 DEF Quiet, engineVars
<1>3. CASE Reboot
  <2>1. Holders' = {}
    BY <1>3 DEF Reboot, Holders
  <2>2. QED
    BY <1>3, <2>1, FS_EmptySet DEF Reboot, SlotCount
<1>4. ASSUME NEW t \in Tasks, AcquireSlot(t) PROVE SlotCount'
  <2>1. t \notin Holders /\ Holders' = Holders \cup {t}
    BY <1>4 DEF AcquireSlot, At, Goto, Holders, TypeOK
  <2>2. Cardinality(Holders \cup {t}) = Cardinality(Holders) + 1
    BY <2>1, HoldersFinite, FS_AddElement
  <2>3. QED
    BY <1>4, <2>1, <2>2 DEF AcquireSlot, SlotCount
<1>5. ASSUME NEW t \in Tasks, ReleaseSlot(t) PROVE SlotCount'
  <2>1. t \in Holders /\ Holders' = Holders \ {t}
    BY <1>5 DEF ReleaseSlot, At, Goto, Holders, TypeOK
  <2>2. Cardinality(Holders \ {t}) = Cardinality(Holders) - 1
    BY <2>1, HoldersFinite, FS_RemoveElement
  <2>3. QED
    BY <1>5, <2>1, <2>2 DEF ReleaseSlot, SlotCount
<1>6. ASSUME NEW t \in Tasks,
             MarkDispatched(t) \/ Dedup(t) \/ TakeSiteLock(t) \/ ScriptReturns(t)
               \/ WorkPanics(t) \/ DeleteActive(t) \/ ClearDispatched(t)
      PROVE  SlotCount'
  <2>1. UNCHANGED slots /\ SameHolders(Slotted)
    BY <1>6 DEF MarkDispatched, Dedup, TakeSiteLock, ScriptReturns, WorkPanics, DeleteActive,
                ClearDispatched, At, Goto, Retire, SameHolders, TypeOK
  <2>2. QED
    BY <1>1, <2>1
<1>7. QED
  BY <1>2, <1>3, <1>4, <1>5, <1>6, StepKinds DEF BookStep

-----------------------------------------------------------------------------
(* The marks: the core of the argument. *)

Marks == dispatched = JobOf(Marked)

Actives == active = JobOf(Activated)

LEMMA DedupFinds == TypeOK /\ OneOwnerPerJob /\ Actives => DedupNeverDrops
  BY DEF TypeOK, OneOwnerPerJob, Actives, JobOf, DedupNeverDrops, At

LEMMA StepMarks ==
  ASSUME TypeOK, OneOwnerPerJob, Marks, DedupNeverDrops, [Next]_vars
  PROVE  (OneOwnerPerJob /\ Marks)'
<1>1. ASSUME UNCHANGED dispatched, SameHolders(Marked) PROVE (OneOwnerPerJob /\ Marks)'
  <2>1. OneOwnerPerJob'
    BY <1>1 DEF SameHolders, OneOwnerPerJob
  <2>2. Marks'
    BY <1>1, SameJobOf DEF Marks
  <2>3. QED
    BY <2>1, <2>2
<1>2. CASE Quiet
  BY <1>1, <1>2 DEF Quiet, engineVars
<1>3. CASE Reboot
  BY <1>3 DEF Reboot, OneOwnerPerJob, Marks, JobOf
<1>4. ASSUME NEW t \in Tasks, MarkDispatched(t) PROVE (OneOwnerPerJob /\ Marks)'
  <2>1. /\ pc' = [pc EXCEPT ![t] = "claim"] /\ job' = job
        /\ pc[t] = "mark" /\ job[t] \notin dispatched /\ dispatched' = dispatched \cup {job[t]}
    BY <1>4 DEF MarkDispatched, At, Goto
  <2>2. \A u \in Tasks : pc[u] \in Marked => job[u] # job[t]
    BY <2>1 DEF Marks, JobOf
  <2>3. OneOwnerPerJob'
    BY <2>1, <2>2 DEF OneOwnerPerJob, TypeOK
  <2>4. \A u \in Tasks : pc'[u] \in Marked <=> pc[u] \in Marked \/ u = t
    BY <2>1 DEF TypeOK
  <2>5. JobOf(Marked)' = JobOf(Marked) \cup {job[t]}
    BY <2>1, <2>4 DEF JobOf
  <2>6. QED
    BY <2>1, <2>3, <2>5 DEF Marks
<1>5. ASSUME NEW t \in Tasks, Dedup(t) PROVE (OneOwnerPerJob /\ Marks)'
  <2>1. UNCHANGED dispatched /\ SameHolders(Marked)
    BY <1>5 DEF Dedup, DedupNeverDrops, At, Goto, SameHolders, TypeOK
  <2>2. QED
    BY <1>1, <2>1
<1>6. ASSUME NEW t \in Tasks, ClearDispatched(t) PROVE (OneOwnerPerJob /\ Marks)'
  <2>1. /\ pc' = [pc EXCEPT ![t] = "idle"] /\ job' = [job EXCEPT ![t] = NoJob]
        /\ pc[t] = "unmark" /\ dispatched' = dispatched \ {job[t]}
    BY <1>6 DEF ClearDispatched, At, Retire
  <2>2. \A u \in Tasks : pc[u] \in Marked /\ u # t => job[u] # job[t]
    BY <2>1 DEF OneOwnerPerJob
  <2>3. \A u \in Tasks : pc'[u] \in Marked <=> pc[u] \in Marked /\ u # t
    BY <2>1 DEF TypeOK
  <2>4. \A u \in Tasks : u # t => job'[u] = job[u]
    BY <2>1 DEF TypeOK
  <2>5. OneOwnerPerJob'
    BY <2>3, <2>4 DEF OneOwnerPerJob
  <2>6. JobOf(Marked)' = JobOf(Marked) \ {job[t]}
    BY <2>2, <2>3, <2>4 DEF JobOf
  <2>7. QED
    BY <2>1, <2>5, <2>6 DEF Marks
<1>7. ASSUME NEW t \in Tasks,
             AcquireSlot(t) \/ TakeSiteLock(t) \/ ScriptReturns(t) \/ WorkPanics(t)
               \/ ReleaseSlot(t) \/ DeleteActive(t)
      PROVE  (OneOwnerPerJob /\ Marks)'
  <2>1. UNCHANGED dispatched /\ SameHolders(Marked)
    BY <1>7 DEF AcquireSlot, TakeSiteLock, ScriptReturns, WorkPanics, ReleaseSlot, DeleteActive,
                At, Goto, SameHolders, TypeOK
  <2>2. QED
    BY <1>1, <2>1
<1>8. QED
  BY <1>2, <1>3, <1>4, <1>5, <1>6, <1>7, StepKinds DEF BookStep

LEMMA StepActives ==
  ASSUME TypeOK, OneOwnerPerJob, Actives, DedupNeverDrops, [Next]_vars
  PROVE  Actives'
<1>1. ASSUME UNCHANGED active, SameHolders(Activated) PROVE Actives'
  BY <1>1, SameJobOf DEF Actives
<1>2. CASE Quiet
  BY <1>1, <1>2 DEF Quiet, engineVars
<1>3. CASE Reboot
  BY <1>3 DEF Reboot, Actives, JobOf
<1>4. ASSUME NEW t \in Tasks, Dedup(t) PROVE Actives'
  <2>1. /\ pc' = [pc EXCEPT ![t] = "slot"] /\ job' = job
        /\ active' = active \cup {job[t]} /\ pc[t] = "dedup"
    BY <1>4 DEF Dedup, DedupNeverDrops, At, Goto
  <2>2. \A u \in Tasks : pc'[u] \in Activated <=> pc[u] \in Activated \/ u = t
    BY <2>1 DEF TypeOK
  <2>3. JobOf(Activated)' = JobOf(Activated) \cup {job[t]}
    BY <2>1, <2>2 DEF JobOf
  <2>4. QED
    BY <2>1, <2>3 DEF Actives
<1>5. ASSUME NEW t \in Tasks, DeleteActive(t) PROVE Actives'
  <2>1. /\ pc' = [pc EXCEPT ![t] = "unmark"] /\ job' = job
        /\ active' = active \ {job[t]} /\ pc[t] = "inactivate"
    BY <1>5 DEF DeleteActive, At, Goto
  <2>2. \A u \in Tasks : pc[u] \in Activated /\ u # t => job[u] # job[t]
    BY <2>1 DEF OneOwnerPerJob
  <2>3. \A u \in Tasks : pc'[u] \in Activated <=> pc[u] \in Activated /\ u # t
    BY <2>1 DEF TypeOK
  <2>4. JobOf(Activated)' = JobOf(Activated) \ {job[t]}
    BY <2>1, <2>2, <2>3 DEF JobOf
  <2>5. QED
    BY <2>1, <2>4 DEF Actives
<1>6. ASSUME NEW t \in Tasks,
             MarkDispatched(t) \/ AcquireSlot(t) \/ TakeSiteLock(t) \/ ScriptReturns(t)
               \/ WorkPanics(t) \/ ReleaseSlot(t) \/ ClearDispatched(t)
      PROVE  Actives'
  <2>1. UNCHANGED active /\ SameHolders(Activated)
    BY <1>6 DEF MarkDispatched, AcquireSlot, TakeSiteLock, ScriptReturns, WorkPanics, ReleaseSlot,
                ClearDispatched, At, Goto, Retire, SameHolders, TypeOK
  <2>2. QED
    BY <1>1, <2>1
<1>7. QED
  BY <1>2, <1>3, <1>4, <1>5, <1>6, StepKinds DEF BookStep

-----------------------------------------------------------------------------
(* The site locks: no owner is recorded in the lock, so who may release it is an invariant. *)

ScriptSites == {SiteOf[j] : j \in JobOf({"script"})}
SiteBook == DeployExclusive /\ siteLock = ScriptSites

LEMMA StepSites ==
  ASSUME TypeOK, SiteBook, DedupNeverDrops, [Next]_vars
  PROVE  SiteBook'
<1>1. ASSUME UNCHANGED siteLock, SameHolders({"script"}) PROVE SiteBook'
  <2>1. DeployExclusive'
    BY <1>1 DEF SameHolders, SiteBook, DeployExclusive, At
  <2>2. ScriptSites' = ScriptSites
    BY <1>1, SameJobOf DEF ScriptSites
  <2>3. QED
    BY <1>1, <2>1, <2>2 DEF SiteBook
<1>2. CASE Quiet
  BY <1>1, <1>2 DEF Quiet, engineVars
<1>3. CASE Reboot
  BY <1>3 DEF Reboot, SiteBook, ScriptSites, DeployExclusive, JobOf, At
<1>4. ASSUME NEW t \in Tasks, TakeSiteLock(t) PROVE SiteBook'
  <2>1. /\ pc' = [pc EXCEPT ![t] = "script"] /\ job' = job /\ pc[t] = "work"
        /\ SiteOf[job[t]] \notin siteLock /\ siteLock' = siteLock \cup {SiteOf[job[t]]}
    BY <1>4 DEF TakeSiteLock, At, Goto
  <2>2. \A u \in Tasks : pc[u] = "script" => SiteOf[job[u]] # SiteOf[job[t]]
    BY <2>1 DEF SiteBook, ScriptSites, JobOf
  <2>3. \A u \in Tasks : pc'[u] = "script" <=> pc[u] = "script" \/ u = t
    BY <2>1 DEF TypeOK
  <2>4. DeployExclusive'
    BY <2>1, <2>2, <2>3 DEF SiteBook, DeployExclusive, At
  <2>5. ScriptSites' = ScriptSites \cup {SiteOf[job[t]]}
    BY <2>1, <2>3 DEF ScriptSites, JobOf
  <2>6. QED
    BY <2>1, <2>4, <2>5 DEF SiteBook
<1>5. ASSUME NEW t \in Tasks, pc[t] = "script", ScriptReturns(t) \/ WorkPanics(t)
      PROVE  SiteBook'
  <2>1. /\ pc' = [pc EXCEPT ![t] = "report"] /\ job' = job
        /\ siteLock' = siteLock \ {SiteOf[job[t]]}
    BY <1>5 DEF ScriptReturns, WorkPanics, At, Goto
  <2>2. \A u \in Tasks : pc[u] = "script" /\ u # t => SiteOf[job[u]] # SiteOf[job[t]]
    BY <1>5 DEF SiteBook, DeployExclusive, At
  <2>3. \A u \in Tasks : pc'[u] = "script" <=> pc[u] = "script" /\ u # t
    BY <2>1 DEF TypeOK
  <2>4. DeployExclusive'
    BY <2>1, <2>3 DEF SiteBook, DeployExclusive, At
  <2>5. ScriptSites' = ScriptSites \ {SiteOf[job[t]]}
    BY <2>1, <2>2, <2>3 DEF ScriptSites, JobOf
  <2>6. QED
    BY <2>1, <2>4, <2>5 DEF SiteBook
<1>6. ASSUME NEW t \in Tasks,
             \/ MarkDispatched(t) \/ Dedup(t) \/ AcquireSlot(t)
             \/ pc[t] = "work" /\ WorkPanics(t)
             \/ ReleaseSlot(t) \/ DeleteActive(t) \/ ClearDispatched(t)
      PROVE  SiteBook'
  <2>1. UNCHANGED siteLock /\ SameHolders({"script"})
    BY <1>6 DEF MarkDispatched, Dedup, AcquireSlot, WorkPanics, ReleaseSlot, DeleteActive,
                ClearDispatched, DedupNeverDrops, At, Goto, Retire, SameHolders, TypeOK
  <2>2. QED
    BY <1>1, <2>1
<1>7. ASSUME NEW t \in Tasks, BookStep(t) PROVE SiteBook'
  <2>1. ScriptReturns(t) => pc[t] = "script"
    BY DEF ScriptReturns, At
  <2>2. WorkPanics(t) => pc[t] \in {"work", "script"}
    BY DEF WorkPanics
  <2>3. QED
    BY <1>4, <1>5, <1>6, <1>7, <2>1, <2>2 DEF BookStep
<1>8. QED
  BY <1>2, <1>3, <1>7, StepKinds

-----------------------------------------------------------------------------
(* Offers: a pending job has a credit left, and so has a claimed one until it starts. *)

Waiting == {"dedup", "slot"}
CreditCovers ==
    \A j \in Jobs :
        credit[j] >= (IF cp[j] = "pending" THEN 1 ELSE 0)
                     + (IF j \in JobOf(Waiting) THEN 1 ELSE 0)

LEMMA StepCredit ==
  ASSUME TypeOK, OneOwnerPerJob, CreditCovers, DedupNeverDrops, [Next]_vars
  PROVE  CreditCovers'
<1> USE DEF Waiting
<1>1. ASSUME credit' = credit, cp' = cp, JobOf(Waiting)' \subseteq JobOf(Waiting)
      PROVE  CreditCovers'
  BY <1>1 DEF CreditCovers, TypeOK
<1>2. ASSUME NEW j \in Jobs, Requeue(j) \/ OtherWorkerClaims(j) \/ LateClaimArrives(j)
      PROVE  CreditCovers'
  <2>1. JobOf(Waiting)' = JobOf(Waiting)
    BY <1>2 DEF Requeue, OtherWorkerClaims, LateClaimArrives, JobOf
  <2>2. \A k \in Jobs : k # j => credit'[k] = credit[k] /\ cp'[k] = cp[k]
    BY <1>2 DEF Requeue, OtherWorkerClaims, LateClaimArrives, TypeOK
  <2>3. \/ credit'[j] = credit[j] + 1 /\ cp[j] # "pending"
        \/ credit'[j] = credit[j] - 1 /\ cp[j] = "pending" /\ cp'[j] # "pending"
        \/ credit'[j] = credit[j] /\ (cp'[j] = "pending" => cp[j] = "pending")
    BY <1>2 DEF Requeue, OtherWorkerClaims, LateClaimArrives, TypeOK
  <2>4. QED
    BY <2>1, <2>2, <2>3 DEF CreditCovers, TypeOK
<1>3. ASSUME NEW t \in Tasks, ClaimGranted(t) PROVE CreditCovers'
  <2>1. /\ pc[t] = "claim" /\ cp[job[t]] = "pending" /\ job[t] \in Jobs
        /\ cp' = [cp EXCEPT ![job[t]] = "accepted"]
        /\ pc' = [pc EXCEPT ![t] = "dedup"] /\ job' = job /\ credit' = credit
    BY <1>3 DEF ClaimGranted, At, Goto, TypeOK
  <2>2. job[t] \notin JobOf(Waiting)
    BY <2>1 DEF JobOf, OneOwnerPerJob
  <2>3. JobOf(Waiting)' \subseteq JobOf(Waiting) \cup {job[t]}
    BY <2>1 DEF JobOf, TypeOK
  <2>4. QED
    BY <2>1, <2>2, <2>3 DEF CreditCovers, TypeOK
<1>4. ASSUME NEW t \in Tasks, AcquireSlot(t) PROVE CreditCovers'
  <2>1. /\ pc[t] = "slot" /\ job[t] \in Jobs
        /\ credit' = [credit EXCEPT ![job[t]] = @ - 1]
        /\ pc' = [pc EXCEPT ![t] = "work"] /\ job' = job /\ cp' = cp
    BY <1>4 DEF AcquireSlot, At, Goto, TypeOK, cpVars
  <2>2. job[t] \in JobOf(Waiting)
    BY <2>1 DEF JobOf
  <2>3. JobOf(Waiting)' \subseteq JobOf(Waiting) \ {job[t]}
    BY <2>1 DEF JobOf, OneOwnerPerJob, TypeOK
  <2>4. QED
    BY <2>1, <2>2, <2>3 DEF CreditCovers, TypeOK
<1>5. ASSUME NEW t \in Tasks, Report(t) PROVE CreditCovers'
  <2>1. JobOf(Waiting)' \subseteq JobOf(Waiting)
    BY <1>5 DEF Report, At, Goto, JobOf, TypeOK
  <2>2. credit' = credit /\ \A j \in Jobs : cp'[j] = "pending" => cp[j] = "pending"
    BY <1>5 DEF Report, TypeOK
  <2>3. QED
    BY <2>1, <2>2 DEF CreditCovers, TypeOK
<1>6. ASSUME NEW j \in Jobs, LateClaimDropped(j) \/ PollSkip(j) PROVE CreditCovers'
  BY <1>1, <1>6 DEF LateClaimDropped, PollSkip, JobOf, cpVars
<1>7. ASSUME NEW t \in Tasks, NEW j \in Jobs, WSTrigger(t, j) \/ PollSpawn(t, j)
      PROVE  CreditCovers'
  <2>1. JobOf(Waiting)' \subseteq JobOf(Waiting)
    BY <1>7 DEF WSTrigger, PollSpawn, Spawn, At, JobOf, TypeOK
  <2>2. QED
    BY <1>1, <1>7, <2>1 DEF WSTrigger, PollSpawn, cpVars
<1>8. CASE PollFetch \/ PollEmpty \/ Stop \/ UNCHANGED vars
  BY <1>1, <1>8 DEF PollFetch, PollEmpty, Stop, vars, JobOf, cpVars
<1>9. CASE Reboot
  BY <1>1, <1>9 DEF Reboot, JobOf
<1>10. ASSUME NEW t \in Tasks,
              \/ MarkDispatched(t) \/ SkipDuplicate(t) \/ ClaimConflict(t) \/ ClaimFails(t)
              \/ Dedup(t) \/ CancelWait(t)
       PROVE  CreditCovers'
  <2>1. JobOf(Waiting)' \subseteq JobOf(Waiting)
    BY <1>10 DEF MarkDispatched, SkipDuplicate, ClaimConflict, ClaimFails, Dedup, CancelWait,
                 DedupNeverDrops, At, Goto, Retire, JobOf, TypeOK
  <2>2. QED
    BY <1>1, <1>10, <2>1 DEF MarkDispatched, SkipDuplicate, ClaimConflict, ClaimFails, Dedup,
                             CancelWait, cpVars
<1>11. ASSUME NEW t \in Tasks,
              \/ TakeSiteLock(t) \/ SiteBusy(t) \/ ReportLost(t) \/ ActionEnds(t)
              \/ ReleaseSlot(t) \/ DeleteActive(t) \/ ClearDispatched(t)
       PROVE  CreditCovers'
  <2>1. JobOf(Waiting)' \subseteq JobOf(Waiting)
    BY <1>11 DEF TakeSiteLock, SiteBusy, ReportLost, ActionEnds, WorkReturns, ScriptReturns,
                 WorkPanics, ReleaseSlot, DeleteActive, ClearDispatched, At, Goto, Retire, JobOf,
                 TypeOK
  <2>2. QED
    BY <1>1, <1>11, <2>1 DEF TakeSiteLock, SiteBusy, ReportLost, ActionEnds, WorkReturns,
         ScriptReturns, WorkPanics, ReleaseSlot, DeleteActive, ClearDispatched, cpVars
<1>12. QED
  BY <1>2, <1>3, <1>4, <1>5, <1>6, <1>7, <1>8, <1>9, <1>10, <1>11
  DEF Next, TaskStep, Exit, Crash

-----------------------------------------------------------------------------
(* Jobs accepted in the agent's name. *)

LateFaulted == late \subseteq faulted
Handled == AcceptedIsHandled /\ LateFaulted

LEMMA StepHandled ==
  ASSUME TypeOK, OneOwnerPerJob, Handled, DedupNeverDrops, [Next]_vars
  PROVE  Handled'
<1>1. ASSUME UNCHANGED <<cp, late, faulted>>, JobOf(Owing) \subseteq JobOf(Owing)'
      PROVE  Handled'
  BY <1>1 DEF Handled, AcceptedIsHandled, LateFaulted
<1>2. ASSUME NEW j \in Jobs,
             Requeue(j) \/ OtherWorkerClaims(j) \/ LateClaimArrives(j) \/ LateClaimDropped(j)
      PROVE  Handled'
  <2>1. JobOf(Owing)' = JobOf(Owing) /\ faulted' = faulted /\ late' \subseteq late
    BY <1>2 DEF Requeue, OtherWorkerClaims, LateClaimArrives, LateClaimDropped, JobOf, cpVars
  <2>2. \A k \in Jobs : cp'[k] = "accepted" => cp[k] = "accepted" \/ k \in late
    BY <1>2 DEF Requeue, OtherWorkerClaims, LateClaimArrives, LateClaimDropped, TypeOK
  <2>3. QED
    BY <2>1, <2>2 DEF Handled, AcceptedIsHandled, LateFaulted
<1>3. ASSUME NEW t \in Tasks, ClaimGranted(t) PROVE Handled'
  <2>1. /\ pc[t] = "claim" /\ job[t] \in Jobs /\ late' = late /\ faulted' = faulted
        /\ cp' = [cp EXCEPT ![job[t]] = "accepted"]
        /\ pc' = [pc EXCEPT ![t] = "dedup"] /\ job' = job
    BY <1>3 DEF ClaimGranted, At, Goto, TypeOK
  <2>2. JobOf(Owing) \cup {job[t]} \subseteq JobOf(Owing)'
    BY <2>1 DEF JobOf, TypeOK
  <2>3. QED
    BY <2>1, <2>2 DEF Handled, AcceptedIsHandled, LateFaulted, TypeOK
<1>4. ASSUME NEW t \in Tasks, Report(t) PROVE Handled'
  <2>1. /\ pc[t] = "report" /\ job[t] \in Jobs /\ late' = late /\ faulted' = faulted
        /\ cp'[job[t]] # "accepted" /\ \A j \in Jobs : j # job[t] => cp'[j] = cp[j]
        /\ pc' = [pc EXCEPT ![t] = "unslot"] /\ job' = job
    BY <1>4 DEF Report, At, Goto, TypeOK
  <2>2. JobOf(Owing) \ {job[t]} \subseteq JobOf(Owing)'
    BY <2>1 DEF JobOf, TypeOK
  <2>3. QED
    BY <2>1, <2>2 DEF Handled, AcceptedIsHandled, LateFaulted
<1>5. ASSUME NEW t \in Tasks, CancelWait(t) \/ ReportLost(t) \/ ClaimFails(t) PROVE Handled'
  <2>1. /\ job[t] \in Jobs /\ faulted' = faulted \cup {job[t]} /\ cp' = cp
        /\ late' \subseteq late \cup {job[t]}
    BY <1>5 DEF CancelWait, ReportLost, ClaimFails, HitBy, At, TypeOK, cpVars
  <2>2. JobOf(Owing) \ {job[t]} \subseteq JobOf(Owing)'
    BY <1>5 DEF CancelWait, ReportLost, ClaimFails, At, Goto, JobOf, TypeOK
  <2>3. QED
    BY <2>1, <2>2 DEF Handled, AcceptedIsHandled, LateFaulted
<1>6. CASE Reboot
  <2>1. JobOf(Owing) \subseteq faulted' /\ faulted \subseteq faulted' /\ cp' = cp
    BY <1>6 DEF Reboot, JobOf
  <2>2. late' \subseteq faulted'
    BY <1>6 DEF Reboot, At, Handled, LateFaulted
  <2>3. QED
    BY <2>1, <2>2 DEF Handled, AcceptedIsHandled, LateFaulted
<1>7. ASSUME NEW t \in Tasks, NEW j \in Jobs, WSTrigger(t, j) \/ PollSpawn(t, j)
      PROVE  Handled'
  <2>1. JobOf(Owing) \subseteq JobOf(Owing)'
    BY <1>7 DEF WSTrigger, PollSpawn, Spawn, At, JobOf, TypeOK
  <2>2. QED
    BY <1>1, <1>7, <2>1 DEF WSTrigger, PollSpawn, cpVars
<1>8. ASSUME NEW j \in Jobs, PollSkip(j) PROVE Handled'
  BY <1>1, <1>8 DEF PollSkip, JobOf, cpVars
<1>9. CASE PollFetch \/ PollEmpty \/ Stop \/ UNCHANGED vars
  BY <1>1, <1>9 DEF PollFetch, PollEmpty, Stop, vars, JobOf, cpVars
<1>10. ASSUME NEW t \in Tasks,
              \/ MarkDispatched(t) \/ SkipDuplicate(t) \/ ClaimConflict(t) \/ Dedup(t)
              \/ AcquireSlot(t) \/ TakeSiteLock(t) \/ SiteBusy(t) \/ ActionEnds(t)
              \/ ReleaseSlot(t) \/ DeleteActive(t) \/ ClearDispatched(t)
       PROVE  Handled'
  <2>1. JobOf(Owing) \subseteq JobOf(Owing)'
    BY <1>10 DEF MarkDispatched, SkipDuplicate, ClaimConflict, Dedup, DedupNeverDrops,
       AcquireSlot, TakeSiteLock, SiteBusy, ActionEnds, WorkReturns, ScriptReturns, WorkPanics,
       ReleaseSlot, DeleteActive, ClearDispatched, At, Goto, Retire, JobOf, TypeOK
  <2>2. QED
    BY <1>1, <1>10, <2>1 DEF MarkDispatched, SkipDuplicate, ClaimConflict, Dedup, AcquireSlot,
       TakeSiteLock, SiteBusy, ActionEnds, WorkReturns, ScriptReturns, WorkPanics, ReleaseSlot,
       DeleteActive, ClearDispatched, cpVars
<1>11. QED
  BY <1>2, <1>3, <1>4, <1>5, <1>6, <1>7, <1>8, <1>9, <1>10 DEF Next, TaskStep, Exit, Crash

-----------------------------------------------------------------------------
(* The inductive invariant and what follows from it. *)

IInv ==
    /\ TypeOK /\ SlotCount
    /\ OneOwnerPerJob /\ Marks /\ Actives /\ SiteBook
    /\ CreditCovers /\ Handled

LEMMA InitIInv == Init => IInv
<1> SUFFICES ASSUME Init PROVE IInv
  OBVIOUS
<1>1. TypeOK /\ SlotCount
  BY InitType
<1>2. \A t \in Tasks : pc[t] = "idle"
  BY DEF Init
<1>3. OneOwnerPerJob /\ DeployExclusive
  BY <1>2 DEF OneOwnerPerJob, DeployExclusive, At
<1>4. JobOf(Marked) = {} /\ JobOf(Activated) = {} /\ JobOf({"script"}) = {} /\ JobOf(Waiting) = {}
  BY <1>2 DEF JobOf, Waiting
<1>5. Marks /\ Actives /\ SiteBook
  BY <1>3, <1>4 DEF Init, Marks, Actives, SiteBook, ScriptSites
<1>6. CreditCovers
  BY <1>4 DEF Init, CreditCovers
<1>7. Handled
  BY DEF Init, Handled, AcceptedIsHandled, LateFaulted
<1>8. QED
  BY <1>1, <1>3, <1>5, <1>6, <1>7 DEF IInv

LEMMA Inductive == IInv /\ [Next]_vars => IInv'
<1> SUFFICES ASSUME IInv, [Next]_vars PROVE IInv'
  OBVIOUS
<1>1. DedupNeverDrops
  BY DedupFinds DEF IInv
<1>2. QED
  BY <1>1, StepType, StepSlots, StepMarks, StepActives, StepSites, StepCredit, StepHandled
  DEF IInv

LEMMA Invariance == Spec => []IInv
  BY InitIInv, Inductive, PTL DEF Spec

\* Every reachable state is well typed: no counter leaves its range and a goroutine has a job
\* exactly while it runs (the entry points of jobengine.go and the clean-up of Execute).
THEOREM TypeCorrect == Spec => []TypeOK
<1>1. IInv => TypeOK
  BY DEF IInv
<1>2. QED
  BY <1>1, Invariance, PTL

\* A job belongs to one goroutine from markDispatched to clearDispatched, for any number of
\* triggers, polls, repeated offers, lost messages and restarts.
THEOREM OwnerIsUnique == Spec => []OneOwnerPerJob
<1>1. IInv => OneOwnerPerJob
  BY DEF IInv
<1>2. QED
  BY <1>1, Invariance, PTL

\* The dispatched and active maps, the semaphore and the site locks hold exactly what the live
\* goroutines hold: every path through HandleJobTrigger, Execute and runDeployScript cleans up.
THEOREM BooksAreExact == Spec => []NothingLeaks
<1>1. IInv => NothingLeaks
  BY DEF IInv, NothingLeaks, Marks, Actives, SlotCount, Holders, SiteBook, ScriptSites
<1>2. QED
  BY <1>1, Invariance, PTL

\* The duplicate branch of Execute, which would leak the dispatched mark, is unreachable.
THEOREM DedupIsRedundant == Spec => []DedupNeverDrops
<1>1. IInv => DedupNeverDrops
  BY DedupFinds DEF IInv
<1>2. QED
  BY <1>1, Invariance, PTL

\* Two deploy sections of one site never overlap in a process.
THEOREM DeploysExclude == Spec => []DeployExclusive
<1>1. IInv => DeployExclusive
  BY DEF IInv, SiteBook
<1>2. QED
  BY <1>1, Invariance, PTL

\* A job starts at most once per offer: the claim is what entitles Execute to run it.
THEOREM StartsAreEntitled == Spec => []AtMostOncePerOffer
<1>1. IInv => AtMostOncePerOffer
  BY DEF IInv, CreditCovers, AtMostOncePerOffer, TypeOK
<1>2. QED
  BY <1>1, Invariance, PTL

\* An accepted job that no lost message or process end has hit is owed an answer by a live
\* goroutine: no return path of HandleJobTrigger or Execute forgets it.
THEOREM AcceptedJobsAreKept == Spec => []AcceptedIsHandled
<1>1. IInv => AcceptedIsHandled
  BY DEF IInv, Handled
<1>2. QED
  BY <1>1, Invariance, PTL

-----------------------------------------------------------------------------
(* The engine implements JobContract. *)

LEMMA RunningBound ==
  ASSUME IInv
  PROVE  IsFiniteSet(JobOf(Slotted)) /\ Cardinality(JobOf(Slotted)) <= slots
<1> DEFINE f == [u \in Holders |-> job[u]]
<1>1. f \in Surjection(Holders, JobOf(Slotted))
  BY DEF Surjection, Holders, JobOf
<1> HIDE DEF f
<1>2. QED
  BY <1>1, HoldersFinite, FS_Surjection DEF IInv, SlotCount

LEMMA SameCardinality == \A S : Contract!Cardinality(S) = Cardinality(S)
  BY DEF Contract!Cardinality, Cardinality

LEMMA StepContract ==
  ASSUME IInv, [Next]_vars
  PROVE  [Contract!Next]_(Contract!vars)
<1> DEFINE running == JobOf(Slotted)
           deploying == JobOf({"script"})
<1>1. ASSUME credit' = credit, SameHolders(Slotted), SameHolders({"script"})
      PROVE  UNCHANGED Contract!vars
  BY <1>1, SameJobOf DEF Contract!vars
<1>2. ASSUME NEW j \in Jobs, Requeue(j) PROVE Contract!Next
  <2>1. JobOf(Slotted)' = JobOf(Slotted) /\ JobOf({"script"})' = JobOf({"script"})
    BY <1>2 DEF Requeue, JobOf
  <2>2. Contract!Offer(j)
    BY <1>2, <2>1 DEF Requeue, Contract!Offer
  <2>3. QED
    BY <2>2 DEF Contract!Next
<1>3. ASSUME NEW j \in Jobs, OtherWorkerClaims(j) PROVE Contract!Next
  <2>1. JobOf(Slotted)' = JobOf(Slotted) /\ JobOf({"script"})' = JobOf({"script"})
    BY <1>3 DEF OtherWorkerClaims, JobOf
  <2>2. credit[j] > 0
    BY <1>3 DEF OtherWorkerClaims, IInv, CreditCovers, TypeOK
  <2>3. Contract!GoesElsewhere(j)
    BY <1>3, <2>1, <2>2 DEF OtherWorkerClaims, Contract!GoesElsewhere
  <2>4. QED
    BY <2>3 DEF Contract!Next
<1>4. ASSUME NEW t \in Tasks, AcquireSlot(t) PROVE Contract!Next
  <2>1. /\ pc[t] = "slot" /\ job[t] \in Jobs /\ slots < MaxConcurrent
        /\ credit' = [credit EXCEPT ![job[t]] = @ - 1]
        /\ pc' = [pc EXCEPT ![t] = "work"] /\ job' = job
    BY <1>4 DEF AcquireSlot, At, Goto, IInv, TypeOK
  <2>2. job[t] \notin JobOf(Slotted) /\ job[t] \in JobOf(Waiting)
    BY <2>1 DEF JobOf, Waiting, IInv, OneOwnerPerJob
  <2>3. credit[job[t]] > 0
    BY <2>1, <2>2 DEF IInv, CreditCovers, TypeOK
  <2>4. Cardinality(JobOf(Slotted)) < MaxConcurrent
    <3>1. IsFiniteSet(JobOf(Slotted)) /\ Cardinality(JobOf(Slotted)) <= slots
      BY RunningBound
    <3>2. Cardinality(JobOf(Slotted)) \in Nat
      BY <3>1, FS_CardinalityType
    <3>3. QED
      BY <2>1, <3>1, <3>2, BoundsAssumption DEF IInv, TypeOK
  <2>5. JobOf(Slotted)' = JobOf(Slotted) \cup {job[t]}
    <3>1. \A u \in Tasks : pc'[u] \in Slotted <=> pc[u] \in Slotted \/ u = t
      BY <2>1 DEF IInv, TypeOK
    <3>2. QED
      BY <2>1, <3>1 DEF JobOf
  <2>6. JobOf({"script"})' = JobOf({"script"})
    <3>1. SameHolders({"script"})
      BY <2>1 DEF SameHolders, IInv, TypeOK
    <3>2. QED
      BY <3>1, SameJobOf
  <2>7. Contract!Start(job[t])
    BY <2>1, <2>2, <2>3, <2>4, <2>5, <2>6, SameCardinality DEF Contract!Start
  <2>8. QED
    BY <2>1, <2>7 DEF Contract!Next
<1>5. ASSUME NEW t \in Tasks, TakeSiteLock(t) PROVE Contract!Next
  <2>1. /\ pc[t] = "work" /\ job[t] \in Jobs /\ SiteOf[job[t]] \in Sites
        /\ SiteOf[job[t]] \notin siteLock /\ credit' = credit
        /\ pc' = [pc EXCEPT ![t] = "script"] /\ job' = job
    BY <1>5 DEF TakeSiteLock, At, Goto, IInv, TypeOK
  <2>2. \A k \in JobOf({"script"}) : SiteOf[k] # SiteOf[job[t]]
    BY <2>1 DEF IInv, SiteBook, ScriptSites
  <2>3. job[t] \in JobOf(Slotted) \ JobOf({"script"})
    BY <2>1, <2>2 DEF JobOf
  <2>4. JobOf({"script"})' = JobOf({"script"}) \cup {job[t]}
    <3>1. \A u \in Tasks : pc'[u] = "script" <=> pc[u] = "script" \/ u = t
      BY <2>1 DEF IInv, TypeOK
    <3>2. QED
      BY <2>1, <3>1 DEF JobOf
  <2>5. JobOf(Slotted)' = JobOf(Slotted)
    <3>1. SameHolders(Slotted)
      BY <2>1 DEF SameHolders, IInv, TypeOK
    <3>2. QED
      BY <3>1, SameJobOf
  <2>6. Contract!EnterDeploy(job[t])
    BY <2>1, <2>2, <2>3, <2>4, <2>5 DEF Contract!EnterDeploy
  <2>7. QED
    BY <2>1, <2>6 DEF Contract!Next
<1>6. ASSUME NEW t \in Tasks, pc[t] = "script", ScriptReturns(t) \/ WorkPanics(t)
      PROVE  Contract!Next
  <2>1. /\ job[t] \in Jobs /\ credit' = credit
        /\ pc' = [pc EXCEPT ![t] = "report"] /\ job' = job
    BY <1>6 DEF ScriptReturns, WorkPanics, Goto, IInv, TypeOK
  <2>2. job[t] \in JobOf({"script"})
    BY <1>6 DEF JobOf
  <2>3. JobOf({"script"})' = JobOf({"script"}) \ {job[t]}
    <3>1. \A u \in Tasks : pc'[u] = "script" <=> pc[u] = "script" /\ u # t
      BY <2>1 DEF IInv, TypeOK
    <3>2. \A u \in Tasks : pc[u] = "script" /\ u # t => job[u] # job[t]
      BY <1>6 DEF IInv, OneOwnerPerJob
    <3>3. QED
      BY <2>1, <3>1, <3>2 DEF JobOf
  <2>4. JobOf(Slotted)' = JobOf(Slotted)
    <3>1. SameHolders(Slotted)
      BY <1>6, <2>1 DEF SameHolders, IInv, TypeOK
    <3>2. QED
      BY <3>1, SameJobOf
  <2>5. Contract!LeaveDeploy(job[t])
    BY <2>1, <2>2, <2>3, <2>4 DEF Contract!LeaveDeploy
  <2>6. QED
    BY <2>1, <2>5 DEF Contract!Next
<1>7. ASSUME NEW t \in Tasks, ReleaseSlot(t) PROVE Contract!Next
  <2>1. /\ pc[t] = "unslot" /\ job[t] \in Jobs /\ credit' = credit
        /\ pc' = [pc EXCEPT ![t] = "inactivate"] /\ job' = job
    BY <1>7 DEF ReleaseSlot, At, Goto, IInv, TypeOK
  <2>2. \A u \in Tasks : pc[u] \in Marked /\ u # t => job[u] # job[t]
    BY <2>1 DEF IInv, OneOwnerPerJob
  <2>3. job[t] \in JobOf(Slotted) \ JobOf({"script"})
    BY <2>1, <2>2 DEF JobOf
  <2>4. JobOf(Slotted)' = JobOf(Slotted) \ {job[t]}
    <3>1. \A u \in Tasks : pc'[u] \in Slotted <=> pc[u] \in Slotted /\ u # t
      BY <2>1 DEF IInv, TypeOK
    <3>2. QED
      BY <2>1, <2>2, <3>1 DEF JobOf
  <2>5. JobOf({"script"})' = JobOf({"script"})
    <3>1. SameHolders({"script"})
      BY <2>1 DEF SameHolders, IInv, TypeOK
    <3>2. QED
      BY <3>1, SameJobOf
  <2>6. Contract!Finish(job[t])
    BY <2>1, <2>3, <2>4, <2>5 DEF Contract!Finish
  <2>7. QED
    BY <2>1, <2>6 DEF Contract!Next
<1>8. CASE Reboot
  <2>1. JobOf(Slotted)' = {} /\ JobOf({"script"})' = {} /\ credit' = credit
    BY <1>8 DEF Reboot, JobOf
  <2>2. QED
    BY <2>1 DEF Contract!Next, Contract!Abort
<1>9. CASE Quiet /\ credit' = credit
  BY <1>1, <1>9 DEF Quiet
<1>10. ASSUME NEW t \in Tasks,
              \/ MarkDispatched(t) \/ Dedup(t) \/ DeleteActive(t) \/ ClearDispatched(t)
              \/ pc[t] = "work" /\ WorkPanics(t)
       PROVE  UNCHANGED Contract!vars
  <2>1. credit' = credit /\ SameHolders(Slotted) /\ SameHolders({"script"})
    BY <1>10, DedupFinds DEF MarkDispatched, Dedup, DeleteActive, ClearDispatched, WorkPanics,
       DedupNeverDrops, At, Goto, Retire, SameHolders, IInv, TypeOK
  <2>2. QED
    BY <1>1, <2>1
<1>11. ASSUME NEW t \in Tasks, BookStep(t) PROVE [Contract!Next]_(Contract!vars)
  <2>1. ScriptReturns(t) => pc[t] = "script"
    BY DEF ScriptReturns, At
  <2>2. WorkPanics(t) => pc[t] \in {"work", "script"}
    BY DEF WorkPanics
  <2>3. QED
    BY <1>4, <1>5, <1>6, <1>7, <1>10, <1>11, <2>1, <2>2 DEF BookStep
<1>12. CASE credit' # credit /\ ~\E t \in Tasks : BookStep(t)
  <2>1. \E j \in Jobs : Requeue(j) \/ OtherWorkerClaims(j)
    <3> USE <1>12
    <3>1. \A j \in Jobs : ~LateClaimArrives(j) /\ ~LateClaimDropped(j) /\ ~PollSkip(j)
      BY DEF LateClaimArrives, LateClaimDropped, PollSkip
    <3>2. \A t \in Tasks, j \in Jobs : ~WSTrigger(t, j) /\ ~PollSpawn(t, j)
      BY DEF WSTrigger, PollSpawn
    <3>3. ~PollFetch /\ ~PollEmpty /\ ~Stop /\ ~Exit /\ ~Crash /\ ~UNCHANGED vars
      BY DEF PollFetch, PollEmpty, Stop, Exit, Crash, Reboot, vars
    <3>4. \A t \in Tasks : ~SkipDuplicate(t) /\ ~ClaimGranted(t) /\ ~ClaimConflict(t)
                           /\ ~ClaimFails(t) /\ ~CancelWait(t)
      BY DEF SkipDuplicate, ClaimGranted, ClaimConflict, ClaimFails, CancelWait
    <3>5. \A t \in Tasks : ~SiteBusy(t) /\ ~Report(t) /\ ~ReportLost(t) /\ ~WorkReturns(t)
      BY DEF SiteBusy, Report, ReportLost, WorkReturns
    <3>6. QED
      BY <3>1, <3>2, <3>3, <3>4, <3>5 DEF Next, TaskStep, ActionEnds, BookStep
  <2>2. QED
    BY <1>2, <1>3, <2>1
<1>13. QED
  BY <1>8, <1>9, <1>11, <1>12, StepKinds DEF IInv

\* The engine implements JobContract: a start uses up an offer, a job never runs twice at once,
\* at most MaxConcurrent jobs run, and one of them at most deploys to a site. A job runs while
\* its goroutine holds a slot of the semaphore in Execute.
THEOREM ImplementsContract == Spec => RefinesContract
<1>1. Init => Contract!Init
  <2>1. Init => JobOf(Slotted) = {} /\ JobOf({"script"}) = {}
    BY DEF Init, JobOf
  <2>2. QED
    BY <2>1 DEF Init, Contract!Init
<1>2. IInv /\ [Next]_vars => [Contract!Next]_(Contract!vars)
  BY StepContract
<1>3. QED
  BY <1>1, <1>2, Invariance, PTL DEF Spec, RefinesContract, Contract!Spec
==============================================================================
