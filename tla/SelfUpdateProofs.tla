--------------------------- MODULE SelfUpdateProofs ---------------------------
(***************************************************************************)
(* Theorems about SelfUpdate for any number of releases, attempts and      *)
(* failures. The argument: the guard lets one updater of a process swap at *)
(* a time (OneSwaps), so while nobody runs `ekilied --update` the one that *)
(* swaps knows where the running file of the agent is, and which version   *)
(* it moves (AgentKnowsItsFile).                                           *)
(***************************************************************************)
EXTENDS SelfUpdate, TLAPS

AgentUpdaters == {"loop", "job"}

\* updateInProgress, as a lock.
OneSwaps ==
    \A t, u \in Updaters :
        t # u /\ ProcessOf(t) = ProcessOf(u) => ~(pc[t] \in Guarded /\ pc[u] \in Guarded)

\* An updater that swaps has room for one more suffix and a release to install, and the flag's
\* process does not restart.
Swappers ==
    /\ \A t \in Updaters : pc[t] \in {"guard"} \cup Guarded => goal[t] # 0
    /\ \A t \in Updaters : pc[t] \in Swapping => self[t] < MaxPath
    /\ pc["cli"] \in {"idle", "guard"} \cup Guarded
    /\ ~up => \A t \in AgentUpdaters : pc[t] = "idle"

\* The agent runs the file at exe; who swaps took its path from there, and moved it if it is
\* between its renames; the release to install is newer than the one the agent runs.
AgentKnowsItsFile ==
    ~byHand =>
        /\ pc["cli"] = "idle"
        /\ up => linked["agent"] /\ bin[exe["agent"]] = ver["agent"]
        /\ \A t \in AgentUpdaters :
              /\ pc[t] \in {"guard"} \cup Guarded => goal[t] > ver["agent"]
              /\ pc[t] \in {"remove", "backup"} => exe["agent"] = self[t]
              /\ pc[t] \in Window => exe["agent"] = self[t] + 1

\* An updater that replaces the file at the service's path leaves it empty meanwhile, nobody else.
ServiceEmptied ==
    bin[0] = 0 => halved \/ \E t \in Updaters : pc[t] \in Window /\ self[t] = 0

\* Under systemd a job that has not reported yet has not said success, and one that says it has
\* had its restart queued.
JobIsFrank ==
    systemd =>
        /\ \A t \in Updaters : pc[t] # "reexec"
        /\ pc["job"] \in {"guard", "swapped"} \cup Guarded => reported = {}
        /\ pc["job"] \in {"guard", "swapped", "success"} \cup Guarded => ~unrestarted

IInv ==
    /\ TypeOK /\ GuardIsHonest /\ OneSwaps /\ Swappers
    /\ AgentKnowsItsFile /\ ServiceEmptied /\ JobIsFrank /\ NoSilentSuccess

-----------------------------------------------------------------------------
LEMMA ProcessOfTyped == ASSUME NEW t \in Updaters PROVE ProcessOf(t) \in Processes
BY DEF Updaters, Processes, ProcessOf

LEMMA GotoTyped ==
    ASSUME pc \in [Updaters -> PcStates], NEW t \in Updaters, NEW l \in PcStates, Goto(t, l)
    PROVE  pc' \in [Updaters -> PcStates]
BY DEF Goto

LEMMA AfterFailureTyped == ASSUME NEW t PROVE AfterFailure(t) \in {"idle", "failure"}
BY DEF AfterFailure

LEMMA UnguardTyped ==
    ASSUME guard \in [Processes -> BOOLEAN], NEW t \in Updaters, Unguard(t)
    PROVE  guard' \in [Processes -> BOOLEAN]
BY ProcessOfTyped, Zenon DEF Unguard

LEMMA MoveTyped ==
    ASSUME TypeOK, NEW from \in Paths, NEW to \in Paths, Move(from, to)
    PROVE  /\ bin' \in [Paths -> 0 .. latest]
           /\ exe' \in [Processes -> Paths] /\ linked' \in [Processes -> BOOLEAN]
<1>1. bin' \in [Paths -> 0 .. latest]
  BY UpdateAssumption DEF TypeOK, Move
<1>2. exe' \in [Processes -> Paths]
  BY DEF TypeOK, Move
<1>3. linked' \in [Processes -> BOOLEAN]
  BY Zenon DEF TypeOK, Move
<1>4. QED
  BY <1>1, <1>2, <1>3

LEMMA PutTyped ==
    ASSUME TypeOK, NEW path \in Paths, NEW v \in 0 .. latest, Put(path, v)
    PROVE  /\ bin' \in [Paths -> 0 .. latest]
           /\ exe' \in [Processes -> Paths] /\ linked' \in [Processes -> BOOLEAN]
<1>1. bin' \in [Paths -> 0 .. latest]
  BY DEF TypeOK, Put
<1>2. exe' \in [Processes -> Paths]
  BY DEF TypeOK, Put
<1>3. linked' \in [Processes -> BOOLEAN]
  BY Zenon DEF TypeOK, Put
<1>4. QED
  BY <1>1, <1>2, <1>3

-----------------------------------------------------------------------------
LEMMA InitIInv == Init => IInv
<1> SUFFICES ASSUME Init PROVE IInv
  OBVIOUS
<1> USE UpdateAssumption DEF Init, Updaters, Processes, ProcessOf, Guarded, Swapping, Window
<1>1. TypeOK
  <2>1. bin \in [Paths -> 0 .. latest] /\ exe \in [Processes -> Paths]
    BY DEF Paths
  <2>2. ver \in [Processes -> 1 .. latest]
    OBVIOUS
  <2>3. linked \in [Processes -> BOOLEAN] /\ guard \in [Processes -> BOOLEAN]
    BY Zenon
  <2>4. /\ pc \in [Updaters -> PcStates] /\ goal \in [Updaters -> 0 .. latest]
        /\ self \in [Updaters -> Paths]
    BY DEF PcStates, Paths
  <2>5. latest \in 1 .. MaxVersion /\ events \in 0 .. MaxEvents
    OBVIOUS
  <2>6. QED
    BY <2>1, <2>2, <2>3, <2>4, <2>5, Zenon DEF TypeOK, None
<1>2. GuardIsHonest /\ OneSwaps
  BY DEF GuardIsHonest, OneSwaps
<1>3. Swappers
  BY DEF Swappers, AgentUpdaters
<1>4. AgentKnowsItsFile /\ ServiceEmptied
  BY DEF AgentKnowsItsFile, ServiceEmptied, AgentUpdaters, Paths
<1>5. JobIsFrank /\ NoSilentSuccess
  BY DEF JobIsFrank, NoSilentSuccess, AgentUpdaters
<1>6. QED
  BY <1>1, <1>2, <1>3, <1>4, <1>5 DEF IInv

LEMMA StepType == IInv /\ [Next]_vars => TypeOK'
<1> SUFFICES ASSUME TypeOK, Swappers, [Next]_vars PROVE TypeOK'
  BY DEF IInv
<1> USE UpdateAssumption DEF TypeOK
<1>1. ASSUME NEW t \in Updaters, Check(t) PROVE TypeOK'
  <2>1. pc' \in [Updaters -> PcStates]
    BY <1>1, GotoTyped DEF Check, PcStates
  <2>2. events' \in 0 .. MaxEvents /\ goal' \in [Updaters -> 0 .. latest]
    BY <1>1 DEF Check, Event, jobVars
  <2>3. reported' \subseteq {"success", "failure"} /\ unrestarted' \in BOOLEAN
    BY <1>1, Zenon DEF Check, jobVars
  <2>4. QED
    BY <1>1, <2>1, <2>2, <2>3, Zenon
       DEF Check, fileVars, procVars, jobVars, bounds
<1>2. CASE CheckByHand
  <2>1. pc' \in [Updaters -> PcStates]
    BY <1>2, GotoTyped DEF CheckByHand, PcStates, Updaters
  <2>2. linked' \in [Processes -> BOOLEAN]
    BY <1>2, Zenon DEF CheckByHand, Processes
  <2>3. exe' \in [Processes -> Paths]
    BY <1>2 DEF CheckByHand, Processes, Paths
  <2>4. ver' \in [Processes -> 1 .. latest] /\ goal' \in [Updaters -> 0 .. latest]
    <3>1. bin[0] \in 1 .. latest
      BY <1>2 DEF CheckByHand, Paths
    <3>2. ver' \in [Processes -> 1 .. latest]
      BY <1>2, <3>1 DEF CheckByHand
    <3>3. goal' \in [Updaters -> 0 .. latest]
      BY <1>2 DEF CheckByHand, Updaters
    <3>4. QED
      BY <3>2, <3>3
  <2>5. events' \in 0 .. MaxEvents
    BY <1>2 DEF CheckByHand, Event
  <2>6. QED
    BY <1>2, <2>1, <2>2, <2>3, <2>4, <2>5, Zenon
       DEF CheckByHand, jobVars
<1>3. ASSUME NEW t \in Updaters, TakeGuard(t) \/ GuardHeld(t) \/ FetchFails(t) \/ Fetched(t)
      PROVE  TypeOK'
  <2>1. pc' \in [Updaters -> PcStates]
    BY <1>3, GotoTyped, AfterFailureTyped DEF TakeGuard, GuardHeld, FetchFails, Fetched, PcStates
  <2>2. guard' \in [Processes -> BOOLEAN]
    BY <1>3, UnguardTyped, ProcessOfTyped, Zenon DEF TakeGuard, GuardHeld, FetchFails, Fetched
  <2>3. self' \in [Updaters -> Paths]
    BY <1>3, ProcessOfTyped DEF TakeGuard, GuardHeld, FetchFails, Fetched
  <2>4. events' \in 0 .. MaxEvents
    BY <1>3 DEF TakeGuard, GuardHeld, FetchFails, Fetched, Event
  <2>5. QED
    BY <1>3, <2>1, <2>2, <2>3, <2>4, Zenon
       DEF TakeGuard, GuardHeld, FetchFails, Fetched, fileVars, procVars, jobVars, bounds
<1>4. ASSUME NEW t \in Updaters, RemoveBackup(t) \/ Backup(t) \/ Install(t) \/ Restore(t)
      PROVE  TypeOK'
  <2>1. pc' \in [Updaters -> PcStates]
    BY <1>4, GotoTyped, AfterFailureTyped DEF RemoveBackup, Backup, Install, Restore, PcStates
  <2>2. guard' \in [Processes -> BOOLEAN]
    BY <1>4, UnguardTyped, Zenon DEF RemoveBackup, Backup, Install, Restore
  <2>3. self[t] \in Paths /\ self[t] + 1 \in Paths
    BY <1>4 DEF RemoveBackup, Backup, Install, Restore, At, Swappers, Swapping, Paths
  <2>4. /\ bin' \in [Paths -> 0 .. latest]
        /\ exe' \in [Processes -> Paths] /\ linked' \in [Processes -> BOOLEAN]
    <3>1. CASE RemoveBackup(t)
      <4>1. CASE Put(self[t] + 1, 0)
        BY <4>1, <2>3, PutTyped
      <4>2. CASE UNCHANGED fileVars
        BY <4>2 DEF fileVars
      <4>3. QED
        BY <3>1, <4>1, <4>2 DEF RemoveBackup
    <3>2. CASE Backup(t)
      BY <3>2, <2>3, MoveTyped DEF Backup
    <3>3. CASE Install(t)
      BY <3>3, <2>3, PutTyped DEF Install
    <3>4. CASE Restore(t)
      BY <3>4, <2>3, MoveTyped DEF Restore, fileVars
    <3>5. QED
      BY <1>4, <3>1, <3>2, <3>3, <3>4
  <2>5. events' \in 0 .. MaxEvents
    BY <1>4 DEF RemoveBackup, Backup, Install, Restore, Event
  <2>6. QED
    BY <1>4, <2>1, <2>2, <2>4, <2>5, Zenon
       DEF RemoveBackup, Backup, Install, Restore, procVars, jobVars, bounds
<1>5. ASSUME NEW t \in Updaters, BackupFails(t) \/ InstallFails(t) \/ RestoreFails(t)
      PROVE  TypeOK'
  <2>1. pc' \in [Updaters -> PcStates]
    BY <1>5, GotoTyped, AfterFailureTyped DEF BackupFails, InstallFails, RestoreFails, PcStates
  <2>2. guard' \in [Processes -> BOOLEAN]
    BY <1>5, UnguardTyped, Zenon DEF BackupFails, InstallFails, RestoreFails
  <2>3. events' \in 0 .. MaxEvents
    BY <1>5 DEF BackupFails, InstallFails, RestoreFails, Event
  <2>4. halved' \in BOOLEAN
    BY <1>5, Zenon DEF BackupFails, InstallFails, RestoreFails
  <2>5. QED
    BY <1>5, <2>1, <2>2, <2>3, <2>4, Zenon
       DEF BackupFails, InstallFails, RestoreFails, fileVars, procVars, jobVars, bounds
<1>6. ASSUME NEW t \in Updaters, QueueRestart(t) \/ RestartFails(t) \/ ReportAndReexec(t)
      PROVE  TypeOK'
  <2>1. pc' \in [Updaters -> PcStates]
    BY <1>6, GotoTyped, AfterFailureTyped DEF QueueRestart, RestartFails, ReportAndReexec, PcStates
  <2>2. unrestarted' \in BOOLEAN
    BY <1>6, Zenon DEF QueueRestart, RestartFails, ReportAndReexec, jobVars
  <2>3. events' \in 0 .. MaxEvents
    BY <1>6 DEF QueueRestart, RestartFails, ReportAndReexec, Event
  <2>4. QED
    BY <1>6, <2>1, <2>2, <2>3, Zenon
       DEF QueueRestart, RestartFails, ReportAndReexec, fileVars, procVars, jobVars, bounds
<1>7. ASSUME NEW t \in Updaters, Reexec(t) \/ ReexecFails(t) PROVE TypeOK'
  <2>1. pc' \in [Updaters -> PcStates]
    BY <1>7, GotoTyped, AfterFailureTyped DEF Reexec, ReexecFails, PcStates
  <2>2. guard' \in [Processes -> BOOLEAN] /\ linked' \in [Processes -> BOOLEAN]
    BY <1>7, Zenon DEF Reexec, ReexecFails, Processes, fileVars
  <2>3. unrestarted' \in BOOLEAN /\ halved' \in BOOLEAN
    BY <1>7, Zenon DEF Reexec, ReexecFails, jobVars
  <2>4. ver' \in [Processes -> 1 .. latest]
    BY <1>7 DEF Reexec, ReexecFails, Processes, procVars
  <2>5. events' \in 0 .. MaxEvents
    BY <1>7 DEF Reexec, ReexecFails, Event
  <2>6. QED
    BY <1>7, <2>1, <2>2, <2>3, <2>4, <2>5, Zenon
       DEF Reexec, ReexecFails, fileVars, procVars, jobVars, bounds
<1>8. CASE Report
  <2>1. pc' \in [Updaters -> PcStates]
    BY <1>8, GotoTyped DEF Report, PcStates, Updaters
  <2>2. events' \in 0 .. MaxEvents
    BY <1>8 DEF Report, Event
  <2>3. QED
    BY <1>8, <2>1, <2>2, Zenon
       DEF Report, fileVars, procVars, bounds
<1>9. CASE Exit \/ Crash
  <2>1. Boot
    BY <1>9 DEF Exit, Crash
  <2>2. pc' \in [Updaters -> PcStates]
    BY <2>1 DEF Boot, PcStates, Updaters
  <2>8. exe' \in [Processes -> Paths]
    <3>1. 0 \in Paths
      BY DEF Paths
    <3>2. QED
      BY <2>1, <3>1 DEF Boot
  <2>3. guard' \in [Processes -> BOOLEAN] /\ linked' \in [Processes -> BOOLEAN]
    BY <2>1, Zenon DEF Boot
  <2>4. up' \in BOOLEAN /\ halved' \in BOOLEAN
    BY <2>1, Zenon DEF Boot, Start
  <2>5. ver' \in [Processes -> 1 .. latest]
    <3>1. bin[0] # 0 => bin[0] \in 1 .. latest
      BY DEF Paths
    <3>2. QED
      BY <2>1, <3>1 DEF Boot, Start
  <2>6. events' \in 0 .. MaxEvents
    BY <1>9 DEF Exit, Crash, Event
  <2>7. QED
    BY <2>1, <2>2, <2>3, <2>4, <2>5, <2>6, <2>8, Zenon DEF Boot, jobVars, bounds
<1>10. CASE Terminate
  BY <1>10, Zenon DEF Terminate, fileVars, taskVars, jobVars, bounds
<1>13. CASE Publish
  <2>1. latest' \in 1 .. MaxVersion /\ 0 .. latest \subseteq 0 .. latest'
        /\ 1 .. latest \subseteq 1 .. latest'
    BY <1>13 DEF Publish
  <2>2. /\ bin' \in [Paths -> 0 .. latest'] /\ ver' \in [Processes -> 1 .. latest']
        /\ goal' \in [Updaters -> 0 .. latest']
    BY <1>13, <2>1 DEF Publish, fileVars, procVars, taskVars
  <2>3. QED
    BY <1>13, <2>1, <2>2, Zenon DEF Publish, fileVars, procVars, taskVars, jobVars
<1>11. CASE UNCHANGED vars
  BY <1>11 DEF vars, fileVars, procVars, taskVars, jobVars, bounds
<1>12. QED
  BY <1>1, <1>2, <1>3, <1>4, <1>5, <1>6, <1>7, <1>8, <1>9, <1>10, <1>11, <1>13
     DEF Next, Swap, Restart

-----------------------------------------------------------------------------
\* The guard, process by process.
Locked ==
    /\ guard["agent"] => pc["loop"] \in Guarded \/ pc["job"] \in Guarded
    /\ pc["loop"] \in Guarded => guard["agent"] /\ pc["job"] \notin Guarded
    /\ pc["job"] \in Guarded => guard["agent"] /\ pc["loop"] \notin Guarded
    /\ guard["cli"] => pc["cli"] \in Guarded
    /\ pc["cli"] \in Guarded => guard["cli"]

LEMMA LockedIsHonest == ASSUME TypeOK PROVE Locked <=> GuardIsHonest /\ OneSwaps
<1>1. Locked => GuardIsHonest
  BY DEF Locked, GuardIsHonest, Updaters, Processes, ProcessOf
<1>2. Locked => OneSwaps
  BY DEF Locked, OneSwaps, Updaters, ProcessOf
<1>3. GuardIsHonest /\ OneSwaps => Locked
  BY DEF Locked, GuardIsHonest, OneSwaps, Updaters, Processes, ProcessOf
<1>4. QED
  BY <1>1, <1>2, <1>3

\* What a step does to the guard: nothing, take it, release it, or end with the process.
LEMMA KeepsLock ==
    ASSUME TypeOK, Locked, NEW t \in Updaters, NEW l, UNCHANGED guard, Goto(t, l),
           pc[t] \in Guarded <=> l \in Guarded
    PROVE  Locked'
BY DEF TypeOK, Locked, Goto, Updaters

LEMMA TakesLock ==
    ASSUME TypeOK, Locked, NEW t \in Updaters, TakeGuard(t)
    PROVE  Locked'
<1>1. CASE t = "loop"
  BY <1>1 DEF TypeOK, Locked, TakeGuard, Goto, Updaters, Processes, ProcessOf, Guarded
<1>2. CASE t = "job"
  BY <1>2 DEF TypeOK, Locked, TakeGuard, Goto, Updaters, Processes, ProcessOf, Guarded
<1>3. CASE t = "cli"
  BY <1>3 DEF TypeOK, Locked, TakeGuard, Goto, Updaters, Processes, ProcessOf, Guarded
<1>4. QED
  BY <1>1, <1>2, <1>3 DEF Updaters

LEMMA ReleasesLock ==
    ASSUME TypeOK, Locked, NEW t \in Updaters, NEW l, Unguard(t), Goto(t, l),
           pc[t] \in Guarded, l \notin Guarded
    PROVE  Locked'
<1>1. CASE t = "loop"
  BY <1>1 DEF TypeOK, Locked, Unguard, Goto, Updaters, Processes, ProcessOf
<1>2. CASE t = "job"
  BY <1>2 DEF TypeOK, Locked, Unguard, Goto, Updaters, Processes, ProcessOf
<1>3. CASE t = "cli"
  BY <1>3 DEF TypeOK, Locked, Unguard, Goto, Updaters, Processes, ProcessOf
<1>4. QED
  BY <1>1, <1>2, <1>3 DEF Updaters

LEMMA EndsLock ==
    ASSUME TypeOK, Locked, guard' = [guard EXCEPT !["agent"] = FALSE],
           pc' = [pc EXCEPT !["loop"] = "idle", !["job"] = "idle"]
    PROVE  Locked'
BY DEF TypeOK, Locked, Updaters, Processes, Guarded

LEMMA StepLocked == TypeOK /\ Locked /\ [Next]_vars => Locked'
<1> SUFFICES ASSUME TypeOK, Locked, [Next]_vars PROVE Locked'
  OBVIOUS
<1>1. ASSUME NEW t \in Updaters, Check(t) PROVE Locked'
  BY <1>1, KeepsLock DEF Check, At, Guarded
<1>2. CASE CheckByHand
  BY <1>2, KeepsLock DEF CheckByHand, At, Guarded, Updaters
<1>3. ASSUME NEW t \in Updaters, GuardHeld(t) PROVE Locked'
  BY <1>3, KeepsLock, AfterFailureTyped DEF GuardHeld, At, Guarded
<1>4. ASSUME NEW t \in Updaters, Fetched(t) \/ RemoveBackup(t) \/ Backup(t) \/ InstallFails(t)
      PROVE  Locked'
  BY <1>4, KeepsLock DEF Fetched, RemoveBackup, Backup, InstallFails, At, Guarded
<1>5. ASSUME NEW t \in Updaters, FetchFails(t) \/ BackupFails(t) \/ Install(t) \/ Restore(t)
                                \/ RestoreFails(t)
      PROVE  Locked'
  <2>1. \E l \in PcStates \ Guarded : Goto(t, l)
    BY <1>5, AfterFailureTyped DEF FetchFails, BackupFails, Install, Restore, RestoreFails, PcStates,
       Guarded
  <2>2. pc[t] \in Guarded /\ Unguard(t)
    BY <1>5 DEF FetchFails, BackupFails, Install, Restore, RestoreFails, At, Guarded
  <2>3. QED
    BY <2>1, <2>2, ReleasesLock
<1>6. ASSUME NEW t \in Updaters, QueueRestart(t) \/ RestartFails(t) \/ ReportAndReexec(t)
                                \/ ReexecFails(t)
      PROVE  Locked'
  <2>1. \E l \in PcStates \ Guarded : Goto(t, l)
    BY <1>6, AfterFailureTyped
       DEF QueueRestart, RestartFails, ReportAndReexec, ReexecFails, PcStates, Guarded
  <2>2. pc[t] \notin Guarded /\ UNCHANGED guard
    BY <1>6 DEF QueueRestart, RestartFails, ReportAndReexec, ReexecFails, At, Guarded
  <2>3. QED
    BY <2>1, <2>2, KeepsLock
<1>7. CASE Report
  BY <1>7, KeepsLock DEF Report, Guarded, Updaters
<1>8. ASSUME NEW t \in Updaters, Reexec(t) PROVE Locked'
  BY <1>8, EndsLock DEF Reexec
<1>9. CASE Exit \/ Crash
  BY <1>9, EndsLock DEF Exit, Crash, Boot
<1>10. CASE UNCHANGED <<guard, pc>>
  BY <1>10 DEF Locked
<1>11. QED
  BY <1>1, <1>2, <1>3, <1>4, <1>5, <1>6, <1>7, <1>8, <1>9, <1>10, TakesLock
     DEF Next, Swap, Restart, Terminate, Publish, vars, taskVars

-----------------------------------------------------------------------------
LEMMA StepSwappers == TypeOK /\ Swappers /\ [Next]_vars => Swappers'
<1> SUFFICES ASSUME TypeOK, Swappers, [Next]_vars PROVE Swappers'
  OBVIOUS
<1> USE DEF TypeOK, Swappers, AgentUpdaters, Swapping, Guarded, At, Goto
<1>1. ASSUME NEW t \in Updaters, Check(t) PROVE Swappers'
  BY <1>1 DEF Check, procVars, Updaters
<1>2. CASE CheckByHand
  BY <1>2 DEF CheckByHand, Updaters
<1>3. ASSUME NEW t \in Updaters, TakeGuard(t) \/ GuardHeld(t) \/ FetchFails(t) \/ BackupFails(t)
                                \/ InstallFails(t) \/ RestoreFails(t)
      PROVE  Swappers'
  BY <1>3 DEF TakeGuard, GuardHeld, FetchFails, BackupFails, InstallFails, RestoreFails,
              AfterFailure, procVars, Updaters
<1>4. ASSUME NEW t \in Updaters, Fetched(t) PROVE Swappers'
  BY <1>4, ProcessOfTyped DEF Fetched, procVars, Updaters, Paths
<1>5. ASSUME NEW t \in Updaters, RemoveBackup(t) \/ Backup(t) \/ Install(t) \/ Restore(t)
      PROVE  Swappers'
  BY <1>5 DEF RemoveBackup, Backup, Install, Restore, AfterFailure, procVars, Updaters
<1>6. ASSUME NEW t \in Updaters, QueueRestart(t) \/ RestartFails(t) \/ ReportAndReexec(t)
                                \/ ReexecFails(t)
      PROVE  Swappers'
  BY <1>6 DEF QueueRestart, RestartFails, ReportAndReexec, ReexecFails, AfterFailure,
              procVars, Updaters
<1>7. CASE Report
  BY <1>7 DEF Report, procVars, Updaters
<1>8. ASSUME NEW t \in Updaters, Reexec(t) PROVE Swappers'
  BY <1>8 DEF Reexec, Updaters
<1>9. CASE Exit \/ Crash
  BY <1>9 DEF Exit, Crash, Boot, Updaters
<1>10. CASE UNCHANGED <<pc, goal, self, up>>
  BY <1>10
<1>11. QED
  BY <1>1, <1>2, <1>3, <1>4, <1>5, <1>6, <1>7, <1>8, <1>9, <1>10
     DEF Next, Swap, Restart, Terminate, Publish, vars, taskVars, procVars

\* A job that has neither failed nor had its restart queued, and the steps that leave what it
\* says open.
Trying == {"guard", "swapped"} \cup Guarded

LEMMA JobGoesOn ==
    ASSUME pc \in [Updaters -> PcStates], JobIsFrank, NoSilentSuccess,
           UNCHANGED <<systemd, reported, unrestarted>>,
           NEW t \in Updaters, NEW l, Goto(t, l), l # "reexec",
           l \in Trying \cup {"success"} => pc[t] \in Trying
    PROVE  JobIsFrank' /\ NoSilentSuccess'
<1>1. CASE t = "job"
  BY <1>1 DEF JobIsFrank, NoSilentSuccess, Goto, Trying, Updaters
<1>2. CASE t # "job"
  BY <1>2 DEF JobIsFrank, NoSilentSuccess, Goto, Trying, Updaters
<1>3. QED
  BY <1>1, <1>2

LEMMA StepJobIsFrank ==
    TypeOK /\ JobIsFrank /\ NoSilentSuccess /\ [Next]_vars => JobIsFrank' /\ NoSilentSuccess'
<1> SUFFICES ASSUME pc \in [Updaters -> PcStates], unrestarted \in BOOLEAN,
                    JobIsFrank, NoSilentSuccess, [Next]_vars, systemd'
             PROVE  JobIsFrank' /\ NoSilentSuccess'
  BY DEF JobIsFrank, NoSilentSuccess, TypeOK
<1>1. ASSUME NEW t \in Updaters, Check(t) PROVE JobIsFrank' /\ NoSilentSuccess'
  BY <1>1 DEF Check, jobVars, bounds, At, Goto, Updaters, JobIsFrank, NoSilentSuccess, Guarded
<1>2. CASE CheckByHand
  BY <1>2 DEF CheckByHand, jobVars, Goto, Updaters, JobIsFrank, NoSilentSuccess, Guarded
<1>3. ASSUME NEW t \in Updaters, TakeGuard(t) \/ GuardHeld(t) \/ FetchFails(t) \/ Fetched(t)
                                \/ BackupFails(t) \/ InstallFails(t) \/ RemoveBackup(t)
                                \/ Backup(t) \/ Install(t) \/ Restore(t) \/ RestoreFails(t)
      PROVE  JobIsFrank' /\ NoSilentSuccess'
  <2>1. pc[t] \in Trying
    BY <1>3 DEF TakeGuard, GuardHeld, FetchFails, Fetched, BackupFails, InstallFails,
                RemoveBackup, Backup, Install, Restore, RestoreFails, At, Trying, Guarded
  <2>2. UNCHANGED <<systemd, reported, unrestarted>>
    BY <1>3 DEF TakeGuard, GuardHeld, FetchFails, Fetched, BackupFails, InstallFails,
                RemoveBackup, Backup, Install, Restore, RestoreFails, jobVars, bounds
  <2>3. \E l \in PcStates \ {"reexec"} : Goto(t, l)
    BY <1>3, AfterFailureTyped
       DEF TakeGuard, GuardHeld, FetchFails, Fetched, BackupFails, InstallFails,
           RemoveBackup, Backup, Install, Restore, RestoreFails, PcStates
  <2>4. QED
    BY <2>1, <2>2, <2>3, JobGoesOn
<1>4. ASSUME NEW t \in Updaters, QueueRestart(t) PROVE JobIsFrank' /\ NoSilentSuccess'
  <2>1. \E l \in {"success", "ended"} : Goto(t, l)
    BY <1>4 DEF QueueRestart
  <2>2. pc[t] \in Trying /\ UNCHANGED <<systemd, reported, unrestarted>>
    BY <1>4 DEF QueueRestart, Trying, At, jobVars, bounds
  <2>3. QED
    BY <2>1, <2>2, JobGoesOn
<1>5. ASSUME NEW t \in Updaters, RestartFails(t) PROVE JobIsFrank' /\ NoSilentSuccess'
  <2>1. CASE t = "job"
    BY <1>5, <2>1 DEF RestartFails, AfterFailure, bounds, At, Goto, Updaters, Guarded,
                      JobIsFrank, NoSilentSuccess
  <2>2. CASE t # "job"
    <3>1. unrestarted' = unrestarted /\ reported' = reported /\ systemd' = systemd
      BY <1>5, <2>2 DEF RestartFails, bounds
    <3>2. Goto(t, "idle")
      BY <1>5, <2>2 DEF RestartFails, AfterFailure
    <3>3. QED
      BY <3>1, <3>2, JobGoesOn DEF Trying, Guarded
  <2>3. QED
    BY <2>1, <2>2
<1>6. ASSUME NEW t \in Updaters, ReportAndReexec(t) \/ Reexec(t) \/ ReexecFails(t)
      PROVE  FALSE
  BY <1>6 DEF ReportAndReexec, Reexec, ReexecFails, At, bounds, JobIsFrank
<1>7. CASE Report
  BY <1>7 DEF Report, bounds, Goto, Updaters, JobIsFrank, NoSilentSuccess, Guarded
<1>8. CASE Boot
  BY <1>8 DEF Boot, jobVars, bounds, Updaters, JobIsFrank, NoSilentSuccess, Guarded
<1>9. CASE UNCHANGED <<systemd, pc, reported, unrestarted>>
  BY <1>9 DEF JobIsFrank, NoSilentSuccess
<1>10. QED
  BY <1>1, <1>2, <1>3, <1>4, <1>5, <1>6, <1>7, <1>8, <1>9
     DEF Next, Swap, Restart, Exit, Crash, Terminate, Publish, vars, taskVars, jobVars, bounds

-----------------------------------------------------------------------------
Begun == {"guard"} \cup Guarded

\* A step of an updater that leaves the files alone.
LEMMA FilesStay ==
    ASSUME pc \in [Updaters -> PcStates], AgentKnowsItsFile, ~byHand,
           UNCHANGED <<fileVars, ver, up, goal, self, byHand>>,
           NEW t \in AgentUpdaters, NEW l, Goto(t, l),
           l \in Begun => pc[t] \in Begun,
           l \notin {"remove", "backup"}, l \in Window <=> pc[t] \in Window
    PROVE  AgentKnowsItsFile'
<1>1. QED
  BY DEF AgentKnowsItsFile, Goto, fileVars, AgentUpdaters, Updaters, Begun

\* The updater that swaps is the agent's, and the other one does not.
LEMMA SwapsAlone ==
    ASSUME TypeOK, Locked, Swappers, AgentKnowsItsFile, ~byHand,
           NEW t \in Updaters, pc[t] \in Guarded
    PROVE  /\ t \in AgentUpdaters /\ ProcessOf(t) = "agent"
           /\ up /\ linked["agent"] /\ bin[exe["agent"]] = ver["agent"] /\ ver["agent"] # 0
           /\ exe["agent"] \in Paths /\ self[t] \in Paths
           /\ pc[t] \in Swapping => self[t] + 1 \in Paths
           /\ goal[t] > ver["agent"] /\ goal[t] # 0
           /\ \A u \in AgentUpdaters : u # t => pc[u] \notin Guarded
<1>1. t # "cli"
  BY DEF AgentKnowsItsFile, Guarded
<1>2. t \in AgentUpdaters /\ ProcessOf(t) = "agent"
  BY <1>1 DEF Updaters, AgentUpdaters, ProcessOf
<1>3. up
  BY <1>2 DEF Swappers, Guarded
<1>4. linked["agent"] /\ bin[exe["agent"]] = ver["agent"] /\ goal[t] > ver["agent"]
  BY <1>2, <1>3 DEF AgentKnowsItsFile
<1>5. \A u \in AgentUpdaters : u # t => pc[u] \notin Guarded
  BY <1>2 DEF Locked, AgentUpdaters
<1>6. exe["agent"] \in Paths /\ self[t] \in Paths /\ (pc[t] \in Swapping => self[t] + 1 \in Paths)
  <2>1. exe["agent"] \in Paths /\ self[t] \in Paths
    BY Zenon DEF TypeOK, Processes
  <2>2. pc[t] \in Swapping => self[t] + 1 \in Paths
    BY <2>1, UpdateAssumption DEF Swappers, Paths
  <2>3. QED
    BY <2>1, <2>2
<1>7. ver["agent"] # 0 /\ goal[t] # 0
  BY <1>4 DEF TypeOK, Processes
<1>8. QED
  BY <1>2, <1>3, <1>4, <1>5, <1>6, <1>7

LEMMA StepFetched ==
    ASSUME TypeOK, Locked, Swappers, AgentKnowsItsFile, ~byHand, NEW t \in Updaters, Fetched(t)
    PROVE  AgentKnowsItsFile'
<1>1. pc[t] \in Guarded
  BY DEF Fetched, At, Guarded
<1>2. QED
  BY <1>1, SwapsAlone DEF AgentKnowsItsFile, Fetched, At, Goto, fileVars, procVars, bounds,
     AgentUpdaters, Updaters, Guarded, Window, TypeOK

\* The deleted backup is not the running file.
LEMMA StepRemoveBackup ==
    ASSUME TypeOK, Locked, Swappers, AgentKnowsItsFile, ~byHand, NEW t \in Updaters, RemoveBackup(t)
    PROVE  AgentKnowsItsFile'
<1>1. pc[t] \in Guarded /\ pc[t] \in Swapping
  BY DEF RemoveBackup, At, Guarded, Swapping
<1>2. exe["agent"] = self[t] /\ self[t] # self[t] + 1 /\ self[t] + 1 # 0
  BY <1>1, SwapsAlone DEF AgentKnowsItsFile, RemoveBackup, At, Paths
<1>3. /\ bin'[exe["agent"]] = bin[exe["agent"]] /\ bin'[0] = bin[0]
      /\ linked'["agent"] /\ exe' = exe
  <2>1. CASE Put(self[t] + 1, 0)
    BY <1>1, <1>2, <2>1, SwapsAlone DEF Put, Processes, TypeOK
  <2>2. CASE UNCHANGED fileVars
    BY <1>1, <2>2, SwapsAlone DEF fileVars
  <2>3. QED
    BY <2>1, <2>2 DEF RemoveBackup
<1>4. QED
  BY <1>1, <1>2, <1>3, SwapsAlone DEF AgentKnowsItsFile, RemoveBackup, At, Goto, procVars,
     bounds, AgentUpdaters, Updaters, Guarded, Window, TypeOK

\* The running file is the one that is moved.
LEMMA StepBackup ==
    ASSUME TypeOK, Locked, Swappers, AgentKnowsItsFile, ~byHand, NEW t \in Updaters, Backup(t)
    PROVE  AgentKnowsItsFile'
<1>1. pc[t] \in Guarded /\ pc[t] \in Swapping
  BY DEF Backup, At, Guarded, Swapping
<1>2. exe["agent"] = self[t] /\ self[t] # self[t] + 1 /\ self[t] + 1 # 0
  BY <1>1, SwapsAlone DEF AgentKnowsItsFile, Backup, At, Paths
<1>3. exe'["agent"] = self[t] + 1 /\ linked'["agent"]
  BY <1>1, <1>2, SwapsAlone DEF Backup, Move, Processes, TypeOK
<1>4. bin'[self[t] + 1] = ver["agent"] /\ (bin'[0] = bin[0] \/ self[t] = 0)
  <2>1. bin' = [bin EXCEPT ![self[t] + 1] = bin[self[t]], ![self[t]] = 0]
    BY DEF Backup, Move
  <2>2. bin \in [Paths -> 0 .. latest] /\ self[t] + 1 \in Paths /\ bin[self[t]] = ver["agent"]
    BY <1>1, <1>2, SwapsAlone, Zenon DEF TypeOK
  <2>3. self[t] \in Paths /\ 0 \in Paths
    BY <1>1, SwapsAlone, UpdateAssumption DEF Paths
  <2>4. QED
    BY <1>2, <2>1, <2>2, <2>3
<1>5. QED
  BY <1>1, <1>3, <1>4, SwapsAlone DEF AgentKnowsItsFile, Backup, At, Goto, procVars,
     bounds, AgentUpdaters, Updaters, Guarded, Window, TypeOK

LEMMA StepInstall ==
    ASSUME TypeOK, Locked, Swappers, AgentKnowsItsFile, ~byHand, NEW t \in Updaters, Install(t)
    PROVE  AgentKnowsItsFile'
<1>1. pc[t] \in Guarded /\ pc[t] \in Swapping
  BY DEF Install, At, Guarded, Swapping
<1>2. exe["agent"] = self[t] + 1 /\ self[t] # self[t] + 1
  BY <1>1, SwapsAlone DEF AgentKnowsItsFile, Install, At, Paths, Window
<1>3. /\ bin'[exe["agent"]] = bin[exe["agent"]] /\ linked'["agent"] /\ exe' = exe
      /\ bin'[0] = bin[0] \/ self[t] = 0
      /\ self[t] = 0 => bin'[0] # 0
  BY <1>1, <1>2, SwapsAlone DEF Install, Put, Processes, TypeOK
<1>4. QED
  BY <1>1, <1>3, SwapsAlone DEF AgentKnowsItsFile, Install, At, Goto, procVars,
     bounds, AgentUpdaters, Updaters, Guarded, Window, TypeOK

LEMMA StepRestore ==
    ASSUME TypeOK, Locked, Swappers, AgentKnowsItsFile, ~byHand, NEW t \in Updaters, Restore(t)
    PROVE  AgentKnowsItsFile'
<1>1. pc[t] \in Guarded /\ pc[t] \in Swapping
  BY DEF Restore, At, Guarded, Swapping
<1>2. exe["agent"] = self[t] + 1 /\ self[t] # self[t] + 1 /\ self[t] + 1 # 0
  BY <1>1, SwapsAlone DEF AgentKnowsItsFile, Restore, At, Paths, Window
<1>3. Move(self[t] + 1, self[t])
  BY <1>1, <1>2, SwapsAlone DEF Restore
<1>4. exe'["agent"] = self[t] /\ linked'["agent"]
  BY <1>1, <1>2, <1>3, SwapsAlone DEF Move, Processes, TypeOK
<1>5. /\ bin'[self[t]] = ver["agent"]
      /\ bin'[0] = bin[0] \/ self[t] = 0
  <2>1. bin' = [bin EXCEPT ![self[t]] = bin[self[t] + 1], ![self[t] + 1] = 0]
    BY <1>3 DEF Move
  <2>2. bin \in [Paths -> 0 .. latest] /\ self[t] \in Paths /\ bin[self[t] + 1] = ver["agent"]
    BY <1>1, <1>2, SwapsAlone, Zenon DEF TypeOK
  <2>3. self[t] \in Paths /\ 0 \in Paths
    BY <1>1, SwapsAlone, UpdateAssumption DEF Paths
  <2>4. QED
    BY <1>2, <2>1, <2>2, <2>3
<1>6. QED
  BY <1>1, <1>4, <1>5, SwapsAlone, AfterFailureTyped
     DEF AgentKnowsItsFile, Restore, At, Goto, procVars,
     bounds, AgentUpdaters, Updaters, Guarded, Window, TypeOK

\* The agent goes on running the backup.
LEMMA StepRestoreFails ==
    ASSUME TypeOK, Locked, Swappers, AgentKnowsItsFile, ~byHand, NEW t \in Updaters, RestoreFails(t)
    PROVE  AgentKnowsItsFile'
<1>1. pc[t] \in Guarded
  BY DEF RestoreFails, At, Guarded
<1>2. QED
  BY <1>1, SwapsAlone, AfterFailureTyped
     DEF AgentKnowsItsFile, RestoreFails, At, Goto, fileVars, procVars, bounds,
     AgentUpdaters, Updaters, Guarded, Window, TypeOK

\* The new image is the file that ran: it was moved at most.
LEMMA StepReexec ==
    ASSUME TypeOK, AgentKnowsItsFile, ~byHand, NEW t \in Updaters, Reexec(t)
    PROVE  AgentKnowsItsFile'
<1>1. QED
  BY DEF AgentKnowsItsFile, Reexec, bounds, AgentUpdaters, Updaters, Processes, Guarded,
     Window, TypeOK

\* Whatever ends the process: the service's path is what the next one runs.
LEMMA StepBoot == ASSUME TypeOK, AgentKnowsItsFile, ~byHand, Boot PROVE AgentKnowsItsFile'
<1>1. QED
  BY DEF AgentKnowsItsFile, Boot, Start, bounds, AgentUpdaters, Updaters, Processes, Guarded,
     Window, TypeOK

LEMMA ByHandStays == [Next]_vars /\ byHand => byHand'
<1> SUFFICES ASSUME [Next]_vars, byHand PROVE byHand'
  OBVIOUS
<1>1. ASSUME NEW t \in Updaters, Swap(t) PROVE byHand'
  BY <1>1 DEF Swap, TakeGuard, GuardHeld, FetchFails, Fetched, RemoveBackup, Backup, BackupFails,
              Install, InstallFails, Restore, RestoreFails, bounds
<1>2. ASSUME NEW t \in Updaters, Check(t) \/ Restart(t) PROVE byHand'
  BY <1>2 DEF Check, Restart, QueueRestart, RestartFails, ReportAndReexec, Reexec, ReexecFails,
              bounds
<1>3. CASE CheckByHand \/ Report \/ Terminate \/ Exit \/ Crash \/ Publish \/ UNCHANGED vars
  BY <1>3 DEF CheckByHand, Report, Terminate, Exit, Crash, Boot, Publish, bounds, vars
<1>4. QED
  BY <1>1, <1>2, <1>3 DEF Next

LEMMA StepAgentKnowsItsFile ==
    TypeOK /\ Locked /\ Swappers /\ AgentKnowsItsFile /\ [Next]_vars => AgentKnowsItsFile'
<1> SUFFICES ASSUME TypeOK, Locked, Swappers, AgentKnowsItsFile, [Next]_vars, ~byHand
             PROVE  AgentKnowsItsFile'
  BY ByHandStays DEF AgentKnowsItsFile
<1>1. ASSUME NEW t \in Updaters, Check(t) PROVE AgentKnowsItsFile'
  <2>1. goal'[t] > ver["agent"] /\ \A u \in Updaters : u # t => goal'[u] = goal[u]
    BY <1>1 DEF Check, TypeOK
  <2>2. QED
    BY <1>1, <2>1 DEF Check, AgentKnowsItsFile, At, Goto, fileVars, procVars, bounds,
       AgentUpdaters, Updaters, Guarded, Window, TypeOK
<1>2. CASE CheckByHand
  BY <1>2 DEF CheckByHand, AgentKnowsItsFile
<1>3. ASSUME NEW t \in Updaters,
             TakeGuard(t) \/ GuardHeld(t) \/ FetchFails(t) \/ BackupFails(t) \/ InstallFails(t)
      PROVE  AgentKnowsItsFile'
  <2>1. t \in AgentUpdaters
    BY <1>3 DEF TakeGuard, GuardHeld, FetchFails, BackupFails, InstallFails, At, AgentKnowsItsFile,
                AgentKnowsItsFile, AgentUpdaters, Updaters
  <2>2. UNCHANGED <<fileVars, ver, up, goal, self, byHand>>
    BY <1>3 DEF TakeGuard, GuardHeld, FetchFails, BackupFails, InstallFails, procVars, bounds
  <2>3. \E l \in {"fetch", "restore", "idle", "failure"} :
           /\ Goto(t, l) /\ (l \in Begun => pc[t] \in Begun) /\ (l \in Window <=> pc[t] \in Window)
    BY <1>3, AfterFailureTyped
       DEF TakeGuard, GuardHeld, FetchFails, BackupFails, InstallFails, At, Begun, Guarded, Window
  <2>4. QED
    BY <2>1, <2>2, <2>3, FilesStay DEF TypeOK
<1>4. ASSUME NEW t \in Updaters,
             QueueRestart(t) \/ RestartFails(t) \/ ReportAndReexec(t) \/ ReexecFails(t)
      PROVE  AgentKnowsItsFile'
  <2>1. t \in AgentUpdaters
    BY <1>4 DEF QueueRestart, RestartFails, ReportAndReexec, ReexecFails, At, AgentKnowsItsFile,
                AgentKnowsItsFile, AgentUpdaters, Updaters
  <2>2. UNCHANGED <<fileVars, ver, up, goal, self, byHand>>
    BY <1>4 DEF QueueRestart, RestartFails, ReportAndReexec, ReexecFails, procVars, bounds
  <2>3. \E l \in {"success", "ended", "reexec", "idle", "failure"} :
           /\ Goto(t, l) /\ (l \in Begun => pc[t] \in Begun) /\ (l \in Window <=> pc[t] \in Window)
    BY <1>4, AfterFailureTyped
       DEF QueueRestart, RestartFails, ReportAndReexec, ReexecFails, At, Begun, Guarded, Window
  <2>4. QED
    BY <2>1, <2>2, <2>3, FilesStay DEF TypeOK
<1>5. CASE Report
  BY <1>5, FilesStay DEF Report, TypeOK, AgentUpdaters, procVars, bounds, Begun, Guarded, Window
<1>6. CASE Terminate \/ Publish \/ UNCHANGED vars
  <2>1. UNCHANGED <<fileVars, ver, up, goal, self, byHand, pc>>
    BY <1>6 DEF Terminate, Publish, vars, procVars, taskVars, bounds
  <2>2. QED
    BY <2>1 DEF AgentKnowsItsFile, fileVars
<1>7. QED
  BY <1>1, <1>2, <1>3, <1>4, <1>5, <1>6, StepFetched, StepRemoveBackup, StepBackup, StepInstall,
     StepRestore, StepRestoreFails, StepReexec, StepBoot DEF Next, Swap, Restart, Exit, Crash

-----------------------------------------------------------------------------
\* A step that leaves the service's path alone, and every updater that swaps it where it is.
LEMMA PathStays ==
    ASSUME ServiceEmptied, bin'[0] = bin[0], halved => halved', self' = self,
           \A t \in Updaters : pc[t] \in Window /\ self[t] = 0 => pc'[t] \in Window
    PROVE  ServiceEmptied'
BY DEF ServiceEmptied

LEMMA StepServiceEmptied == TypeOK /\ Swappers /\ ServiceEmptied /\ [Next]_vars => ServiceEmptied'
<1> SUFFICES ASSUME TypeOK, Swappers, ServiceEmptied, [Next]_vars PROVE ServiceEmptied'
  OBVIOUS
<1> USE UpdateAssumption
<1> bin \in [Paths -> 0 .. latest] /\ pc \in [Updaters -> PcStates]
    /\ self \in [Updaters -> Paths] /\ goal \in [Updaters -> 0 .. latest] /\ 0 \in Paths
  BY DEF TypeOK, Paths
<1>1. ASSUME NEW t \in Updaters,
             \/ Check(t) \/ TakeGuard(t) \/ GuardHeld(t) \/ FetchFails(t) \/ BackupFails(t)
             \/ InstallFails(t) \/ QueueRestart(t) \/ RestartFails(t) \/ ReportAndReexec(t)
             \/ ReexecFails(t)
      PROVE  ServiceEmptied'
  <2>1. UNCHANGED <<bin, halved, self>>
    BY <1>1 DEF Check, TakeGuard, GuardHeld, FetchFails, BackupFails, InstallFails, QueueRestart,
                RestartFails, ReportAndReexec, ReexecFails, fileVars
  <2>2. \E l \in PcStates : Goto(t, l) /\ (pc[t] \in Window => l \in Window)
    BY <1>1, AfterFailureTyped
       DEF Check, TakeGuard, GuardHeld, FetchFails, BackupFails, InstallFails, QueueRestart,
           RestartFails, ReportAndReexec, ReexecFails, At, Window, PcStates
  <2>3. \A u \in Updaters : pc[u] \in Window => pc'[u] \in Window
    BY <2>2 DEF Goto
  <2>4. QED
    BY <2>1, <2>3, PathStays
<1>2. ASSUME NEW t \in Updaters, Fetched(t) PROVE ServiceEmptied'
  BY <1>2 DEF Fetched, At, Goto, ServiceEmptied, Window, fileVars
<1>3. ASSUME NEW t \in Updaters, RemoveBackup(t) PROVE ServiceEmptied'
  <2>1. bin'[0] = bin[0]
    <3>1. self[t] + 1 # 0
      BY DEF Paths
    <3>2. QED
      BY <1>3, <3>1 DEF RemoveBackup, Put, fileVars
  <2>2. QED
    BY <1>3, <2>1, PathStays DEF RemoveBackup, At, Goto, Window
<1>4. ASSUME NEW t \in Updaters, Backup(t) PROVE ServiceEmptied'
  <2>1. pc'[t] \in Window /\ self' = self /\ halved' = halved
        /\ \A u \in Updaters : pc[u] \in Window => pc'[u] \in Window
    BY <1>4 DEF Backup, Goto, Window
  <2>2. self[t] = 0 \/ bin'[0] = bin[0]
    BY <1>4 DEF Backup, Move, Paths
  <2>3. QED
    BY <2>1, <2>2, PathStays DEF ServiceEmptied
<1>5. ASSUME NEW t \in Updaters, Install(t) \/ Restore(t) PROVE ServiceEmptied'
  <2>1. self' = self /\ halved' = halved /\ \A u \in Updaters : u # t => pc'[u] = pc[u]
    BY <1>5 DEF Install, Restore, Goto
  <2>2. goal[t] # 0
    BY <1>5 DEF Install, Restore, At, Swappers, Guarded
  <2>3. IF self[t] = 0 THEN bin'[0] # 0 ELSE bin'[0] = bin[0]
    BY <1>5, <2>2 DEF Install, Restore, Put, Move, Paths
  <2>4. QED
    BY <2>1, <2>3, PathStays DEF ServiceEmptied
<1>6. ASSUME NEW t \in Updaters, RestoreFails(t) PROVE ServiceEmptied'
  BY <1>6 DEF RestoreFails, ServiceEmptied
\* The flag's process is not between its renames when it begins, and outlives the agent.
<1>7. CASE CheckByHand \/ Report \/ Terminate \/ Publish \/ UNCHANGED vars
  <2>1. UNCHANGED <<bin, halved, self>>
    BY <1>7 DEF CheckByHand, Report, Terminate, Publish, vars, fileVars, taskVars
  <2>2. \A u \in Updaters : pc[u] \in Window => pc'[u] \in Window
    BY <1>7 DEF CheckByHand, Report, Terminate, Publish, vars, taskVars, At, Goto, Window
  <2>3. QED
    BY <2>1, <2>2, PathStays
<1>8. ASSUME NEW t \in Updaters, Boot \/ Reexec(t) PROVE ServiceEmptied'
  BY <1>8 DEF Boot, Reexec, ServiceEmptied, Updaters
<1>9. QED
  BY <1>1, <1>2, <1>3, <1>4, <1>5, <1>6, <1>7, <1>8 DEF Next, Swap, Restart, Exit, Crash, Updaters

-----------------------------------------------------------------------------
LEMMA Inductive == Spec => []IInv
<1>1. IInv /\ [Next]_vars => IInv'
  <2> SUFFICES ASSUME IInv, [Next]_vars PROVE IInv'
    OBVIOUS
  <2>1. TypeOK'
    BY StepType
  <2>2. Locked
    BY LockedIsHonest DEF IInv
  <2>3. Locked'
    BY <2>2, StepLocked DEF IInv
  <2>4. GuardIsHonest' /\ OneSwaps'
    BY <2>1, <2>3, LockedIsHonest, PTL
  <2>5. Swappers'
    BY StepSwappers DEF IInv
  <2>6. AgentKnowsItsFile' /\ ServiceEmptied'
    BY <2>2, StepAgentKnowsItsFile, StepServiceEmptied DEF IInv
  <2>7. JobIsFrank' /\ NoSilentSuccess'
    BY StepJobIsFrank DEF IInv
  <2>8. QED
    BY <2>1, <2>4, <2>5, <2>6, <2>7 DEF IInv
<1>2. QED
  BY InitIInv, <1>1, PTL DEF Spec

\* The types, for any number of releases and attempts: a rename has a file to move and a path to
\* move it to, and the agent and the flag's process run a version that was released.
THEOREM TypeCorrect == Spec => []TypeOK
<1>1. IInv => TypeOK
  BY DEF IInv
<1>2. QED
  BY Inductive, <1>1, PTL

\* Every path out of SelfUpdate resets updateInProgress, and none resets it for somebody else.
THEOREM GuardStaysHonest == Spec => []GuardIsHonest
<1>1. IInv => GuardIsHonest
  BY DEF IInv
<1>2. QED
  BY Inductive, <1>1, PTL

\* The agent's update loop and its self_update job never interleave their renames.
THEOREM SwapsExclusive == Spec => []AgentSwapsAlone
<1>1. IInv => AgentSwapsAlone
  BY DEF IInv, OneSwaps, AgentSwapsAlone, Swapping, Guarded, Updaters, ProcessOf
<1>2. QED
  BY Inductive, <1>1, PTL

\* The service's path holds a binary, through failed downloads, renames and restarts, unless the
\* updater that swaps it is between its renames, the process ended there, or the rename that
\* restores failed; and while nobody runs `ekilied --update` whoever is between its renames has a
\* backup to restore, for it is the file that the agent runs; for any number of each.
THEOREM ServiceHasBinary == Spec => []ServiceKeepsBinary
<1>1. IInv => ServiceKeepsBinary
  <2> SUFFICES ASSUME IInv, ~byHand, NEW t \in Updaters, pc[t] \in Window
               PROVE  bin[self[t] + 1] # 0
    BY DEF IInv, ServiceEmptied, ServiceKeepsBinary
  <2>1. Locked
    BY LockedIsHonest DEF IInv
  <2>2. pc[t] \in Guarded
    BY DEF Window, Guarded
  <2>3. t \in AgentUpdaters /\ bin[exe["agent"]] = ver["agent"] /\ ver["agent"] # 0
    BY <2>1, <2>2, SwapsAlone DEF IInv
  <2>4. exe["agent"] = self[t] + 1
    BY <2>3 DEF IInv, AgentKnowsItsFile
  <2>5. QED
    BY <2>3, <2>4
<1>2. QED
  BY Inductive, <1>1, PTL

\* No swap of the agent replaces a file by an older one, whichever releases appear meanwhile: the
\* file an updater moves is the one the agent runs, and its release is newer than that.
THEOREM NeverDowngrades == Spec => []NoDowngrade
<1>1. IInv => NoDowngrade
  <2> SUFFICES ASSUME IInv, ~byHand, NEW t \in Updaters, At(t, "install")
               PROVE  goal[t] > bin[self[t] + 1]
    BY DEF NoDowngrade
  <2>1. Locked
    BY LockedIsHonest DEF IInv
  <2>2. pc[t] \in Guarded
    BY DEF At, Guarded
  <2>3. t \in AgentUpdaters /\ bin[exe["agent"]] = ver["agent"] /\ goal[t] > ver["agent"]
    BY <2>1, <2>2, SwapsAlone DEF IInv
  <2>4. exe["agent"] = self[t] + 1
    BY <2>3 DEF IInv, AgentKnowsItsFile, At, Window
  <2>5. QED
    BY <2>3, <2>4
<1>2. QED
  BY Inductive, <1>1, PTL

\* Under systemd a job whose restart could not be queued never reports success.
THEOREM FailuresAreReported == Spec => []NoSilentSuccess
<1>1. IInv => NoSilentSuccess
  BY DEF IInv
<1>2. QED
  BY Inductive, <1>1, PTL
==============================================================================
