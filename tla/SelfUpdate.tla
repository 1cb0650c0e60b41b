----------------------------- MODULE SelfUpdate ------------------------------
(***************************************************************************)
(* Self-update and restart (self_update.go, restart.go, reexec_unix.go in  *)
(* internals/jobengine; updateCheckLoop in internals/agent/agent.go; the   *)
(* --update flag in cmd/ekilied/main.go).                                  *)
(*                                                                         *)
(* Three updaters swap the binary: the agent's update loop and its         *)
(* self_update job, which share updateInProgress, and the process that     *)
(* `ekilied --update` starts, which has an updateInProgress of its own.    *)
(*                                                                         *)
(* Path n is the service's path with n times ".bak" appended. The running  *)
(* file of a process is a file, not a path: a rename moves it. On Linux    *)
(* os.Executable reads the /proc/self/exe link at each call, so it answers *)
(* with the path the file has then.                                        *)
(***************************************************************************)
EXTENDS Naturals, FiniteSets

CONSTANTS
    MaxVersion,  \* bound: releases
    MaxPath,     \* bound: ".bak" suffixes
    MaxEvents    \* bound: self_update jobs, runs of ekilied --update, failures (of a download,
                 \*   a rename, a restart, a report) and crashes, together

ASSUME UpdateAssumption ==
    MaxVersion \in Nat \ {0} /\ MaxPath \in Nat \ {0} /\ MaxEvents \in Nat

VARIABLES
    systemd,    \* the outcome of detectSystemd: the same at every call
    latest,     \* the newest release
    bin,        \* version of the file at each path, 0 where there is none
    exe,        \* path of each process's running file, its last one if it was deleted
    linked,     \* whether that file still has a path
    ver,        \* version each process runs
    up,         \* the agent runs
    guard,      \* updateInProgress of each process
    pc,         \* control state of each updater
    goal, self, \* the release an updater installs, the path it took for its own
    stopping,   \* the agent has got SIGTERM
    queuer,     \* the updater whose restart systemd has queued or is carrying out
    reported,   \* results the control plane has got for the current job
    \* history
    unrestarted,  \* the current job's restart could not be queued or tried
    halved,       \* a swap was left half done: the agent ended between the two renames, or
                  \*   the rename that restores failed
    byHand,       \* somebody has run ekilied --update
    events

fileVars == <<bin, exe, linked>>
procVars == <<ver, up, stopping, queuer>>
taskVars == <<guard, pc, goal, self>>
jobVars == <<reported, unrestarted>>
bounds == <<systemd, latest, byHand>>
vars == <<fileVars, procVars, taskVars, jobVars, bounds, halved, events>>

Updaters == {"loop", "job", "cli"}
Processes == {"agent", "cli"}
ProcessOf(t) == IF t = "cli" THEN "cli" ELSE "agent"
Paths == 0 .. MaxPath
None == "none"

PcStates == {"idle", "guard", "fetch", "remove", "backup", "install", "restore",
             "swapped", "reexec", "success", "failure", "ended"}
Guarded == {"fetch", "remove", "backup", "install", "restore"}
Swapping == {"remove", "backup", "install", "restore"}
Window == {"install", "restore"}

At(t, l) == pc[t] = l
Goto(t, l) == pc' = [pc EXCEPT ![t] = l]
Unguard(t) == guard' = [guard EXCEPT ![ProcessOf(t)] = FALSE]
Event == events < MaxEvents /\ events' = events + 1

\* Where an updater goes when its attempt has failed: the loop waits for the next tick, the job
\* reports, the flag's process exits.
AfterFailure(t) == IF t = "job" THEN "failure" ELSE "idle"

Init ==
    /\ systemd \in BOOLEAN /\ latest = 1
    /\ bin = [p \in Paths |-> IF p = 0 THEN 1 ELSE 0]
    /\ exe = [p \in Processes |-> 0] /\ linked = [p \in Processes |-> TRUE]
    /\ ver = [p \in Processes |-> 1] /\ up = TRUE
    /\ guard = [p \in Processes |-> FALSE]
    /\ pc = [t \in Updaters |-> "idle"]
    /\ goal = [t \in Updaters |-> 0] /\ self = [t \in Updaters |-> 0]
    /\ stopping = FALSE /\ queuer = None
    /\ reported = {} /\ unrestarted = FALSE /\ halved = FALSE
    /\ byHand = FALSE /\ events = 0

-----------------------------------------------------------------------------
(* The file system. *)

\* rename: a file that was at the target loses its path.
Move(from, to) ==
    /\ bin' = [bin EXCEPT ![to] = bin[from], ![from] = 0]
    /\ linked' = [p \in Processes |-> linked[p] /\ exe[p] # to]
    /\ exe' = [p \in Processes |-> IF linked[p] /\ exe[p] = from THEN to ELSE exe[p]]

\* A file is deleted (version 0) or one from elsewhere replaces it.
Put(path, v) ==
    /\ bin' = [bin EXCEPT ![path] = v]
    /\ linked' = [p \in Processes |-> linked[p] /\ exe[p] # path]
    /\ UNCHANGED exe

-----------------------------------------------------------------------------
(* Variants with one plausible bug each, used to show that the properties can fail. *)

\* The guard is set and not looked at.
TakeUnguarded(t) ==
    /\ At(t, "guard")
    /\ guard' = [guard EXCEPT ![ProcessOf(t)] = TRUE]
    /\ Goto(t, "fetch")
    /\ UNCHANGED <<fileVars, procVars, goal, self, jobVars, bounds, halved, events>>

\* A failed download returns without resetting the guard.
FetchFailsGuarded(t) ==
    /\ At(t, "fetch") /\ Event
    /\ Goto(t, AfterFailure(t))
    /\ UNCHANGED <<fileVars, procVars, guard, goal, self, jobVars, bounds, halved>>

\* The path of the binary is a constant.
FetchedFixedPath(t) ==
    /\ At(t, "fetch") /\ Goto(t, "remove")
    /\ self' = [self EXCEPT ![t] = 0]
    /\ UNCHANGED <<fileVars, procVars, guard, goal, jobVars, bounds, halved, events>>

\* A failed second rename returns without the restore.
InstallFailsUnrestored(t) ==
    /\ At(t, "install") /\ Event
    /\ Unguard(t) /\ Goto(t, AfterFailure(t))
    /\ UNCHANGED <<fileVars, procVars, goal, self, jobVars, bounds, halved>>

\* The error of RestartAgent is logged, and the job goes on to report success.
RestartFailsSilently(t) ==
    /\ At(t, "swapped") /\ systemd
    /\ IF stopping THEN UNCHANGED events ELSE Event
    /\ unrestarted' = (unrestarted \/ t = "job")
    /\ Goto(t, IF t = "job" THEN "success" ELSE "idle")
    /\ UNCHANGED <<fileVars, procVars, guard, goal, self, reported, bounds, halved>>

\* checkAndUpdate reports that a restart is on its way although it failed: the loop ends.
RestartFailsFinally(t) ==
    /\ At(t, "swapped") /\ systemd
    /\ IF stopping THEN UNCHANGED events ELSE Event
    /\ unrestarted' = (unrestarted \/ t = "job")
    /\ Goto(t, IF t = "job" THEN "failure" ELSE "ended")
    /\ UNCHANGED <<fileVars, procVars, guard, goal, self, reported, bounds, halved>>

\* The agent is taken to run although there is no file to start.
StartUnversioned ==
    /\ up' = TRUE /\ ver' = [ver EXCEPT !["agent"] = bin[0]]

-----------------------------------------------------------------------------
(* CheckForUpdate: only a release newer than the running version counts. *)

Check(t) ==
    /\ At(t, "idle") /\ t # "cli" /\ up /\ ~stopping /\ latest > ver["agent"]
    /\ IF t = "job"
         THEN Event /\ reported' = {} /\ unrestarted' = FALSE
         ELSE UNCHANGED <<jobVars, events>>
    /\ goal' = [goal EXCEPT ![t] = latest] /\ Goto(t, "guard")
    /\ UNCHANGED <<fileVars, procVars, guard, self, bounds, halved>>

\* ekilied --update: a new process runs the file at the service's path.
CheckByHand ==
    /\ At("cli", "idle") /\ Event /\ byHand' = TRUE
    /\ bin[0] # 0 /\ latest > bin[0]
    /\ exe' = [exe EXCEPT !["cli"] = 0] /\ linked' = [linked EXCEPT !["cli"] = TRUE]
    /\ ver' = [ver EXCEPT !["cli"] = bin[0]]
    /\ goal' = [goal EXCEPT !["cli"] = latest] /\ Goto("cli", "guard")
    /\ UNCHANGED <<bin, up, stopping, queuer, guard, self, jobVars, systemd, latest, halved>>

-----------------------------------------------------------------------------
(* SelfUpdate. *)

TakeGuard(t) ==
    /\ At(t, "guard") /\ ~guard[ProcessOf(t)]
    /\ guard' = [guard EXCEPT ![ProcessOf(t)] = TRUE]
    /\ Goto(t, "fetch")
    /\ UNCHANGED <<fileVars, procVars, goal, self, jobVars, bounds, halved, events>>

\* ErrUpdateInProgress.
GuardHeld(t) ==
    /\ At(t, "guard") /\ guard[ProcessOf(t)]
    /\ Goto(t, AfterFailure(t))
    /\ UNCHANGED <<fileVars, procVars, guard, goal, self, jobVars, bounds, halved, events>>

\* No asset, a failed download, a wrong checksum, a binary that does not run.
FetchFails(t) ==
    /\ At(t, "fetch") /\ Event
    /\ Unguard(t) /\ Goto(t, AfterFailure(t))
    /\ UNCHANGED <<fileVars, procVars, goal, self, jobVars, bounds, halved>>

\* The new binary is ready; os.Executable gives the path to replace.
Fetched(t) ==
    /\ At(t, "fetch") /\ exe[ProcessOf(t)] < MaxPath
    /\ self' = [self EXCEPT ![t] = exe[ProcessOf(t)]]
    /\ Goto(t, "remove")
    /\ UNCHANGED <<fileVars, procVars, guard, goal, jobVars, bounds, halved, events>>

\* The error of the removal is ignored: the rename after it replaces what is there.
RemoveBackup(t) ==
    /\ At(t, "remove") /\ Goto(t, "backup")
    /\ \/ Put(self[t] + 1, 0) /\ UNCHANGED events
       \/ Event /\ UNCHANGED fileVars
    /\ UNCHANGED <<procVars, guard, goal, self, jobVars, bounds, halved>>

Backup(t) ==
    /\ At(t, "backup") /\ bin[self[t]] # 0
    /\ Move(self[t], self[t] + 1)
    /\ Goto(t, "install")
    /\ UNCHANGED <<procVars, guard, goal, self, jobVars, bounds, halved, events>>

\* There is nothing to rename, or the rename is refused.
BackupFails(t) ==
    /\ At(t, "backup")
    /\ IF bin[self[t]] = 0 THEN UNCHANGED events ELSE Event
    /\ Unguard(t) /\ Goto(t, AfterFailure(t))
    /\ UNCHANGED <<fileVars, procVars, goal, self, jobVars, bounds, halved>>

Install(t) ==
    /\ At(t, "install")
    /\ Put(self[t], goal[t])
    /\ Unguard(t) /\ Goto(t, IF t = "cli" THEN "idle" ELSE "swapped")
    /\ UNCHANGED <<procVars, goal, self, jobVars, bounds, halved, events>>

InstallFails(t) ==
    /\ At(t, "install") /\ Event
    /\ Goto(t, "restore")
    /\ UNCHANGED <<fileVars, procVars, guard, goal, self, jobVars, bounds, halved>>

Restore(t) ==
    /\ At(t, "restore") /\ bin[self[t] + 1] # 0
    /\ Move(self[t] + 1, self[t])
    /\ Unguard(t) /\ Goto(t, AfterFailure(t))
    /\ UNCHANGED <<procVars, goal, self, jobVars, bounds, halved, events>>

\* The error of the rename that restores is ignored, whatever it is: the backup is gone, or what
\* made the installation fail, such as a full or read-only disk, is still there.
RestoreFails(t) ==
    /\ At(t, "restore")
    /\ IF bin[self[t] + 1] = 0 THEN UNCHANGED events ELSE Event
    /\ halved' = TRUE
    /\ Unguard(t) /\ Goto(t, AfterFailure(t))
    /\ UNCHANGED <<fileVars, procVars, goal, self, jobVars, bounds>>

-----------------------------------------------------------------------------
(* RestartAgent and finishSelfUpdate. *)

\* Under systemd the restart is queued first, and the job reports afterwards.
QueueRestart(t) ==
    /\ At(t, "swapped") /\ systemd /\ ~stopping
    /\ queuer' = IF queuer = None THEN t ELSE queuer
    /\ Goto(t, IF t = "job" THEN "success" ELSE "ended")
    /\ UNCHANGED <<fileVars, ver, up, stopping, guard, goal, self, jobVars, bounds, halved, events>>

\* systemctl fails, as it does when the context it runs in is cancelled.
RestartFails(t) ==
    /\ At(t, "swapped") /\ systemd
    /\ IF stopping THEN UNCHANGED events ELSE Event
    /\ unrestarted' = (unrestarted \/ t = "job")
    /\ Goto(t, AfterFailure(t))
    /\ UNCHANGED <<fileVars, procVars, guard, goal, self, reported, bounds, halved>>

\* Without systemd the job reports success before it tries.
ReportAndReexec(t) ==
    /\ At(t, "swapped") /\ ~systemd /\ Goto(t, "reexec")
    /\ \/ /\ reported' = IF t = "job" THEN reported \cup {"success"} ELSE reported
          /\ UNCHANGED events
       \/ t = "job" /\ Event /\ UNCHANGED reported
    /\ UNCHANGED <<fileVars, procVars, guard, goal, self, unrestarted, bounds, halved>>

\* The process image is replaced by the file at the path os.Executable gives.
Reexec(t) ==
    /\ At(t, "reexec") /\ bin[exe["agent"]] # 0
    /\ ver' = [ver EXCEPT !["agent"] = bin[exe["agent"]]]
    /\ linked' = [linked EXCEPT !["agent"] = TRUE]
    /\ guard' = [guard EXCEPT !["agent"] = FALSE]
    /\ halved' = (halved \/ \E u \in {"loop", "job"} : pc[u] \in Window)
    /\ pc' = [pc EXCEPT !["loop"] = "idle", !["job"] = "idle"]
    /\ UNCHANGED <<bin, exe, up, stopping, queuer, goal, self, jobVars, bounds, events>>

ReexecFails(t) ==
    /\ At(t, "reexec")
    /\ IF bin[exe["agent"]] = 0 THEN UNCHANGED events ELSE Event
    /\ unrestarted' = (unrestarted \/ t = "job")
    /\ Goto(t, AfterFailure(t))
    /\ UNCHANGED <<fileVars, procVars, guard, goal, self, reported, bounds, halved>>

\* CompleteJob: lost when the agent is stopping, and by a fault.
Report ==
    /\ pc["job"] \in {"success", "failure"} /\ Goto("job", "idle")
    /\ \/ ~stopping /\ reported' = reported \cup {pc["job"]} /\ UNCHANGED events
       \/ stopping /\ UNCHANGED <<reported, events>>
       \/ Event /\ UNCHANGED reported
    /\ UNCHANGED <<fileVars, procVars, guard, goal, self, unrestarted, bounds, halved>>

-----------------------------------------------------------------------------
(* The agent's process. *)

\* systemd carries out the queued restart: SIGTERM first.
Terminate ==
    /\ queuer # None /\ ~stopping /\ stopping' = TRUE
    /\ UNCHANGED <<fileVars, ver, up, queuer, taskVars, jobVars, bounds, halved, events>>

\* The service manager runs the file at the service's path, if there is one.
Start ==
    /\ up' = (bin[0] # 0)
    /\ ver' = [ver EXCEPT !["agent"] = IF bin[0] # 0 THEN bin[0] ELSE @]

\* The agent's process is gone: its updaters with it.
Boot ==
    /\ Start
    /\ exe' = [exe EXCEPT !["agent"] = 0] /\ linked' = [linked EXCEPT !["agent"] = bin[0] # 0]
    /\ guard' = [guard EXCEPT !["agent"] = FALSE]
    /\ halved' = (halved \/ \E u \in {"loop", "job"} : pc[u] \in Window)
    /\ pc' = [pc EXCEPT !["loop"] = "idle", !["job"] = "idle"]
    /\ stopping' = FALSE /\ queuer' = None
    /\ UNCHANGED <<bin, goal, self, jobVars, bounds>>

\* Stop waits for the update loop, not for a job.
Exit ==
    /\ up /\ stopping /\ pc["loop"] \in {"idle", "ended"}
    /\ Boot /\ UNCHANGED events

\* A crash, or systemd's SIGKILL after its stop timeout.
Crash ==
    /\ up /\ Event /\ Boot

\* A new release appears on GitHub.
Publish ==
    /\ latest < MaxVersion /\ latest' = latest + 1
    /\ UNCHANGED <<fileVars, procVars, taskVars, jobVars, systemd, byHand, halved, events>>

-----------------------------------------------------------------------------
Swap(t) ==
    \/ TakeGuard(t) \/ GuardHeld(t) \/ FetchFails(t) \/ Fetched(t)
    \/ RemoveBackup(t) \/ Backup(t) \/ BackupFails(t)
    \/ Install(t) \/ InstallFails(t) \/ Restore(t) \/ RestoreFails(t)

Restart(t) ==
    \/ QueueRestart(t) \/ RestartFails(t)
    \/ ReportAndReexec(t) \/ Reexec(t) \/ ReexecFails(t)

Next ==
    \/ \E t \in Updaters : Check(t) \/ Swap(t) \/ Restart(t)
    \/ CheckByHand \/ Report
    \/ Terminate \/ Exit \/ Crash \/ Publish

Spec == Init /\ [][Next]_vars

\* The loop's ticker ticks, what has begun goes on, and systemd carries out what it queued.
\* Nothing makes a release appear or a job arrive.
LiveSpec ==
    /\ Spec
    /\ WF_vars(Check("loop"))
    /\ \A t \in Updaters : WF_vars(Swap(t) \/ Restart(t))
    /\ WF_vars(Report) /\ WF_vars(Terminate) /\ WF_vars(Exit)

-----------------------------------------------------------------------------
(* Properties. *)

TypeOK ==
    /\ systemd \in BOOLEAN /\ latest \in 1 .. MaxVersion /\ bin \in [Paths -> 0 .. latest]
    /\ exe \in [Processes -> Paths] /\ linked \in [Processes -> BOOLEAN]
    /\ ver \in [Processes -> 1 .. latest] /\ up \in BOOLEAN
    /\ guard \in [Processes -> BOOLEAN] /\ pc \in [Updaters -> PcStates]
    /\ goal \in [Updaters -> 0 .. latest] /\ self \in [Updaters -> Paths]
    /\ stopping \in BOOLEAN /\ queuer \in Updaters \cup {None}
    /\ reported \subseteq {"success", "failure"} /\ unrestarted \in BOOLEAN /\ halved \in BOOLEAN
    /\ byHand \in BOOLEAN /\ events \in 0 .. MaxEvents

\* updateInProgress is set exactly while an updater of the process is between the test and its
\* return, on every path: a guard left set would end self-update until a restart.
GuardIsHonest ==
    \A p \in Processes :
        guard[p] <=> \E t \in Updaters : ProcessOf(t) = p /\ pc[t] \in Guarded

\* The loop and the job never interleave their swaps. (README adds the manual flag, which is
\* another process with a guard of its own: it can.)
AgentSwapsAlone == ~(pc["loop"] \in Swapping /\ pc["job"] \in Swapping)

\* Downloads, renames and restarts fail, the agent crashes and `ekilied --update` runs, in any
\* order, and the service's path still holds a binary, unless an updater that swaps it is between
\* its two renames or a swap was left half done: the process ended there, or the rename that
\* restores failed too, whose error nobody looks at. And that one has a backup to restore, as long
\* as nobody runs `ekilied --update`, which may delete the agent's: the guard is a variable of the
\* process.
ServiceKeepsBinary ==
    /\ bin[0] = 0 => halved \/ \E t \in Updaters : pc[t] \in Window /\ self[t] = 0
    /\ ~byHand => \A t \in Updaters : pc[t] \in Window => bin[self[t] + 1] # 0

\* An update replaces a file by a newer one. An updater may hold an outdated release, for it was
\* chosen before the guard was taken, and another may have been installed since. What saves the
\* newer binary is that the agent's second swap is one of the backup, where its own file has
\* gone: the service's path is left alone. (`ekilied --update` can undo that.)
NoDowngrade ==
    ~byHand => \A t \in Updaters : At(t, "install") => goal[t] > bin[self[t] + 1]

\* README: "A failed restart is reported as a failed job instead of a silent success". Holds
\* under systemd (without it the success is reported before the restart is tried).
NoSilentSuccess == systemd /\ unrestarted => "success" \notin reported

\* Releases reach the running agent: with releases, failures and jobs bounded it ends up running
\* the newest one, unless a swap left half done keeps it from starting. Holds under systemd
\* (without it, see ReexecRunsNewBinary), and is stated without the manual flag.
UpdatesArrive == <>[](systemd /\ ~byHand /\ up => ver["agent"] = latest)

\* README: "Outside systemd the agent re-executes the new binary in place": the file that is
\* about to be executed is the release just installed.
ReexecRunsNewBinary ==
    \A t \in {"loop", "job"} : At(t, "reexec") => bin[exe["agent"]] = goal[t]
==============================================================================
