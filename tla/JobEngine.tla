------------------------------ MODULE JobEngine ------------------------------
(***************************************************************************)
(* The job engine of the agent (internals/jobengine/jobengine.go) between  *)
(* the two channels that hand it work (the WebSocket dispatcher and the    *)
(* HTTP poll loop of internals/agent) and the control plane that owns the  *)
(* jobs.                                                                   *)
(*                                                                         *)
(* A task is one goroutine running HandleJobTrigger or HandleJobTriggerFull*)
(* (the two differ only in where the action and the parameters come from). *)
(* Its pc names the next shared-state access of the code:                  *)
(*                                                                         *)
(*   idle -> mark -> claim -> dedup -> slot -> work [-> script] -> report  *)
(*        -> unslot -> inactivate -> unmark -> idle                        *)
(*                                                                         *)
(* The control plane is external: it is modelled from what the agent's     *)
(* requests assume of it (an atomic claim, 409 for a job that is not       *)
(* pending, a poll that lists the pending jobs).                           *)
(***************************************************************************)
EXTENDS Integers, FiniteSets

CONSTANTS
    Jobs,           \* job identifiers
    Tasks,          \* goroutines of the agent; an idle one stands for one not started
    Sites,          \* site names
    SiteOf,         \* the site whose deploy lock a job takes (deploy, site_sync)
    NoSite,         \* SiteOf of a job whose action takes no deploy lock
    NoJob,          \* the job of an idle task
    MaxConcurrent,  \* capacity of the semaphore
    MaxTriggers,    \* bound: job messages the WebSocket delivers
    MaxRequeues,    \* bound: times the control plane offers a job again
    MaxStops,       \* bound: SIGTERMs and crashes of the process
    MaxFaulted      \* bound: jobs that lose messages while the process is up

ASSUME JobsAssumption == NoJob \notin Jobs
ASSUME TasksAssumption == IsFiniteSet(Tasks)
ASSUME SitesAssumption == NoSite \notin Sites /\ SiteOf \in [Jobs -> Sites \cup {NoSite}]
ASSUME BoundsAssumption ==
    /\ MaxConcurrent \in Nat \ {0}
    /\ MaxTriggers \in Nat /\ MaxRequeues \in Nat /\ MaxStops \in Nat
    /\ MaxFaulted \in Nat

VARIABLES
    \* control plane
    cp,          \* state of every job
    late,        \* jobs with a claim request whose sender has given up on it
    \* agent process
    dispatched,  \* JobEngine.dispatched
    active,      \* JobEngine.active
    slots,       \* len(JobEngine.semaphore)
    siteLock,    \* keys of DeployLock.active
    polled,      \* jobs of the poll answer the loop has not looked at yet
    cancelled,   \* the root context is done
    pc, job,     \* control state and job of every task
    \* history
    credit,      \* offers of a job nobody has started to work on
    faulted,     \* jobs a lost message or the end of the process has hit
    triggers, requeues, stops

cpVars == <<cp, late, requeues>>
engineVars == <<dispatched, active, slots, siteLock>>
procVars == <<polled, cancelled, stops, triggers>>
vars == <<cpVars, engineVars, procVars, pc, job, credit, faulted>>

PcStates == {"idle", "mark", "claim", "dedup", "slot", "work", "script",
             "report", "unslot", "inactivate", "unmark"}

\* The pc's at which a task holds the dispatched mark, the active entry, a slot.
Marked == {"claim", "dedup", "slot", "work", "script", "report", "unslot",
           "inactivate", "unmark"}
Activated == {"slot", "work", "script", "report", "unslot", "inactivate"}
Slotted == {"work", "script", "report", "unslot"}
InAction == {"work", "script"}
\* From the granted claim to the report: the agent owes the job an answer.
Owing == {"dedup", "slot", "work", "script", "report"}

At(t, l) == pc[t] = l
Goto(t, l) == pc' = [pc EXCEPT ![t] = l] /\ job' = job
Retire(t) == pc' = [pc EXCEPT ![t] = "idle"] /\ job' = [job EXCEPT ![t] = NoJob]
MayFail(j) == cancelled \/ j \in faulted \/ Cardinality(faulted) < MaxFaulted
HitBy(j) == faulted' = faulted \cup {j}

Init ==
    /\ cp = [j \in Jobs |-> "pending"] /\ late = {}
    /\ dispatched = {} /\ active = {} /\ slots = 0 /\ siteLock = {}
    /\ polled = {} /\ cancelled = FALSE
    /\ pc = [t \in Tasks |-> "idle"] /\ job = [t \in Tasks |-> NoJob]
    /\ credit = [j \in Jobs |-> 1] /\ faulted = {}
    /\ triggers = 0 /\ requeues = 0 /\ stops = 0

-----------------------------------------------------------------------------
(* Variants of the actions below, each with one plausible bug. They are part of no           *)
(* specification: they show that the properties can fail.                                    *)

\* Store without looking at what LoadOrStore found.
MarkUnchecked(t) ==
    /\ At(t, "mark")
    /\ dispatched' = dispatched \cup {job[t]}
    /\ Goto(t, "claim")
    /\ UNCHANGED <<cpVars, active, slots, siteLock, procVars, credit, faulted>>

\* A return without clearDispatched.
ConflictKeepsMark(t) ==
    /\ At(t, "claim") /\ ~cancelled /\ cp[job[t]] # "pending"
    /\ Retire(t)
    /\ UNCHANGED <<cpVars, engineVars, procVars, credit, faulted>>

\* A 409 is treated like a grant.
ConflictIgnored(t) ==
    /\ At(t, "claim") /\ ~cancelled /\ cp[job[t]] # "pending"
    /\ Goto(t, "dedup")
    /\ UNCHANGED <<cpVars, engineVars, procVars, credit, faulted>>

\* Execution does not wait for the outcome of the claim.
ExecuteAnyway(t) ==
    /\ At(t, "claim") /\ MayFail(job[t])
    /\ late' = late \cup {job[t]} /\ HitBy(job[t])
    /\ Goto(t, "dedup")
    /\ UNCHANGED <<cp, requeues, engineVars, procVars, credit>>

FailureKeepsMark(t) ==
    /\ At(t, "claim") /\ MayFail(job[t])
    /\ late' = late \cup {job[t]} /\ HitBy(job[t])
    /\ Retire(t)
    /\ UNCHANGED <<cp, requeues, engineVars, procVars, credit>>

\* The deferred release is registered before the slot is acquired.
ReleaseOnCancel(t) ==
    /\ At(t, "slot") /\ cancelled
    /\ HitBy(job[t]) /\ slots' = slots - 1
    /\ Goto(t, "inactivate")
    /\ UNCHANGED <<cpVars, dispatched, active, siteLock, procVars, credit>>

TakeUnchecked(t) ==
    /\ At(t, "work") /\ SiteOf[job[t]] # NoSite
    /\ siteLock' = siteLock \cup {SiteOf[job[t]]}
    /\ Goto(t, "script")
    /\ UNCHANGED <<cpVars, dispatched, active, slots, procVars, credit, faulted>>

\* The panic is recovered and swallowed.
PanicUnreported(t) ==
    /\ pc[t] \in InAction
    /\ siteLock' = IF At(t, "script") THEN siteLock \ {SiteOf[job[t]]} ELSE siteLock
    /\ Goto(t, "unslot")
    /\ UNCHANGED <<cpVars, dispatched, active, slots, procVars, credit, faulted>>

\* The mark goes before the active entry.
ReleaseAndClear(t) ==
    /\ At(t, "unslot")
    /\ slots' = slots - 1 /\ dispatched' = dispatched \ {job[t]}
    /\ pc' = [pc EXCEPT ![t] = "inactivate"] /\ job' = job
    /\ UNCHANGED <<cpVars, active, siteLock, procVars, credit, faulted>>

SlotKept(t) ==
    /\ At(t, "unslot")
    /\ Goto(t, "inactivate")
    /\ UNCHANGED <<cpVars, engineVars, procVars, credit, faulted>>

-----------------------------------------------------------------------------
(* Control plane. *)

\* A job accepted by this agent and not answered in time is offered again.
Requeue(j) ==
    /\ cp[j] = "accepted" /\ requeues < MaxRequeues
    /\ cp' = [cp EXCEPT ![j] = "pending"]
    /\ requeues' = requeues + 1
    /\ credit' = [credit EXCEPT ![j] = @ + 1]
    /\ UNCHANGED <<late, engineVars, procVars, pc, job, faulted>>

\* Another worker wins the claim.
OtherWorkerClaims(j) ==
    /\ cp[j] = "pending"
    /\ cp' = [cp EXCEPT ![j] = "elsewhere"]
    /\ credit' = [credit EXCEPT ![j] = @ - 1]
    /\ UNCHANGED <<late, requeues, engineVars, procVars, pc, job, faulted>>

\* A claim the agent has stopped waiting for reaches the control plane after all.
LateClaimArrives(j) ==
    /\ j \in late /\ late' = late \ {j}
    /\ cp' = IF cp[j] = "pending" THEN [cp EXCEPT ![j] = "accepted"] ELSE cp
    /\ UNCHANGED <<requeues, engineVars, procVars, pc, job, credit, faulted>>

LateClaimDropped(j) ==
    /\ j \in late /\ late' = late \ {j}
    /\ UNCHANGED <<cp, requeues, engineVars, procVars, pc, job, credit, faulted>>

-----------------------------------------------------------------------------
(* The two channels: each hit starts a goroutine. *)

Spawn(t, j) ==
    /\ At(t, "idle")
    /\ pc' = [pc EXCEPT ![t] = "mark"] /\ job' = [job EXCEPT ![t] = j]

\* A "job" or "job_full" message: possibly late, possibly a duplicate.
WSTrigger(t, j) ==
    /\ triggers < MaxTriggers /\ triggers' = triggers + 1
    /\ Spawn(t, j)
    /\ UNCHANGED <<cpVars, engineVars, polled, cancelled, stops, credit, faulted>>

PollFetch ==
    /\ polled = {} /\ ~cancelled
    /\ polled' = {j \in Jobs : cp[j] = "pending"} /\ polled' # {}
    /\ UNCHANGED <<cpVars, engineVars, cancelled, stops, triggers, pc, job, credit, faulted>>

\* With nothing to do the loop keeps getting empty answers: the only way the agent rests.
PollEmpty ==
    /\ ~cancelled /\ \A t \in Tasks : At(t, "idle")
    /\ {j \in Jobs : cp[j] = "pending"} = {} /\ polled = {}
    /\ UNCHANGED vars

PollSkip(j) ==
    /\ j \in polled /\ j \in dispatched
    /\ polled' = polled \ {j}
    /\ UNCHANGED <<cpVars, engineVars, cancelled, stops, triggers, pc, job, credit, faulted>>

PollSpawn(t, j) ==
    /\ j \in polled /\ j \notin dispatched
    /\ polled' = polled \ {j}
    /\ Spawn(t, j)
    /\ UNCHANGED <<cpVars, engineVars, cancelled, stops, triggers, credit, faulted>>

-----------------------------------------------------------------------------
(* HandleJobTrigger, HandleJobTriggerFull. *)

MarkDispatched(t) ==
    /\ At(t, "mark") /\ job[t] \notin dispatched
    /\ dispatched' = dispatched \cup {job[t]}
    /\ Goto(t, "claim")
    /\ UNCHANGED <<cpVars, active, slots, siteLock, procVars, credit, faulted>>

SkipDuplicate(t) ==
    /\ At(t, "mark") /\ job[t] \in dispatched
    /\ Retire(t)
    /\ UNCHANGED <<cpVars, engineVars, procVars, credit, faulted>>

\* The answer is taken to be about the job that was claimed: HandleJobTrigger executes under the id
\* in the answer, HandleJobTriggerFull under its own.
ClaimGranted(t) ==
    /\ At(t, "claim") /\ ~cancelled /\ cp[job[t]] = "pending"
    /\ cp' = [cp EXCEPT ![job[t]] = "accepted"]
    /\ Goto(t, "dedup")
    /\ UNCHANGED <<late, requeues, engineVars, procVars, credit, faulted>>

\* 409: somebody else has it, or it is finished.
ClaimConflict(t) ==
    /\ At(t, "claim") /\ ~cancelled /\ cp[job[t]] # "pending"
    /\ Goto(t, "unmark")
    /\ UNCHANGED <<cpVars, engineVars, procVars, credit, faulted>>

\* claimTimeout, a cancelled context, a transport error or an unreadable answer: the agent
\* does not know whether the control plane got, or will get, the request.
ClaimFails(t) ==
    /\ At(t, "claim") /\ MayFail(job[t])
    /\ late' = late \cup {job[t]} /\ HitBy(job[t])
    /\ Goto(t, "unmark")
    /\ UNCHANGED <<cp, requeues, engineVars, procVars, credit>>

-----------------------------------------------------------------------------
(* Execute. *)

\* LoadOrStore on active; the duplicate branch returns before any defer is registered.
Dedup(t) ==
    /\ At(t, "dedup")
    /\ active' = active \cup {job[t]}
    /\ IF job[t] \in active THEN Retire(t) ELSE Goto(t, "slot")
    /\ UNCHANGED <<cpVars, dispatched, slots, siteLock, procVars, credit, faulted>>

AcquireSlot(t) ==
    /\ At(t, "slot") /\ slots < MaxConcurrent
    /\ slots' = slots + 1
    /\ credit' = [credit EXCEPT ![job[t]] = @ - 1]
    /\ Goto(t, "work")
    /\ UNCHANGED <<cpVars, dispatched, active, siteLock, procVars, faulted>>

\* ctx.Done() wins the select: no report is sent for the claimed job.
CancelWait(t) ==
    /\ At(t, "slot") /\ cancelled
    /\ HitBy(job[t])
    /\ Goto(t, "inactivate")
    /\ UNCHANGED <<cpVars, engineVars, procVars, credit>>

\* Parameter validation fails, or an action without a deploy lock returns.
WorkReturns(t) ==
    /\ At(t, "work")
    /\ Goto(t, "report")
    /\ UNCHANGED <<cpVars, engineVars, procVars, credit, faulted>>

TakeSiteLock(t) ==
    /\ At(t, "work") /\ SiteOf[job[t]] \in Sites \ siteLock
    /\ siteLock' = siteLock \cup {SiteOf[job[t]]}
    /\ Goto(t, "script")
    /\ UNCHANGED <<cpVars, dispatched, active, slots, procVars, credit, faulted>>

SiteBusy(t) ==
    /\ At(t, "work") /\ SiteOf[job[t]] \in siteLock
    /\ Goto(t, "report")
    /\ UNCHANGED <<cpVars, engineVars, procVars, credit, faulted>>

\* The locked section ends, by return, error or panic: Release is deferred.
ScriptReturns(t) ==
    /\ At(t, "script")
    /\ siteLock' = siteLock \ {SiteOf[job[t]]}
    /\ Goto(t, "report")
    /\ UNCHANGED <<cpVars, dispatched, active, slots, procVars, credit, faulted>>

\* A panic is recovered and goes on to its own report; the locked section, if any, unwinds.
WorkPanics(t) ==
    /\ pc[t] \in InAction
    /\ siteLock' = IF At(t, "script") THEN siteLock \ {SiteOf[job[t]]} ELSE siteLock
    /\ Goto(t, "report")
    /\ UNCHANGED <<cpVars, dispatched, active, slots, procVars, credit, faulted>>

\* CompleteJob reaches the control plane; lb.Close runs before the slot is given back.
Report(t) ==
    /\ At(t, "report") /\ ~cancelled
    /\ cp' = IF cp[job[t]] = "accepted" THEN [cp EXCEPT ![job[t]] = "closed"] ELSE cp
    /\ Goto(t, "unslot")
    /\ UNCHANGED <<late, requeues, engineVars, procVars, credit, faulted>>

\* CompleteJob fails: logged, never retried.
ReportLost(t) ==
    /\ At(t, "report") /\ MayFail(job[t])
    /\ HitBy(job[t])
    /\ Goto(t, "unslot")
    /\ UNCHANGED <<cpVars, engineVars, procVars, credit>>

ReleaseSlot(t) ==
    /\ At(t, "unslot")
    /\ slots' = slots - 1
    /\ Goto(t, "inactivate")
    /\ UNCHANGED <<cpVars, dispatched, active, siteLock, procVars, credit, faulted>>

DeleteActive(t) ==
    /\ At(t, "inactivate")
    /\ active' = active \ {job[t]}
    /\ Goto(t, "unmark")
    /\ UNCHANGED <<cpVars, dispatched, slots, siteLock, procVars, credit, faulted>>

ClearDispatched(t) ==
    /\ At(t, "unmark")
    /\ dispatched' = dispatched \ {job[t]}
    /\ Retire(t)
    /\ UNCHANGED <<cpVars, active, slots, siteLock, procVars, credit, faulted>>

-----------------------------------------------------------------------------
(* The process. *)

\* SIGTERM: Stop cancels the root context; job goroutines are not waited for.
Stop ==
    /\ ~cancelled /\ stops < MaxStops
    /\ stops' = stops + 1 /\ cancelled' = TRUE
    /\ UNCHANGED <<cpVars, engineVars, polled, triggers, pc, job, credit, faulted>>

\* The process is gone and the service manager starts it again: nothing in memory survives.
Reboot ==
    /\ dispatched' = {} /\ active' = {} /\ slots' = 0 /\ siteLock' = {}
    /\ polled' = {} /\ cancelled' = FALSE
    /\ pc' = [t \in Tasks |-> "idle"] /\ job' = [t \in Tasks |-> NoJob]
    /\ faulted' = faulted \cup {job[t] : t \in {u \in Tasks : pc[u] \in Marked}}
    /\ late' = late \cup {job[t] : t \in {u \in Tasks : At(u, "claim")}}
    /\ UNCHANGED <<cp, requeues, triggers, credit>>

Exit == cancelled /\ Reboot /\ UNCHANGED stops

Crash == stops < MaxStops /\ stops' = stops + 1 /\ Reboot

-----------------------------------------------------------------------------
ActionEnds(t) == WorkReturns(t) \/ ScriptReturns(t) \/ WorkPanics(t)

\* What a task does without waiting for an action, a slot or a fault.
TaskStep(t) ==
    \/ MarkDispatched(t) \/ SkipDuplicate(t)
    \/ ClaimGranted(t) \/ ClaimConflict(t) \/ ClaimFails(t)
    \/ Dedup(t) \/ CancelWait(t)
    \/ TakeSiteLock(t) \/ SiteBusy(t)
    \/ Report(t) \/ ReportLost(t)
    \/ ReleaseSlot(t) \/ DeleteActive(t) \/ ClearDispatched(t)

Next ==
    \/ \E j \in Jobs : \/ Requeue(j) \/ OtherWorkerClaims(j)
                       \/ LateClaimArrives(j) \/ LateClaimDropped(j) \/ PollSkip(j)
    \/ \E t \in Tasks, j \in Jobs : WSTrigger(t, j) \/ PollSpawn(t, j)
    \/ PollFetch \/ PollEmpty
    \/ \E t \in Tasks : TaskStep(t) \/ AcquireSlot(t) \/ ActionEnds(t)
    \/ Stop \/ Exit \/ Crash

Spec == Init /\ [][Next]_vars

\* The goroutines and the poll loop keep running, a cancelled process ends, and a goroutine
\* blocked on the semaphore is served in order (a Go channel queues its senders). Nothing
\* makes an action end: a deploy script and a site command run without a timeout.
Fairness ==
    /\ \A t \in Tasks : WF_vars(TaskStep(t)) /\ SF_vars(AcquireSlot(t))
    /\ WF_vars(PollFetch)
    /\ \A j \in Jobs : WF_vars(PollSkip(j) \/ \E t \in Tasks : PollSpawn(t, j))
    /\ WF_vars(Exit)

LiveSpec == Spec /\ Fairness

-----------------------------------------------------------------------------
(* Properties. *)

JobOf(S) == {job[t] : t \in {u \in Tasks : pc[u] \in S}}

\* The variables hold values of the Go types behind them, and exactly the idle tasks have no job.
TypeOK ==
    /\ cp \in [Jobs -> {"pending", "accepted", "elsewhere", "closed"}]
    /\ late \subseteq Jobs /\ faulted \subseteq Jobs /\ polled \subseteq Jobs
    /\ dispatched \subseteq Jobs /\ active \subseteq Jobs /\ siteLock \subseteq Sites
    /\ slots \in Nat /\ cancelled \in BOOLEAN
    /\ pc \in [Tasks -> PcStates] /\ job \in [Tasks -> Jobs \cup {NoJob}]
    /\ \A t \in Tasks : job[t] = NoJob <=> pc[t] = "idle"
    /\ credit \in [Jobs -> Int]
    /\ triggers \in Nat /\ requeues \in Nat /\ stops \in Nat

\* From markDispatched to clearDispatched a job belongs to one goroutine, whatever mix of
\* WebSocket messages, polls, retries and repeated offers started the goroutines.
OneOwnerPerJob ==
    \A t, u \in Tasks : pc[t] \in Marked /\ pc[u] \in Marked /\ job[t] = job[u] => t = u

\* Every mark, active entry, semaphore slot and site lock is held by a live goroutine that
\* will give it back: no path (failed claim, duplicate, full semaphore, busy site, panic)
\* returns without its clean-up. A leaked mark would hide a job from the poll loop, a leaked
\* slot would shrink the pool, a leaked lock would block a site, all until a restart.
NothingLeaks ==
    /\ dispatched = JobOf(Marked)
    /\ active = JobOf(Activated)
    /\ slots = Cardinality({t \in Tasks : pc[t] \in Slotted})
    /\ siteLock = {SiteOf[j] : j \in JobOf({"script"})}

\* Execute's duplicate branch, which returns without clearing the dispatched mark, is never
\* taken: the mark is cleared after the active entry is deleted.
DedupNeverDrops == \A t \in Tasks : At(t, "dedup") => job[t] \notin active

\* A job is started at most once per offer of the control plane, here or elsewhere.
AtMostOncePerOffer == \A j \in Jobs : credit[j] >= 0

\* The deploy sections of two jobs on one site never overlap.
DeployExclusive ==
    \A t, u \in Tasks :
        At(t, "script") /\ At(u, "script") /\ SiteOf[job[t]] = SiteOf[job[u]] => t = u

\* A job the control plane has given to this agent is being worked on and will be answered,
\* unless a message about it was lost or the process ended: the engine itself drops none.
AcceptedIsHandled ==
    \A j \in Jobs : cp[j] = "accepted" /\ j \notin faulted => j \in JobOf(Owing)

\* The engine implements the contract: a job runs while it holds a semaphore slot.
Contract == INSTANCE JobContract WITH
    running <- JobOf(Slotted), deploying <- JobOf({"script"})
RefinesContract == Contract!Spec

\* If no action hangs, every mark is given back.
ActionsEnd == \A t \in Tasks : []<>(pc[t] \notin InAction)
MarksAreReturned ==
    ActionsEnd => \A j \in Jobs : (j \in dispatched) ~> (j \notin dispatched)

\* If no action hangs, a pending job that no fault hits ends, here or at another worker, even
\* when the WebSocket never delivers it: the poll loop is enough.
PendingIsReached ==
    ActionsEnd => \A j \in Jobs :
        (cp[j] = "pending") ~> (cp[j] \in {"closed", "elsewhere"} \/ j \in faulted)

\* Actions may hang for ever, and a waiting job still gets a slot (or leaves with the process)
\* unless from some time on hung actions hold every slot.
NoSlotStarvation ==
    \/ <>[](Cardinality({u \in Tasks : pc[u] \in InAction}) = MaxConcurrent)
    \/ \A t \in Tasks : At(t, "slot") ~> ~At(t, "slot")

\* A failed claim is left to the poll loop ("poll will redeliver"), so a job accepted in this
\* agent's name and never started is in the hands of a goroutine while the process stays up.
PollWillRedeliver ==
    stops = 0 /\ requeues = 0 =>
        \A j \in Jobs : cp[j] = "accepted" /\ credit[j] = 1 => j \in JobOf(Marked)
==============================================================================
