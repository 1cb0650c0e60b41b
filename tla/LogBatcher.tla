----------------------------- MODULE LogBatcher ------------------------------
(***************************************************************************)
(* The log batcher of one job (LogBatcher in jobengine.go) and the three   *)
(* goroutines that use it: the job, which writes lines, flushes, reports   *)
(* the result and closes the batcher; the flush loop, which posts what has *)
(* gathered every 100 ms; the heartbeat loop, which adds a line when the   *)
(* job is silent.                                                          *)
(*                                                                         *)
(* A line is its sequence number. A post is the StreamLogs request: the    *)
(* batch leaves the buffer under the mutex and travels outside it, so two  *)
(* posts can be in flight at once and their order is open.                 *)
(***************************************************************************)
EXTENDS Naturals, Sequences, FiniteSets

CONSTANTS
    MaxLines,       \* bound: lines the job writes
    MaxHeartbeats,  \* bound: heartbeat lines
    LossyNetwork    \* whether the network may lose a post

ASSUME BoundsAssumption ==
    MaxLines \in Nat /\ MaxHeartbeats \in Nat /\ LossyNetwork \in BOOLEAN

VARIABLES
    lines,       \* LogBatcher.lines
    seq,         \* LogBatcher.seq
    parentDone,  \* the context the job runs in is cancelled
    lbDone,      \* LogBatcher.cancel was called
    jobPc,       \* write <-> post -> report -> close -> final -> cancel -> done
    loopPc,      \* wait <-> post, stopped
    hbPc,        \* wait, stopped
    flight,      \* the batch of each poster's request in flight
    received,    \* the batches the control plane got, in order of arrival
    \* history
    beats,       \* heartbeat lines
    netLost,     \* lines of posts the network lost
    ctxLost      \* lines of posts aborted by a cancelled context

Posters == {"job", "loop"}

buffer == <<lines, seq, beats>>
contexts == <<parentDone, lbDone>>
pcs == <<jobPc, loopPc, hbPc>>
outcome == <<received, netLost, ctxLost>>
vars == <<buffer, contexts, pcs, flight, outcome>>

Lines(s) == {s[i] : i \in 1 .. Len(s)}

\* lb.ctx is a child of the job's context.
CtxDone == lbDone \/ parentDone

Init ==
    /\ lines = <<>> /\ seq = 0 /\ beats = {}
    /\ parentDone = FALSE /\ lbDone = FALSE
    /\ jobPc = "write" /\ loopPc = "wait" /\ hbPc = "wait"
    /\ flight = [p \in Posters |-> <<>>]
    /\ received = <<>> /\ netLost = {} /\ ctxLost = {}

-----------------------------------------------------------------------------
(* Variants with one plausible bug each, used to show that the properties can fail. *)

\* The batch is sent and the buffer is not emptied.
TakeKeeps(p) ==
    /\ flight' = [flight EXCEPT ![p] = lines]
    /\ UNCHANGED lines

\* The number is read and not advanced.
AppendUnnumbered ==
    /\ lines' = Append(lines, seq + 1)
    /\ UNCHANGED seq

\* The action reports without flushing first.
ReturnUnflushed(p) ==
    /\ \/ p = "job" /\ jobPc \in {"post", "write"} /\ jobPc' = "report" /\ UNCHANGED loopPc
       \/ p = "job" /\ jobPc = "final" /\ jobPc' = "cancel" /\ UNCHANGED loopPc
       \/ p = "loop" /\ loopPc = "post" /\ loopPc' = "wait" /\ UNCHANGED jobPc
    /\ flight[p] = <<>>
    /\ UNCHANGED <<buffer, contexts, hbPc, flight, outcome>>

CloseWithoutCancel ==
    /\ jobPc = "cancel" /\ jobPc' = "done"
    /\ UNCHANGED <<buffer, contexts, loopPc, hbPc, flight, outcome>>

-----------------------------------------------------------------------------
(* The buffer: both steps run under the batcher's mutex. *)

AppendLine ==
    /\ lines' = Append(lines, seq + 1)
    /\ seq' = seq + 1

\* flushNowWith, first half.
TakeBatch(p) ==
    /\ flight' = [flight EXCEPT ![p] = lines]
    /\ lines' = <<>>

-----------------------------------------------------------------------------
(* flushNowWith, second half: StreamLogs outside the mutex. Its error is only logged. *)

\* Which posts a cancelled context aborts: the final one is detached from it.
MayAbort(p) == CtxDone /\ ~(p = "job" /\ jobPc = "final")

Landed(p) == flight[p] # <<>> /\ flight' = [flight EXCEPT ![p] = <<>>]

PostDelivered(p) ==
    /\ Landed(p)
    /\ received' = Append(received, flight[p])
    /\ UNCHANGED <<buffer, contexts, pcs, netLost, ctxLost>>

PostLost(p) ==
    /\ LossyNetwork /\ Landed(p)
    /\ netLost' = netLost \cup Lines(flight[p])
    /\ UNCHANGED <<buffer, contexts, pcs, received, ctxLost>>

PostAborted(p) ==
    /\ MayAbort(p) /\ Landed(p)
    /\ ctxLost' = ctxLost \cup Lines(flight[p])
    /\ UNCHANGED <<buffer, contexts, pcs, received, netLost>>

\* The flush returns; the job flushes between writes and once more before its report.
FlushReturns(p) ==
    /\ flight[p] = <<>>
    /\ \/ p = "job" /\ jobPc = "post" /\ jobPc' \in {"write", "report"} /\ UNCHANGED loopPc
       \/ p = "job" /\ jobPc = "final" /\ jobPc' = "cancel" /\ UNCHANGED loopPc
       \/ p = "loop" /\ loopPc = "post" /\ loopPc' = "wait" /\ UNCHANGED jobPc
    /\ UNCHANGED <<buffer, contexts, hbPc, flight, outcome>>

-----------------------------------------------------------------------------
(* The job's goroutine. *)

Write ==
    /\ jobPc = "write" /\ seq < MaxLines + Cardinality(beats)
    /\ AppendLine
    /\ UNCHANGED <<beats, contexts, pcs, flight, outcome>>

FlushNow ==
    /\ jobPc = "write" /\ jobPc' = "post"
    /\ TakeBatch("job")
    /\ UNCHANGED <<seq, beats, contexts, loopPc, hbPc, outcome>>

CompleteJob ==
    /\ jobPc = "report" /\ jobPc' = "close"
    /\ UNCHANGED <<buffer, contexts, loopPc, hbPc, flight, outcome>>

\* Close: one more flush, of whatever was appended since.
FinalFlush ==
    /\ jobPc = "close" /\ jobPc' = "final"
    /\ TakeBatch("job")
    /\ UNCHANGED <<seq, beats, contexts, loopPc, hbPc, outcome>>

StopLoops ==
    /\ jobPc = "cancel" /\ jobPc' = "done"
    /\ lbDone' = TRUE
    /\ UNCHANGED <<buffer, parentDone, loopPc, hbPc, flight, outcome>>

-----------------------------------------------------------------------------
(* The loops. With the ticker and Done both ready, select takes either. *)

LoopFlush ==
    /\ loopPc = "wait" /\ lines # <<>> /\ loopPc' = "post"
    /\ TakeBatch("loop")
    /\ UNCHANGED <<seq, beats, contexts, jobPc, hbPc, outcome>>

LoopStops ==
    /\ loopPc = "wait" /\ CtxDone /\ loopPc' = "stopped"
    /\ UNCHANGED <<buffer, contexts, jobPc, hbPc, flight, outcome>>

Heartbeat ==
    /\ hbPc = "wait" /\ Cardinality(beats) < MaxHeartbeats
    /\ AppendLine /\ beats' = beats \cup {seq + 1}
    /\ UNCHANGED <<contexts, pcs, flight, outcome>>

HeartbeatStops ==
    /\ hbPc = "wait" /\ CtxDone /\ hbPc' = "stopped"
    /\ UNCHANGED <<buffer, contexts, jobPc, loopPc, flight, outcome>>

\* The agent is told to stop.
ParentCancelled ==
    /\ ~parentDone /\ jobPc # "done" /\ parentDone' = TRUE
    /\ UNCHANGED <<buffer, lbDone, pcs, flight, outcome>>

Over ==
    /\ jobPc = "done" /\ loopPc = "stopped" /\ hbPc = "stopped"
    /\ UNCHANGED vars

-----------------------------------------------------------------------------
Post(p) == PostDelivered(p) \/ PostLost(p) \/ PostAborted(p)
LoopStep == LoopFlush \/ LoopStops \/ FlushReturns("loop")
JobEnds == FlushReturns("job") \/ CompleteJob \/ FinalFlush \/ StopLoops

Next ==
    \/ \E p \in Posters : Post(p)
    \/ Write \/ FlushNow \/ JobEnds
    \/ LoopStep \/ Heartbeat \/ HeartbeatStops
    \/ ParentCancelled \/ Over

Spec == Init /\ [][Next]_vars

\* A post ends (the HTTP client gives up after 30 s), the loops and a closing job run on.
\* The flush loop may find the ticker ready many times, but a select among ready cases is
\* uniform, so it cannot overlook Done for ever.
LiveSpec ==
    /\ Spec
    /\ \A p \in Posters : WF_vars(Post(p))
    /\ WF_vars(JobEnds) /\ WF_vars(LoopStep) /\ SF_vars(LoopStops) /\ WF_vars(HeartbeatStops)

-----------------------------------------------------------------------------
(* Properties. *)

TypeOK ==
    /\ lines \in Seq(1 .. seq) /\ flight \in [Posters -> Seq(1 .. seq)]
    /\ received \in Seq(Seq(1 .. seq))
    /\ seq \in Nat /\ beats \subseteq 1 .. seq
    /\ netLost \subseteq 1 .. seq /\ ctxLost \subseteq 1 .. seq
    /\ parentDone \in BOOLEAN /\ lbDone \in BOOLEAN
    /\ jobPc \in {"write", "post", "report", "close", "final", "cancel", "done"}
    /\ loopPc \in {"wait", "post", "stopped"} /\ hbPc \in {"wait", "stopped"}

Batches == received \o <<flight["job"], flight["loop"], lines>>
Homes(n) == Cardinality({i \in 1 .. Len(Batches) : n \in Lines(Batches[i])})

\* Every line the batcher numbered is in exactly one place: the buffer, one request, one
\* received batch, or a request that failed. Nothing is posted twice and nothing disappears,
\* however the periodic, the explicit and the final flush overlap, and every request carries
\* consecutive numbers. A request that fails need not be a fault of the network: Close aborts a
\* periodic flush that is in flight when it cancels the context.
EveryLineOnce ==
    /\ \A n \in 1 .. seq :
          Homes(n) + Cardinality({n} \cap netLost) + Cardinality({n} \cap ctxLost) = 1
    /\ \A i \in 1 .. Len(Batches) : \A k \in 1 .. Len(Batches[i]) - 1 :
          Batches[i][k + 1] = Batches[i][k] + 1

\* When the result is reported no line of the job waits in the buffer.
ReportAfterFlush ==
    jobPc \in {"report", "close", "final", "cancel", "done"} => Lines(lines) \subseteq beats

\* Both loops end after Close: a finished job leaves no goroutine behind.
LoopsEnd == (jobPc = "done") ~> (loopPc = "stopped" /\ hbPc = "stopped")
==============================================================================
