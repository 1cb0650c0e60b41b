------------------------------- MODULE Egress -------------------------------
(***************************************************************************)
(* What the agent says over the WebSocket (internals/agent/websocket.go,   *)
(* logstream.go, docker.go): the queues egress and egressLow, which belong *)
(* to the client and outlive every connection, the goroutines that fill    *)
(* them, and the egress pump of the current connection, which empties      *)
(* them. Nobody waits for room in a queue: what does not fit is dropped,   *)
(* except a heartbeat, which goes over HTTP then.                          *)
(*                                                                         *)
(* The dispatch loop, the stream registry and the other pumps are those of *)
(* Connection, and so is the agent's shutdown; here a connection is up,    *)
(* broken, or torn down. One Docker log stream stands for all of them. A   *)
(* message is its place in the order in which messages entered the two     *)
(* queues, and its priority. What a write has handed to the link may still *)
(* be lost there; the link keeps the order of the rest.                    *)
(***************************************************************************)
EXTENDS Naturals, Sequences, FiniteSets

CONSTANTS
    None,
    HighCap, LowCap, LogCap,  \* capacities of egress, egressLow and a stream's logCh
    MaxConns,                 \* bound: connections; the last one does not break
    MaxMsgs                   \* bound: heartbeats, errors, answers and log lines

ASSUME EgressAssumption ==
    /\ HighCap \in Nat \ {0} /\ LowCap \in Nat \ {0} /\ LogCap \in Nat \ {0}
    /\ MaxConns \in Nat \ {0} /\ MaxMsgs \in Nat
    /\ None \notin Nat \X {"high", "low"}

VARIABLES
    link,               \* none (c.conn is nil), up, broken (not noticed, or being torn down)
    cancelled,          \* connCancel was called
    conns,              \* connections so far
    egress, egressLow,  \* the two queues
    pump,               \* off, select, write, drain, drainWrite, writeLow
    high, low,          \* messages the pump has taken
    stream, logCh,      \* a log stream: off, follow, closing; its buffered lines
    heart,              \* heartbeatLoop: idle, queue (it saw a connection), post
    made, queued,       \* messages made, and messages that entered a queue
    sent, posted, lost  \* written to a connection, in order; answered over HTTP; failed writes

linkVars == <<link, cancelled, conns>>
queues == <<egress, egressLow, queued>>
pumpVars == <<pump, high, low>>
streamVars == <<stream, logCh>>
heartVars == <<heart, posted>>
ends == <<sent, lost>>
vars == <<linkVars, queues, pumpVars, streamVars, heartVars, made, ends>>

Message == (1 .. MaxMsgs) \X {"high", "low"}

Init ==
    /\ link = "none" /\ cancelled = FALSE /\ conns = 0
    /\ egress = <<>> /\ egressLow = <<>> /\ queued = 0
    /\ pump = "off" /\ high = None /\ low = None
    /\ stream = "off" /\ logCh = 0
    /\ heart = "idle" /\ posted = 0
    /\ made = 0
    /\ sent = <<>> /\ lost = {}

\* select { case egress <- msg: default: }, and the same for egressLow.
HighRoom == Len(egress) < HighCap
PutHigh == egress' = Append(egress, <<queued + 1, "high">>) /\ queued' = queued + 1
OfferLow ==
    IF Len(egressLow) < LowCap
    THEN egressLow' = Append(egressLow, <<queued + 1, "low">>) /\ queued' = queued + 1
    ELSE UNCHANGED <<egressLow, queued>>

Make == made < MaxMsgs /\ made' = made + 1
Dispatching == link # "none" /\ ~cancelled

-----------------------------------------------------------------------------
(* Variants with one plausible bug each, used to show that the properties can fail. *)

\* A heartbeat that finds no room makes room: an unbounded queue.
HeartbeatAlwaysQueued ==
    /\ heart = "queue" /\ heart' = "idle" /\ PutHigh
    /\ UNCHANGED <<linkVars, egressLow, pumpVars, streamVars, posted, made, ends>>

\* A low message is written as soon as it is taken.
TakeLowDirectly ==
    /\ pump = "select" /\ egressLow # <<>>
    /\ low' = Head(egressLow) /\ egressLow' = Tail(egressLow) /\ pump' = "writeLow"
    /\ UNCHANGED <<linkVars, egress, queued, high, streamVars, heartVars, made, ends>>

\* The pump goes on with the next message after a write error.
WriteFailsOn ==
    /\ pump \in {"write", "drainWrite", "writeLow"} /\ link = "broken"
    /\ lost' = lost \cup ({high, low} \ {None})
    /\ pump' = "select" /\ high' = None /\ low' = None
    /\ UNCHANGED <<linkVars, queues, streamVars, heartVars, made, sent>>

\* The forwarder waits for room, instead of dropping the line.
LineForwardedBlocking ==
    /\ logCh > 0 /\ Len(egressLow) < LowCap /\ logCh' = logCh - 1 /\ OfferLow
    /\ UNCHANGED <<linkVars, egress, pumpVars, stream, heartVars, made, ends>>

-----------------------------------------------------------------------------
(* The connection, as far as the pump sees it. *)

Connect ==
    /\ link = "none" /\ conns < MaxConns
    /\ link' = "up" /\ cancelled' = FALSE /\ conns' = conns + 1
    /\ pump' = "select"
    /\ UNCHANGED <<queues, high, low, streamVars, heartVars, made, ends>>

LinkBreaks ==
    /\ link = "up" /\ conns < MaxConns /\ link' = "broken"
    /\ UNCHANGED <<cancelled, conns, queues, pumpVars, streamVars, heartVars, made, ends>>

\* The read pump has failed, the dispatch loop has ended: connCancel and stopAll.
Cancel ==
    /\ link = "broken" /\ ~cancelled /\ cancelled' = TRUE
    /\ UNCHANGED <<link, conns, queues, pumpVars, streamVars, heartVars, made, ends>>

\* pumps.Wait returns; setConn(nil).
TornDown ==
    /\ cancelled /\ pump = "off" /\ stream = "off" /\ link' = "none" /\ cancelled' = FALSE
    /\ UNCHANGED <<conns, queues, pumpVars, streamVars, heartVars, made, ends>>

-----------------------------------------------------------------------------
(* Who fills the queues. *)

\* sendHeartbeat: getConn is read once.
Heartbeat ==
    /\ heart = "idle" /\ Make
    /\ heart' = IF link # "none" THEN "queue" ELSE "post"
    /\ UNCHANGED <<linkVars, queues, pumpVars, streamVars, posted, ends>>

HeartbeatQueued ==
    /\ heart = "queue"
    /\ IF HighRoom THEN PutHigh /\ heart' = "idle"
                   ELSE heart' = "post" /\ UNCHANGED <<egress, queued>>
    /\ UNCHANGED <<linkVars, egressLow, pumpVars, streamVars, posted, made, ends>>

\* POST /agents/heartbeat, answered or not; it is not tried again.
HeartbeatPosted ==
    /\ heart = "post" /\ heart' = "idle"
    /\ \E answered \in {0, 1} : posted' = posted + answered
    /\ UNCHANGED <<linkVars, queues, pumpVars, streamVars, made, ends>>

\* sendError, from the dispatch loop.
SendError ==
    /\ Dispatching /\ Make
    /\ IF HighRoom THEN PutHigh ELSE UNCHANGED <<egress, queued>>
    /\ UNCHANGED <<linkVars, egressLow, pumpVars, streamVars, heartVars, ends>>

\* The answer to list_containers, from the dispatch loop.
AnswerList ==
    /\ Dispatching /\ Make /\ OfferLow
    /\ UNCHANGED <<linkVars, egress, pumpVars, streamVars, heartVars, ends>>

StreamStarts ==
    /\ Dispatching /\ stream = "off" /\ stream' = "follow" /\ made < MaxMsgs
    /\ UNCHANGED <<linkVars, queues, pumpVars, logCh, heartVars, made, ends>>

\* logWriter.Write: a line for logCh, dropped if it is full.
LineWritten ==
    /\ stream = "follow" /\ Make
    /\ logCh' = IF logCh < LogCap THEN logCh + 1 ELSE logCh
    /\ UNCHANGED <<linkVars, queues, pumpVars, stream, heartVars, ends>>

\* The forwarder of streamContainerLogs.
LineForwarded ==
    /\ logCh > 0 /\ logCh' = logCh - 1 /\ OfferLow
    /\ UNCHANGED <<linkVars, egress, pumpVars, stream, heartVars, made, ends>>

\* The container stops or the stream is cancelled: logCh is closed.
StreamEnds ==
    /\ stream = "follow" /\ stream' = "closing"
    /\ UNCHANGED <<linkVars, queues, pumpVars, logCh, heartVars, made, ends>>

\* The forwarder has drained logCh; the worker ends.
StreamDrained ==
    /\ stream = "closing" /\ logCh = 0 /\ stream' = "off"
    /\ UNCHANGED <<linkVars, queues, pumpVars, logCh, heartVars, made, ends>>

-----------------------------------------------------------------------------
(* The egress pump. Its select takes any branch that is ready, a message or the context. *)

PumpCancelled ==
    /\ pump = "select" /\ cancelled /\ pump' = "off"
    /\ UNCHANGED <<linkVars, queues, high, low, streamVars, heartVars, made, ends>>

TakeHigh ==
    /\ pump = "select" /\ egress # <<>>
    /\ high' = Head(egress) /\ egress' = Tail(egress) /\ pump' = "write"
    /\ UNCHANGED <<linkVars, egressLow, queued, low, streamVars, heartVars, made, ends>>

TakeLow ==
    /\ pump = "select" /\ egressLow # <<>>
    /\ low' = Head(egressLow) /\ egressLow' = Tail(egressLow) /\ pump' = "drain"
    /\ UNCHANGED <<linkVars, egress, queued, high, streamVars, heartVars, made, ends>>

\* With a low message in hand: the high ones first.
Drain ==
    /\ pump = "drain"
    /\ IF egress # <<>>
       THEN high' = Head(egress) /\ egress' = Tail(egress) /\ pump' = "drainWrite"
       ELSE pump' = "writeLow" /\ UNCHANGED <<high, egress>>
    /\ UNCHANGED <<linkVars, egressLow, queued, low, streamVars, heartVars, made, ends>>

\* A write on a broken link may succeed, until the network notices.
WriteHigh ==
    /\ pump \in {"write", "drainWrite"} /\ ~cancelled
    /\ sent' = Append(sent, high) /\ high' = None
    /\ pump' = IF pump = "write" THEN "select" ELSE "drain"
    /\ UNCHANGED <<linkVars, queues, low, streamVars, heartVars, made, lost>>

WriteLow ==
    /\ pump = "writeLow" /\ ~cancelled
    /\ sent' = Append(sent, low) /\ low' = None /\ pump' = "select"
    /\ UNCHANGED <<linkVars, queues, high, streamVars, heartVars, made, lost>>

\* A write on a broken link or with a cancelled context: the pump returns.
WriteFails ==
    /\ pump \in {"write", "drainWrite", "writeLow"} /\ link = "broken"
    /\ lost' = lost \cup ({high, low} \ {None})
    /\ pump' = "off" /\ high' = None /\ low' = None
    /\ UNCHANGED <<linkVars, queues, streamVars, heartVars, made, sent>>

-----------------------------------------------------------------------------
PumpStep == PumpCancelled \/ TakeHigh \/ TakeLow \/ Drain \/ WriteHigh \/ WriteLow \/ WriteFails
HeartStep == HeartbeatQueued \/ HeartbeatPosted
Forwarder == LineForwarded \/ StreamDrained

Next ==
    \/ Connect \/ LinkBreaks \/ Cancel \/ TornDown
    \/ Heartbeat \/ HeartStep
    \/ SendError \/ AnswerList
    \/ StreamStarts \/ LineWritten \/ StreamEnds \/ Forwarder
    \/ PumpStep

Spec == Init /\ [][Next]_vars

\* The goroutines run on, a follow with a cancelled context returns, the read on a broken link fails
\* some day, and the client dials until it has a connection. A select with a message and the context
\* both ready may take either: nothing obliges it to take the messages of one queue before the
\* other's, hence SF for each.
LiveSpec ==
    /\ Spec
    /\ WF_vars(Connect) /\ WF_vars(Cancel) /\ WF_vars(TornDown)
    /\ WF_vars(PumpStep) /\ SF_vars(TakeHigh) /\ SF_vars(TakeLow)
    /\ WF_vars(Forwarder) /\ WF_vars(cancelled /\ StreamEnds) /\ WF_vars(HeartStep)

-----------------------------------------------------------------------------
(* Properties. *)

TypeOK ==
    /\ link \in {"none", "up", "broken"} /\ cancelled \in BOOLEAN /\ conns \in 0 .. MaxConns
    /\ egress \in Seq(Message) /\ Len(egress) <= HighCap
    /\ egressLow \in Seq(Message) /\ Len(egressLow) <= LowCap
    /\ pump \in {"off", "select", "write", "drain", "drainWrite", "writeLow"}
    /\ high \in Message \cup {None} /\ low \in Message \cup {None}
    /\ stream \in {"off", "follow", "closing"} /\ logCh \in 0 .. LogCap
    /\ heart \in {"idle", "queue", "post"} /\ posted \in 0 .. made
    /\ made \in 0 .. MaxMsgs /\ queued \in 0 .. made
    /\ sent \in Seq(Message) /\ lost \subseteq Message

\* Over any number of connections every message is written at most once and in the order in which
\* the messages were queued, but for high ones, which may overtake low ones: no heartbeat or error
\* waits behind a log line or listing that was queued after it, and none is sent again.
OnlyHighOvertakes ==
    \A i, j \in DOMAIN sent : i < j =>
        sent[i][1] < sent[j][1] \/ (sent[i][2] = "high" /\ sent[j][2] = "low")

\* A connection that breaks costs, besides what was written to it, at most the two messages its pump
\* has taken: everything else that was queued, also while the link was dead, is there for the next.
LossIsBounded ==
    /\ Cardinality(lost) <= 2 * (IF link = "up" THEN conns - 1 ELSE conns)
    /\ queued = Len(egress) + Len(egressLow) + Len(sent) + Cardinality(lost)
                    + Cardinality({high, low} \ {None})

\* What was queued gets out: it is written to a connection, or its write has failed.
QueuedGetsOut ==
    \A n \in 1 .. MaxMsgs :
        (queued >= n) ~> \E m \in lost \cup {sent[i] : i \in DOMAIN sent} : m[1] = n
=============================================================================
