----------------------------- MODULE Connection ------------------------------
(***************************************************************************)
(* The WebSocket client's life (Connect and connectOnce in                 *)
(* internals/agent/websocket.go) with the goroutines of a connection: the  *)
(* read, egress and ping pumps, the dispatch loop, and one worker per      *)
(* Docker log stream (internals/agent/logstream.go).                       *)
(*                                                                         *)
(* The Connect goroutine runs the dispatch loop itself. Job messages start *)
(* goroutines that outlive the connection: JobEngine models them. Docker   *)
(* is external: a listing may never answer, a followed log ends when the   *)
(* container stops or its context is cancelled.                            *)
(***************************************************************************)
EXTENDS Naturals, FiniteSets

CONSTANTS
    Ids,         \* stream_id values the control plane uses
    Workers,     \* goroutines of startLogStream, one per accepted log_stream message
    None,        \* no worker, no stream_id
    MaxStreams,  \* maxConcurrentLogStreams
    MaxConns,    \* bound: connections
    MaxStarts    \* bound: log_stream messages

ASSUME ConnectionAssumption ==
    /\ None \notin Workers \cup Ids /\ IsFiniteSet(Workers)
    /\ MaxStreams \in Nat \ {0} /\ MaxConns \in Nat /\ MaxStarts \in Nat

VARIABLES
    main,      \* the Connect goroutine: dial, dispatch, listing, cleanup, wait, backoff, stopped
    epoch,     \* number of the current connection
    linkUp,    \* the peer and the network are there
    rootDone,  \* the agent's context is cancelled
    connDone,  \* connCancel was called
    pumps,     \* running pumps, with the connection each belongs to
    reg,       \* logStreams.cancel: the worker whose context a stream_id cancels
    wpc, wid, wconn, wcancel,  \* every worker: control, stream_id, connection, own context
    starts

mainVars == <<main, epoch, linkUp, rootDone, connDone>>
workerVars == <<wpc, wid, wconn, wcancel>>
vars == <<mainVars, pumps, reg, workerVars, starts>>

Kinds == {"read", "egress", "ping"}
Live(w) == wpc[w] \in {"follow", "ended"}
Tracked == {id \in Ids : reg[id] # None}

\* The context of connection e: a child of the agent's.
CtxDone(e) == rootDone \/ e # epoch \/ connDone

Init ==
    /\ main = "dial" /\ epoch = 0 /\ linkUp = FALSE /\ rootDone = FALSE /\ connDone = FALSE
    /\ pumps = {}
    /\ reg = [id \in Ids |-> None]
    /\ wpc = [w \in Workers |-> "idle"]
    /\ wid = [w \in Workers |-> None]
    /\ wconn = [w \in Workers |-> 0] /\ wcancel = [w \in Workers |-> FALSE]
    /\ starts = 0

-----------------------------------------------------------------------------
(* Variants with one plausible bug each, used to show that the properties can fail. *)

\* connectOnce returns without pumps.Wait().
WaitForNobody ==
    /\ main = "wait" /\ main' = "backoff"
    /\ UNCHANGED <<epoch, linkUp, rootDone, connDone, pumps, reg, workerVars, starts>>

\* The worker's deferred remove is missing.
WorkerKeepsEntry(w) ==
    /\ wpc[w] = "ended" /\ wpc' = [wpc EXCEPT ![w] = "done"]
    /\ UNCHANGED <<mainVars, pumps, reg, wid, wconn, wcancel, starts>>

\* The teardown forgets connCancel: the pumps are waited for, and never told to end.
CleanUpUncancelled ==
    /\ main = "cleanup" /\ main' = "wait"
    /\ wcancel' = [w \in Workers |-> wcancel[w] \/ \E id \in Ids : reg[id] = w]
    /\ reg' = [id \in Ids |-> None]
    /\ UNCHANGED <<epoch, linkUp, rootDone, connDone, pumps, wpc, wid, wconn, starts>>

\* stop deletes the entry and does not call the cancel function.
StopWithoutCancel(id) ==
    /\ main = "dispatch" /\ reg[id] # None
    /\ reg' = [reg EXCEPT ![id] = None]
    /\ UNCHANGED <<mainVars, pumps, workerVars, starts>>

\* The listing is given a context that ends with the connection only, not with the agent.
ListDetached ==
    /\ main = "listing" /\ connDone /\ main' = "dispatch"
    /\ UNCHANGED <<epoch, linkUp, rootDone, connDone, pumps, reg, workerVars, starts>>

\* stop calls the cancel function of an id that is not there: a nil function, a panic.
StopUnchecked(id) ==
    /\ main = "dispatch"
    /\ main' = IF reg[id] = None THEN "panic" ELSE main
    /\ wcancel' = [w \in Workers |-> wcancel[w] \/ reg[id] = w]
    /\ reg' = [reg EXCEPT ![id] = None]
    /\ UNCHANGED <<epoch, linkUp, rootDone, connDone, pumps, wpc, wid, wconn, starts>>

-----------------------------------------------------------------------------
(* Connect. *)

Dial ==
    /\ main = "dial" /\ ~rootDone /\ epoch < MaxConns
    /\ main' = "dispatch" /\ epoch' = epoch + 1 /\ linkUp' = TRUE /\ connDone' = FALSE
    /\ pumps' = pumps \cup (Kinds \X {epoch + 1})
    /\ UNCHANGED <<rootDone, reg, workerVars, starts>>

DialFails ==
    /\ main = "dial" /\ ~rootDone /\ main' = "backoff"
    /\ UNCHANGED <<epoch, linkUp, rootDone, connDone, pumps, reg, workerVars, starts>>

Retry ==
    /\ main = "backoff" /\ main' = "dial"
    /\ UNCHANGED <<epoch, linkUp, rootDone, connDone, pumps, reg, workerVars, starts>>

ConnectReturns ==
    /\ main \in {"dial", "backoff"} /\ rootDone /\ main' = "stopped"
    /\ UNCHANGED <<epoch, linkUp, rootDone, connDone, pumps, reg, workerVars, starts>>

-----------------------------------------------------------------------------
(* The link, the agent's shutdown, the pumps. *)

LinkDrops ==
    /\ linkUp /\ linkUp' = FALSE
    /\ UNCHANGED <<main, epoch, rootDone, connDone, pumps, reg, workerVars, starts>>

Stop ==
    /\ ~rootDone /\ rootDone' = TRUE
    /\ UNCHANGED <<main, epoch, linkUp, connDone, pumps, reg, workerVars, starts>>

\* A read, write or ping on the dead link fails.
PumpFails(k, e) ==
    /\ <<k, e>> \in pumps /\ ~linkUp /\ pumps' = pumps \ {<<k, e>>}
    /\ UNCHANGED <<mainVars, reg, workerVars, starts>>

\* The select on the connection's context, or the call that was given it, returns.
PumpCancelled(k, e) ==
    /\ <<k, e>> \in pumps /\ CtxDone(e) /\ pumps' = pumps \ {<<k, e>>}
    /\ UNCHANGED <<mainVars, reg, workerVars, starts>>

-----------------------------------------------------------------------------
(* The dispatch loop: also over what the read pump buffered before it ended. *)

DispatchList ==
    /\ main = "dispatch" /\ main' = "listing"
    /\ UNCHANGED <<epoch, linkUp, rootDone, connDone, pumps, reg, workerVars, starts>>

\* Docker answers; the answer is queued for egress or dropped.
ListAnswered ==
    /\ main = "listing" /\ main' = "dispatch"
    /\ UNCHANGED <<epoch, linkUp, rootDone, connDone, pumps, reg, workerVars, starts>>

ListCancelled ==
    /\ main = "listing" /\ CtxDone(epoch) /\ main' = "dispatch"
    /\ UNCHANGED <<epoch, linkUp, rootDone, connDone, pumps, reg, workerVars, starts>>

StartStream(w, id) ==
    /\ main = "dispatch" /\ starts < MaxStarts /\ wpc[w] = "idle"
    /\ reg[id] = None /\ Cardinality(Tracked) < MaxStreams
    /\ reg' = [reg EXCEPT ![id] = w]
    /\ wpc' = [wpc EXCEPT ![w] = "follow"] /\ wid' = [wid EXCEPT ![w] = id]
    /\ wconn' = [wconn EXCEPT ![w] = epoch] /\ wcancel' = [wcancel EXCEPT ![w] = FALSE]
    /\ starts' = starts + 1
    /\ UNCHANGED <<mainVars, pumps>>

\* The registry rejects: an error message is queued.
RejectStream(id) ==
    /\ main = "dispatch" /\ starts < MaxStarts
    /\ reg[id] # None \/ Cardinality(Tracked) >= MaxStreams
    /\ starts' = starts + 1
    /\ UNCHANGED <<mainVars, pumps, reg, workerVars>>

StopStream(id) ==
    /\ main = "dispatch" /\ reg[id] # None
    /\ wcancel' = [wcancel EXCEPT ![reg[id]] = TRUE]
    /\ reg' = [reg EXCEPT ![id] = None]
    /\ UNCHANGED <<mainVars, pumps, wpc, wid, wconn, starts>>

\* The read channel is closed and drained.
LoopEnds ==
    /\ main = "dispatch" /\ <<"read", epoch>> \notin pumps /\ main' = "cleanup"
    /\ UNCHANGED <<epoch, linkUp, rootDone, connDone, pumps, reg, workerVars, starts>>

\* connCancel and stopAll.
CleanUp ==
    /\ main = "cleanup" /\ main' = "wait"
    /\ connDone' = TRUE
    /\ wcancel' = [w \in Workers |-> wcancel[w] \/ \E id \in Ids : reg[id] = w]
    /\ reg' = [id \in Ids |-> None]
    /\ UNCHANGED <<epoch, linkUp, rootDone, pumps, wpc, wid, wconn, starts>>

\* pumps.Wait counts the pumps and the stream workers of the connection.
WaitEnds ==
    /\ main = "wait" /\ main' = "backoff"
    /\ \A p \in pumps : p[2] # epoch
    /\ \A w \in Workers : Live(w) => wconn[w] # epoch
    /\ UNCHANGED <<epoch, linkUp, rootDone, connDone, pumps, reg, workerVars, starts>>

-----------------------------------------------------------------------------
(* Stream workers. *)

ContainerStops(w) ==
    /\ wpc[w] = "follow" /\ wpc' = [wpc EXCEPT ![w] = "ended"]
    /\ UNCHANGED <<mainVars, pumps, reg, wid, wconn, wcancel, starts>>

FollowCancelled(w) ==
    /\ wpc[w] = "follow" /\ (wcancel[w] \/ CtxDone(wconn[w]))
    /\ wpc' = [wpc EXCEPT ![w] = "ended"]
    /\ UNCHANGED <<mainVars, pumps, reg, wid, wconn, wcancel, starts>>

\* The deferred remove deletes whatever is registered under the worker's stream_id.
WorkerRemoves(w) ==
    /\ wpc[w] = "ended" /\ wpc' = [wpc EXCEPT ![w] = "done"]
    /\ reg' = [reg EXCEPT ![wid[w]] = None]
    /\ UNCHANGED <<mainVars, pumps, wid, wconn, wcancel, starts>>

-----------------------------------------------------------------------------
Loop == DispatchList \/ LoopEnds \/ CleanUp \/ WaitEnds \/ ListCancelled
Reconnect == Dial \/ DialFails \/ Retry \/ ConnectReturns
WorkerStep(w) == FollowCancelled(w) \/ WorkerRemoves(w)

Next ==
    \/ Reconnect \/ Loop \/ ListAnswered
    \/ LinkDrops \/ Stop
    \/ \E k \in Kinds, e \in 1 .. MaxConns : PumpFails(k, e) \/ PumpCancelled(k, e)
    \/ \E id \in Ids : \/ RejectStream(id) \/ StopStream(id)
                       \/ \E w \in Workers : StartStream(w, id)
    \/ \E w \in Workers : ContainerStops(w) \/ WorkerStep(w)

Spec == Init /\ [][Next]_vars

\* Every goroutine runs on, the read on a dead link fails some day (TCP keepalive), and the loop
\* over a closed channel ends (it holds at most 64 messages, hence SF). Nothing makes Docker
\* answer a listing, an idle egress pump look at the link, or the control plane speak.
LiveSpec ==
    /\ Spec
    /\ WF_vars(Reconnect) /\ SF_vars(LoopEnds) /\ WF_vars(CleanUp) /\ WF_vars(WaitEnds)
    /\ WF_vars(ListCancelled)
    /\ \A e \in 1 .. MaxConns : WF_vars(PumpFails("read", e))
    /\ \A k \in Kinds, e \in 1 .. MaxConns : WF_vars(PumpCancelled(k, e))
    /\ \A w \in Workers : WF_vars(WorkerStep(w))

-----------------------------------------------------------------------------
(* Properties. *)

TypeOK ==
    /\ main \in {"dial", "dispatch", "listing", "cleanup", "wait", "backoff", "stopped"}
    /\ epoch \in 0 .. MaxConns /\ starts \in 0 .. MaxStarts
    /\ linkUp \in BOOLEAN /\ rootDone \in BOOLEAN /\ connDone \in BOOLEAN
    /\ pumps \subseteq Kinds \X (1 .. MaxConns)
    /\ reg \in [Ids -> Workers \cup {None}]
    /\ wpc \in [Workers -> {"idle", "follow", "ended", "done"}] /\ wid \in [Workers -> Ids \cup {None}]
    /\ wconn \in [Workers -> 0 .. MaxConns] /\ wcancel \in [Workers -> BOOLEAN]

\* connectOnce's promise: when it returns, no pump, no stream worker and no registry entry of
\* the connection is left, so nothing of it competes with the next one for the egress queues.
NothingSurvives ==
    main \in {"dial", "backoff", "stopped"} =>
        pumps = {} /\ Tracked = {} /\ \A w \in Workers : ~Live(w)

\* An entry of the registry leads to a live, uncancelled worker with that stream_id: a stopped
\* or ended stream does not go on using up one of the five places, and an id is never refused
\* as active because of a stream that is gone.
EntriesAreLive ==
    \A id \in Tracked : Live(reg[id]) /\ wid[reg[id]] = id /\ ~wcancel[reg[id]]

\* The worker of a stopped stream deletes, as it ends, whatever its id leads to by then.
LeftByAStopped(id) == \E v \in Workers : wpc[v] = "done" /\ wcancel[v] /\ wid[v] = id

\* A live stream can be stopped by its id and takes up a place, unless it is cancelled already.
\* There is one way to lose its entry: another stream with its id was stopped and has ended. Then
\* it is followed beyond README's "up to 5 concurrent streams" and nobody can stop it by its id.
\* A stream that ends by itself, is rejected or has another id takes no entry but its own away.
FollowedIsTracked ==
    \A w \in Workers :
        Live(w) => reg[wid[w]] = w \/ wcancel[w] \/ connDone \/ LeftByAStopped(wid[w])

\* A dropped link ends the connection, if Docker answers every listing. (docs/walkthrough.md has
\* listings "cancelled when the connection drops"; their context is cancelled after the dispatch
\* loop, which is the goroutine that waits for them.)
DropEndsConnection ==
    []<>(main # "listing") =>
        ((main = "dispatch" /\ ~linkUp) ~> (main \in {"dial", "backoff", "stopped"}))

\* Shutdown ends Connect, even with a listing that Docker never answers.
StopEndsConnect == rootDone ~> (main = "stopped")
==============================================================================
