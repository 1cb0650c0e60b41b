--------------------------- MODULE ConnectionProofs ---------------------------
(***************************************************************************)
(* Theorems about Connection for any number of stream ids, workers and     *)
(* connections. The argument: whatever is alive belongs to the current     *)
(* connection (OneConnection), so the wait at the end of connectOnce, which *)
(* looks at that connection only, is a wait for everything.                *)
(***************************************************************************)
EXTENDS Connection, TLAPS

Away == {"dial", "backoff", "stopped"}

\* Pumps and live workers belong to the current connection, and there are none between two.
OneConnection ==
    /\ \A p \in pumps : p[2] = epoch
    /\ \A w \in Workers : Live(w) => wconn[w] = epoch
    /\ main \in Away \cup {"wait"} => Tracked = {}
    /\ main \in Away => pumps = {} /\ \A w \in Workers : ~Live(w)

\* A worker that was started has the stream_id of its message.
StartedHaveIds == \A w \in Workers : wpc[w] # "idle" => wid[w] \in Ids

IInv == TypeOK /\ OneConnection /\ StartedHaveIds /\ EntriesAreLive /\ FollowedIsTracked

-----------------------------------------------------------------------------
LEMMA InitIInv == Init => IInv
<1> SUFFICES ASSUME Init PROVE IInv
  OBVIOUS
<1> USE ConnectionAssumption DEF Init
<1>1. TypeOK
  <2>1. wcancel \in [Workers -> BOOLEAN] /\ wconn \in [Workers -> 0 .. MaxConns]
    OBVIOUS
  <2>2. reg \in [Ids -> Workers \cup {None}] /\ wid \in [Workers -> Ids \cup {None}]
    OBVIOUS
  <2>3. pumps \subseteq Kinds \X (1 .. MaxConns)
    OBVIOUS
  <2>4. /\ epoch \in 0 .. MaxConns /\ starts \in 0 .. MaxStarts
        /\ wpc \in [Workers -> {"idle", "follow", "ended", "done"}]
    OBVIOUS
  <2>5. QED
    BY <2>1, <2>2, <2>3, <2>4, Zenon DEF TypeOK
<1>2. OneConnection
  BY DEF OneConnection, Tracked, Live
<1>3. EntriesAreLive
  BY DEF EntriesAreLive, Tracked
<1>4. FollowedIsTracked
  BY DEF FollowedIsTracked, Live
<1>5. StartedHaveIds
  BY DEF StartedHaveIds
<1>6. QED
  BY <1>1, <1>2, <1>3, <1>4, <1>5 DEF IInv

LEMMA StepType == TypeOK /\ [Next]_vars => TypeOK'
<1> SUFFICES ASSUME TypeOK, [Next]_vars PROVE TypeOK'
  OBVIOUS
<1> USE ConnectionAssumption DEF TypeOK, mainVars, workerVars
<1>1. CASE Dial
  <2>1. epoch + 1 \in 1 .. MaxConns
    BY <1>1 DEF Dial
  <2>2. pumps' \subseteq Kinds \X (1 .. MaxConns)
    BY <1>1, <2>1 DEF Dial
  <2>3. epoch' \in 0 .. MaxConns
    BY <1>1, <2>1 DEF Dial
  <2>4. QED
    BY <1>1, <2>2, <2>3, Zenon DEF Dial
<1>11. CASE DialFails \/ Retry \/ ConnectReturns
  BY <1>11 DEF DialFails, Retry, ConnectReturns
<1>2. CASE DispatchList \/ LoopEnds \/ WaitEnds \/ ListCancelled \/ ListAnswered
  BY <1>2 DEF DispatchList, LoopEnds, WaitEnds, ListCancelled, ListAnswered
<1>3. CASE LinkDrops \/ Stop
  BY <1>3 DEF LinkDrops, Stop
<1>4. ASSUME NEW k \in Kinds, NEW e \in 1 .. MaxConns, PumpFails(k, e) \/ PumpCancelled(k, e)
      PROVE  TypeOK'
  BY <1>4 DEF PumpFails, PumpCancelled
<1>5. CASE CleanUp
  <2>1. wcancel' \in [Workers -> BOOLEAN]
    BY <1>5, Zenon DEF CleanUp
  <2>2. QED
    BY <1>5, <2>1 DEF CleanUp
<1>6. ASSUME NEW id \in Ids, RejectStream(id) \/ StopStream(id) PROVE TypeOK'
  <2>1. CASE RejectStream(id)
    BY <2>1 DEF RejectStream
  <2>2. CASE StopStream(id)
    <3>1. wcancel' \in [Workers -> BOOLEAN]
      BY <2>2 DEF StopStream
    <3>2. reg' \in [Ids -> Workers \cup {None}]
      BY <2>2 DEF StopStream
    <3>3. QED
      BY <2>2, <3>1, <3>2, Zenon DEF StopStream
  <2>3. QED
    BY <1>6, <2>1, <2>2
<1>7. ASSUME NEW id \in Ids, NEW w \in Workers, StartStream(w, id) PROVE TypeOK'
  BY <1>7 DEF StartStream
<1>8. ASSUME NEW w \in Workers, ContainerStops(w) \/ WorkerStep(w) PROVE TypeOK'
  BY <1>8 DEF ContainerStops, WorkerStep, FollowCancelled, WorkerRemoves
<1>9. CASE UNCHANGED vars
  BY <1>9 DEF vars
<1>10. QED
  BY <1>1, <1>2, <1>3, <1>4, <1>5, <1>6, <1>7, <1>8, <1>9, <1>11 DEF Next, Loop, Reconnect

LEMMA StepOneConnection == IInv /\ [Next]_vars => OneConnection'
<1> SUFFICES ASSUME IInv, [Next]_vars PROVE OneConnection'
  OBVIOUS
<1> USE ConnectionAssumption
        DEF IInv, TypeOK, OneConnection, Away, Tracked, Live, mainVars, workerVars
<1>1. CASE Reconnect
  BY <1>1 DEF Reconnect, Dial, DialFails, Retry, ConnectReturns
<1>2. CASE DispatchList \/ LoopEnds \/ ListCancelled \/ ListAnswered
  BY <1>2 DEF DispatchList, LoopEnds, ListCancelled, ListAnswered
<1>3. CASE WaitEnds
  BY <1>3 DEF WaitEnds
<1>4. CASE LinkDrops \/ Stop
  BY <1>4 DEF LinkDrops, Stop
<1>5. ASSUME NEW k \in Kinds, NEW e \in 1 .. MaxConns, PumpFails(k, e) \/ PumpCancelled(k, e)
      PROVE  OneConnection'
  BY <1>5 DEF PumpFails, PumpCancelled
<1>6. CASE CleanUp
  BY <1>6 DEF CleanUp
<1>7. ASSUME NEW id \in Ids, RejectStream(id) \/ StopStream(id) PROVE OneConnection'
  BY <1>7 DEF RejectStream, StopStream
<1>8. ASSUME NEW id \in Ids, NEW w \in Workers, StartStream(w, id) PROVE OneConnection'
  BY <1>8 DEF StartStream
<1>9. ASSUME NEW w \in Workers, ContainerStops(w) \/ WorkerStep(w) PROVE OneConnection'
  BY <1>9 DEF ContainerStops, WorkerStep, FollowCancelled, WorkerRemoves
<1>10. CASE UNCHANGED vars
  BY <1>10 DEF vars
<1>11. QED
  BY <1>1, <1>2, <1>3, <1>4, <1>5, <1>6, <1>7, <1>8, <1>9, <1>10 DEF Next, Loop

LEMMA StepStartedHaveIds == IInv /\ [Next]_vars => StartedHaveIds'
<1> SUFFICES ASSUME IInv, [Next]_vars PROVE StartedHaveIds'
  OBVIOUS
<1> USE DEF IInv, TypeOK, StartedHaveIds, mainVars, workerVars
<1>1. ASSUME NEW id \in Ids, NEW w \in Workers, StartStream(w, id) PROVE StartedHaveIds'
  BY <1>1 DEF StartStream
<1>2. ASSUME NEW w \in Workers, ContainerStops(w) \/ WorkerStep(w) PROVE StartedHaveIds'
  BY <1>2 DEF ContainerStops, WorkerStep, FollowCancelled, WorkerRemoves
<1>3. CASE UNCHANGED <<wpc, wid>>
  BY <1>3
<1>4. QED
  BY <1>1, <1>2, <1>3 DEF Next, vars, Loop, Reconnect, Dial, DialFails, Retry, ConnectReturns,
     DispatchList, LoopEnds, CleanUp, WaitEnds, ListCancelled, ListAnswered, LinkDrops, Stop,
     PumpFails, PumpCancelled, RejectStream, StopStream

LEMMA StepEntriesAreLive == IInv /\ [Next]_vars => EntriesAreLive'
<1> SUFFICES ASSUME IInv, [Next]_vars PROVE EntriesAreLive'
  OBVIOUS
<1> USE ConnectionAssumption
        DEF IInv, TypeOK, EntriesAreLive, Tracked, Live, mainVars, workerVars
<1>1. CASE UNCHANGED <<reg, wpc, wid, wcancel>>
  BY <1>1
<1>2. CASE CleanUp
  BY <1>2 DEF CleanUp
\* The other entries lead to other workers, for they lead to workers with other ids.
<1>3. ASSUME NEW id \in Ids, StopStream(id) PROVE EntriesAreLive'
  BY <1>3 DEF StopStream
<1>4. ASSUME NEW id \in Ids, NEW w \in Workers, StartStream(w, id) PROVE EntriesAreLive'
  BY <1>4 DEF StartStream
<1>5. ASSUME NEW w \in Workers, ContainerStops(w) \/ FollowCancelled(w) PROVE EntriesAreLive'
  BY <1>5 DEF ContainerStops, FollowCancelled
<1>6. ASSUME NEW w \in Workers, WorkerRemoves(w) PROVE EntriesAreLive'
  BY <1>6 DEF WorkerRemoves
<1>7. QED
  BY <1>1, <1>2, <1>3, <1>4, <1>5, <1>6
     DEF Next, vars, Loop, Reconnect, Dial, DialFails, Retry, ConnectReturns,
     DispatchList, LoopEnds, WaitEnds, ListCancelled, ListAnswered, LinkDrops, Stop,
     PumpFails, PumpCancelled, RejectStream, WorkerStep

\* A worker is started once and keeps its id, its end and its cancellation.
Follows(w) ==
    /\ wpc[w] # "idle" => wpc'[w] # "idle" /\ wid'[w] = wid[w] /\ (wcancel[w] => wcancel'[w])
    /\ wpc[w] = "done" => wpc'[w] = "done"
    /\ Live(w)' => Live(w) \/ \E id \in Ids : StartStream(w, id)

LEMMA StepWorker == ASSUME IInv, [Next]_vars, NEW w \in Workers PROVE Follows(w)
<1> USE DEF Follows, Live
<1>1. ASSUME wpc' = wpc, wid' = wid, wcancel[w] => wcancel'[w] PROVE Follows(w)
  BY <1>1
<1>2. ASSUME NEW id \in Ids, NEW v \in Workers, StartStream(v, id) PROVE Follows(w)
  <2>1. CASE v = w
    BY <1>2, <2>1 DEF StartStream
  <2>2. CASE v # w
    BY <1>2, <2>2 DEF StartStream, IInv, TypeOK
  <2>3. QED
    BY <2>1, <2>2
<1>3. ASSUME NEW v \in Workers, ContainerStops(v) \/ WorkerStep(v) PROVE Follows(w)
  BY <1>3 DEF ContainerStops, WorkerStep, FollowCancelled, WorkerRemoves, IInv, TypeOK, mainVars
<1>4. CASE Reconnect \/ Loop \/ ListAnswered \/ LinkDrops \/ Stop
  <2>1. wpc' = wpc /\ wid' = wid /\ (wcancel[w] => wcancel'[w])
    BY <1>4 DEF Loop, Reconnect, Dial, DialFails, Retry, ConnectReturns, DispatchList, LoopEnds,
                CleanUp, WaitEnds, ListCancelled, ListAnswered, LinkDrops, Stop, workerVars
  <2>2. QED
    BY <1>1, <2>1
<1>5. ASSUME NEW k \in Kinds, NEW e \in 1 .. MaxConns, PumpFails(k, e) \/ PumpCancelled(k, e)
      PROVE  Follows(w)
  <2>1. wpc' = wpc /\ wid' = wid /\ wcancel' = wcancel
    BY <1>5 DEF PumpFails, PumpCancelled, workerVars
  <2>2. QED
    BY <1>1, <2>1
<1>6. ASSUME NEW id \in Ids, RejectStream(id) \/ StopStream(id) PROVE Follows(w)
  <2>1. wpc' = wpc /\ wid' = wid /\ (wcancel[w] => wcancel'[w])
    BY <1>6 DEF RejectStream, StopStream, workerVars, IInv, TypeOK
  <2>2. QED
    BY <1>1, <2>1
<1>7. CASE UNCHANGED vars
  BY <1>1, <1>7 DEF vars, workerVars
<1>8. QED
  BY <1>2, <1>3, <1>4, <1>5, <1>6, <1>7 DEF Next

LEMMA StepLeft ==
    ASSUME IInv, [Next]_vars, NEW id \in Ids, LeftByAStopped(id) PROVE LeftByAStopped(id)'
<1>1. PICK v \in Workers : wpc[v] = "done" /\ wcancel[v] /\ wid[v] = id
  BY DEF LeftByAStopped
<1>2. wpc'[v] = "done" /\ wcancel'[v] /\ wid'[v] = id
  BY <1>1, StepWorker DEF Follows
<1>3. QED
  BY <1>2 DEF LeftByAStopped

\* Only a worker that ends takes an entry away and cancels nobody. When it ends by itself and has
\* lost its own entry before, somebody with the id was stopped already.
LEMMA StepFollowedIsTracked == IInv /\ [Next]_vars => FollowedIsTracked'
<1> DEFINE Kept(w) == \/ reg[wid[w]] = w \/ wcancel[w] \/ connDone
                      \/ LeftByAStopped(wid[w])
<1> SUFFICES ASSUME IInv, [Next]_vars, NEW w \in Workers, Live(w)' PROVE Kept(w)'
  BY Zenon DEF FollowedIsTracked
<1> USE ConnectionAssumption DEF IInv, TypeOK, StartedHaveIds, mainVars, workerVars
<1>1. Live(w) \/ \E id \in Ids : StartStream(w, id)
  BY StepWorker DEF Follows
<1>2. ASSUME NEW id \in Ids, StartStream(w, id) PROVE Kept(w)'
  BY <1>2 DEF StartStream
<1>3. ASSUME Live(w) PROVE Kept(w)'
  <2> wid'[w] = wid[w] /\ wid[w] \in Ids
    BY <1>3, StepWorker DEF Follows, Live
  <2>1. CASE LeftByAStopped(wid[w])
    <3>1. LeftByAStopped(wid[w])'
      BY <2>1, StepLeft DEF LeftByAStopped
    <3>2. QED
      BY <3>1
  <2>2. CASE ~LeftByAStopped(wid[w])
    <3> reg[wid[w]] = w \/ wcancel[w] \/ connDone
      BY <1>3, <2>2, Zenon DEF FollowedIsTracked
    <3>1. CASE UNCHANGED <<reg, wcancel, connDone>>
      BY <3>1
    <3>2. CASE Dial
      BY <1>3, <3>2 DEF Dial, OneConnection, Away, Live
    <3>3. CASE CleanUp
      BY <3>3 DEF CleanUp
    <3>4. ASSUME NEW id \in Ids, StopStream(id) PROVE Kept(w)'
      BY <3>4 DEF StopStream
    <3>5. ASSUME NEW id \in Ids, NEW v \in Workers, StartStream(v, id) PROVE Kept(w)'
      BY <1>3, <3>5 DEF StartStream, Live
    <3>6. ASSUME NEW v \in Workers, WorkerRemoves(v) PROVE Kept(w)'
      <4>1. CASE v = w
        BY <3>6, <4>1 DEF WorkerRemoves, Live
      <4>2. CASE wid[v] # wid[w]
        BY <3>6, <4>2 DEF WorkerRemoves
      <4>3. CASE v # w /\ wid[v] = wid[w]
        <5>1. CASE wcancel[v]
          BY <3>6, <4>3, <5>1 DEF WorkerRemoves, LeftByAStopped
        <5>2. CASE ~wcancel[v]
          <6>1. Live(v)
            BY <3>6 DEF WorkerRemoves, Live
          <6>2. reg[wid[w]] = v \/ connDone
            BY <2>2, <4>3, <5>2, <6>1 DEF FollowedIsTracked
          <6>3. QED
            BY <3>6, <4>3, <6>2 DEF WorkerRemoves
        <5>3. QED
          BY <5>1, <5>2
      <4>4. QED
        BY <4>1, <4>2, <4>3
    <3>7. QED
      BY <3>1, <3>2, <3>3, <3>4, <3>5, <3>6
         DEF Next, vars, Loop, Reconnect, DialFails, Retry, ConnectReturns,
         DispatchList, LoopEnds, WaitEnds, ListCancelled, ListAnswered, LinkDrops, Stop,
         PumpFails, PumpCancelled, RejectStream, WorkerStep, ContainerStops, FollowCancelled
  <2>3. QED
    BY <2>1, <2>2
<1>4. QED
  BY <1>1, <1>2, <1>3

LEMMA Inductive == Spec => []IInv
<1>1. IInv /\ [Next]_vars => IInv'
  BY StepType, StepOneConnection, StepStartedHaveIds, StepEntriesAreLive, StepFollowedIsTracked
     DEF IInv
<1>2. QED
  BY InitIInv, <1>1, PTL DEF Spec

-----------------------------------------------------------------------------
\* The types, for any number of streams and connections: StopStream never indexes the workers with
\* a missing entry, and no goroutine belongs to a connection that was not made.
THEOREM TypeCorrect == Spec => []TypeOK
<1>1. IInv => TypeOK
  BY DEF IInv
<1>2. QED
  BY Inductive, <1>1, PTL

\* When connectOnce returns nothing of its connection is left, however its dispatch loop, its pumps,
\* its stream workers and the agent's shutdown interleave: pumps.Wait waits for all there is.
THEOREM ConnectOnceCleansUp == Spec => []NothingSurvives
<1>1. IInv => NothingSurvives
  BY DEF IInv, OneConnection, NothingSurvives, Away
<1>2. QED
  BY Inductive, <1>1, PTL

\* An entry of the stream registry always leads to a live, uncancelled worker with its stream_id,
\* although remove deletes by id alone and an id may be used again.
THEOREM RegistryIsLive == Spec => []EntriesAreLive
<1>1. IInv => EntriesAreLive
  BY DEF IInv
<1>2. QED
  BY Inductive, <1>1, PTL

\* A live stream can be stopped by its id, as long as no other one with its id was stopped and has
\* ended: no other step of the registry, of a worker or of a connection loses an entry.
THEOREM FollowedCanBeStopped == Spec => []FollowedIsTracked
<1>1. IInv => FollowedIsTracked
  BY DEF IInv
<1>2. QED
  BY Inductive, <1>1, PTL
==============================================================================
