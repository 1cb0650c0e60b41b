--------------------------- MODULE LogBatcherProofs ---------------------------
(***************************************************************************)
(* Theorems about LogBatcher for any number of lines and heartbeats. The   *)
(* argument: the buffer, the two requests, what was received and what was  *)
(* lost share out the numbers given (Partition), and a step moves all the  *)
(* lines of one place to another. A poster holds lines only while it posts *)
(* (PostersPost), so a batch that is taken overwrites nothing.             *)
(***************************************************************************)
EXTENDS LogBatcher, SequenceTheorems, FiniteSetTheorems, TLAPS

\* A request is in flight only within a flush of its poster.
PostersPost ==
    /\ flight["job"] # <<>> => jobPc \in {"post", "final"}
    /\ flight["loop"] # <<>> => loopPc = "post"

\* Where a line may be, and the lines each place has.
PlaceNames == {"received", "job", "loop", "buffer", "net", "ctx"}
Got == UNION {Lines(received[i]) : i \in 1 .. Len(received)}
Place ==
    [x \in PlaceNames |->
        CASE x = "received" -> Got
          [] x = "buffer" -> Lines(lines)
          [] x = "net" -> netLost
          [] x = "ctx" -> ctxLost
          [] x = "job" -> Lines(flight["job"])
          [] x = "loop" -> Lines(flight["loop"])]

Partition(F, n) ==
    /\ \A x \in PlaceNames : F[x] \subseteq 1 .. n
    /\ \A m \in 1 .. n : \E x \in PlaceNames : m \in F[x] /\ \A y \in PlaceNames \ {x} : m \notin F[y]

EveryLineHasPlace == Partition(Place, seq)

\* No two received batches share a line.
BatchesDiffer ==
    \A i, j \in 1 .. Len(received) : i # j => Lines(received[i]) \cap Lines(received[j]) = {}

Consecutive(s) == \A k \in 1 .. Len(s) - 1 : s[k + 1] = s[k] + 1

\* The buffer ends with the newest line.
BatchesRun ==
    /\ Consecutive(lines) /\ Consecutive(flight["job"]) /\ Consecutive(flight["loop"])
    /\ \A i \in 1 .. Len(received) : Consecutive(received[i])
    /\ lines # <<>> => lines[Len(lines)] = seq

\* A job that does not write leaves nothing in the buffer: what gathers there meanwhile are
\* heartbeat lines.
FlushedBeforeReport == jobPc # "write" => Lines(lines) \subseteq beats

IInv ==
    /\ TypeOK /\ PostersPost /\ EveryLineHasPlace /\ BatchesDiffer /\ BatchesRun
    /\ FlushedBeforeReport

-----------------------------------------------------------------------------
(* Lines of sequences, and what moving all the lines of a place does to a partition. *)

LEMMA LinesOfEmpty == Lines(<<>>) = {}
BY DEF Lines

LEMMA LinesTyped == ASSUME NEW S, NEW s \in Seq(S) PROVE Lines(s) \subseteq S
BY DEF Lines

LEMMA LinesOfAppend ==
    ASSUME NEW S, NEW s \in Seq(S), NEW e
    PROVE  Lines(Append(s, e)) = Lines(s) \cup {e}
<1>1. Len(Append(s, e)) = Len(s) + 1 /\ Append(s, e)[Len(s) + 1] = e
  OBVIOUS
<1>2. \A i \in 1 .. Len(s) : Append(s, e)[i] = s[i]
  OBVIOUS
<1>3. Len(s) \in Nat /\ 1 .. Len(s) + 1 = (1 .. Len(s)) \cup {Len(s) + 1}
  OBVIOUS
<1>4. QED
  BY <1>1, <1>2, <1>3 DEF Lines

LEMMA SeqWidens == ASSUME NEW n \in Nat, NEW s \in Seq(1 .. n) PROVE s \in Seq(1 .. n + 1)
BY SeqMonotonic, 1 .. n \subseteq 1 .. n + 1

LEMMA MovePartition ==
    ASSUME NEW n \in Nat, NEW F, DOMAIN F = PlaceNames, Partition(F, n),
           NEW a \in PlaceNames, NEW b \in PlaceNames, a # b
    PROVE  Partition([F EXCEPT ![a] = F[a] \cup F[b], ![b] = {}], n)
<1> DEFINE G == [F EXCEPT ![a] = F[a] \cup F[b], ![b] = {}]
<1>1. /\ G[a] = F[a] \cup F[b] /\ G[b] = {}
      /\ \A x \in PlaceNames \ {a, b} : G[x] = F[x]
  OBVIOUS
<1> HIDE DEF G
<1>2. \A x \in PlaceNames : G[x] \subseteq 1 .. n
  BY <1>1 DEF Partition
<1>3. ASSUME NEW m \in 1 .. n
      PROVE  \E x \in PlaceNames : m \in G[x] /\ \A y \in PlaceNames \ {x} : m \notin G[y]
  <2>1. PICK x \in PlaceNames : m \in F[x] /\ \A y \in PlaceNames \ {x} : m \notin F[y]
    BY DEF Partition
  <2>2. CASE x \in {a, b}
    <3>1. m \in G[a] /\ \A y \in PlaceNames \ {a} : m \notin G[y]
      BY <1>1, <2>1, <2>2
    <3>2. QED
      BY <3>1
  <2>3. CASE x \notin {a, b}
    <3>1. m \in G[x] /\ \A y \in PlaceNames \ {x} : m \notin G[y]
      BY <1>1, <2>1, <2>3
    <3>2. QED
      BY <3>1
  <2>4. QED
    BY <2>2, <2>3
<1>4. Partition(G, n)
  BY <1>2, <1>3 DEF Partition
<1>5. QED
  BY <1>4 DEF G

LEMMA GrowPartition ==
    ASSUME NEW n \in Nat, NEW F, DOMAIN F = PlaceNames, Partition(F, n),
           NEW a \in PlaceNames
    PROVE  Partition([F EXCEPT ![a] = F[a] \cup {n + 1}], n + 1)
<1> DEFINE G == [F EXCEPT ![a] = F[a] \cup {n + 1}]
<1>1. G[a] = F[a] \cup {n + 1} /\ \A x \in PlaceNames \ {a} : G[x] = F[x]
  OBVIOUS
<1>2. \A x \in PlaceNames : F[x] \subseteq 1 .. n
  BY DEF Partition
<1> HIDE DEF G
<1>3. \A x \in PlaceNames : G[x] \subseteq 1 .. n + 1
  BY <1>1, <1>2
<1>4. ASSUME NEW m \in 1 .. n + 1
      PROVE  \E x \in PlaceNames : m \in G[x] /\ \A y \in PlaceNames \ {x} : m \notin G[y]
  <2>1. CASE m = n + 1
    <3>1. m \in G[a] /\ \A y \in PlaceNames \ {a} : m \notin G[y]
      BY <1>1, <1>2, <2>1
    <3>2. QED
      BY <3>1
  <2>2. CASE m \in 1 .. n
    <3>1. PICK x \in PlaceNames : m \in F[x] /\ \A y \in PlaceNames \ {x} : m \notin F[y]
      BY <2>2 DEF Partition
    <3>2. m \in G[x] /\ \A y \in PlaceNames \ {x} : m \notin G[y]
      BY <1>1, <2>2, <3>1
    <3>3. QED
      BY <3>2
  <2>3. QED
    BY <2>1, <2>2
<1>5. Partition(G, n + 1)
  BY <1>3, <1>4 DEF Partition
<1>6. QED
  BY <1>5 DEF G

-----------------------------------------------------------------------------
LEMMA InitIInv == Init => IInv
<1> SUFFICES ASSUME Init PROVE IInv
  OBVIOUS
<1> USE DEF Init
<1>1. TypeOK
  <2>1. <<>> \in Seq(1 .. seq) /\ <<>> \in Seq(Seq(1 .. seq))
    BY EmptySeq
  <2>2. QED
    BY <2>1 DEF TypeOK
<1>5. PostersPost
  BY DEF PostersPost, Posters
<1>2. EveryLineHasPlace
  BY LinesOfEmpty DEF EveryLineHasPlace, Partition, Place, PlaceNames, Got, Posters
<1>3. BatchesDiffer /\ BatchesRun /\ FlushedBeforeReport
  BY LinesOfEmpty DEF BatchesDiffer, BatchesRun, Consecutive, FlushedBeforeReport, Posters
<1>4. QED
  BY <1>1, <1>2, <1>3, <1>5 DEF IInv

LEMMA StepType == TypeOK /\ [Next]_vars => TypeOK'
<1> SUFFICES ASSUME TypeOK, [Next]_vars PROVE TypeOK'
  OBVIOUS
<1> USE DEF TypeOK, buffer, contexts, pcs, outcome
<1>1. CASE Write
  <2>1. lines' = Append(lines, seq + 1) /\ seq' = seq + 1 /\ lines \in Seq(1 .. seq')
    BY <1>1, SeqWidens DEF Write, AppendLine
  <2>2. lines' \in Seq(1 .. seq')
    BY <2>1
  <2>3. \A p \in Posters : flight[p] \in Seq(1 .. seq')
    BY <2>1, SeqWidens
  <2>4. received \in Seq(Seq(1 .. seq'))
    BY <2>1, SeqWidens, SeqMonotonic, Seq(1 .. seq) \subseteq Seq(1 .. seq')
  <2>5. 1 .. seq \subseteq 1 .. seq'
    BY <2>1
  <2>6. QED
    BY <1>1, <2>1, <2>2, <2>3, <2>4, <2>5 DEF Write
<1>2. CASE Heartbeat
  <2>1. lines' = Append(lines, seq + 1) /\ seq' = seq + 1 /\ lines \in Seq(1 .. seq')
    BY <1>2, SeqWidens DEF Heartbeat, AppendLine
  <2>2. lines' \in Seq(1 .. seq')
    BY <2>1
  <2>3. \A p \in Posters : flight[p] \in Seq(1 .. seq')
    BY <2>1, SeqWidens
  <2>4. received \in Seq(Seq(1 .. seq'))
    BY <2>1, SeqWidens, SeqMonotonic, Seq(1 .. seq) \subseteq Seq(1 .. seq')
  <2>5. 1 .. seq \subseteq 1 .. seq'
    BY <2>1
  <2>6. QED
    BY <1>2, <2>1, <2>2, <2>3, <2>4, <2>5 DEF Heartbeat
<1>3. CASE FlushNow \/ FinalFlush \/ LoopFlush
  <2>1. lines' \in Seq(1 .. seq)
    BY <1>3, EmptySeq DEF FlushNow, FinalFlush, LoopFlush, TakeBatch
  <2>2. flight' \in [Posters -> Seq(1 .. seq)]
    BY <1>3 DEF FlushNow, FinalFlush, LoopFlush, TakeBatch
  <2>3. QED
    BY <1>3, <2>1, <2>2 DEF FlushNow, FinalFlush, LoopFlush
<1>4. ASSUME NEW p \in Posters, Post(p) PROVE TypeOK'
  <2>1. flight' \in [Posters -> Seq(1 .. seq)]
    BY <1>4, EmptySeq DEF Post, PostDelivered, PostLost, PostAborted, Landed
  <2>2. Lines(flight[p]) \subseteq 1 .. seq
    BY LinesTyped
  <2>3. Append(received, flight[p]) \in Seq(Seq(1 .. seq))
    BY AppendProperties
  <2>4. CASE PostDelivered(p)
    BY <2>1, <2>3, <2>4 DEF PostDelivered
  <2>5. CASE PostLost(p) \/ PostAborted(p)
    BY <2>1, <2>2, <2>5 DEF PostLost, PostAborted
  <2>6. QED
    BY <1>4, <2>4, <2>5 DEF Post
<1>5. ASSUME NEW p \in Posters, FlushReturns(p) PROVE TypeOK'
  BY <1>5 DEF FlushReturns
<1>6. CASE CompleteJob \/ StopLoops \/ LoopStops \/ HeartbeatStops \/ ParentCancelled
  BY <1>6 DEF CompleteJob, StopLoops, LoopStops, HeartbeatStops, ParentCancelled
<1>7. CASE UNCHANGED vars
  BY <1>7 DEF vars
<1>8. QED
  BY <1>1, <1>2, <1>3, <1>4, <1>5, <1>6, <1>7 DEF Next, JobEnds, LoopStep, Over, Posters

LEMMA StepPostersPost == TypeOK /\ PostersPost /\ [Next]_vars => PostersPost'
<1> SUFFICES ASSUME TypeOK, PostersPost, [Next]_vars PROVE PostersPost'
  OBVIOUS
<1> USE DEF TypeOK, PostersPost, Posters, buffer, contexts, pcs, outcome
<1>1. CASE FlushNow \/ FinalFlush \/ LoopFlush
  BY <1>1 DEF FlushNow, FinalFlush, LoopFlush, TakeBatch
<1>2. ASSUME NEW p \in Posters, Post(p) PROVE PostersPost'
  BY <1>2 DEF Post, PostDelivered, PostLost, PostAborted, Landed
<1>3. ASSUME NEW p \in Posters, FlushReturns(p) PROVE PostersPost'
  BY <1>3 DEF FlushReturns
<1>4. CASE Write \/ CompleteJob \/ StopLoops \/ LoopStops \/ Heartbeat \/ HeartbeatStops
           \/ ParentCancelled
  BY <1>4 DEF Write, CompleteJob, StopLoops, LoopStops, Heartbeat, HeartbeatStops, ParentCancelled
<1>5. CASE UNCHANGED vars
  BY <1>5 DEF vars
<1>6. QED
  BY <1>1, <1>2, <1>3, <1>4, <1>5 DEF Next, JobEnds, LoopStep, Over

\* Every line stays in one place: a step is a move of a whole place, or adds the next number.
LEMMA StepHasPlace ==
    TypeOK /\ PostersPost /\ EveryLineHasPlace /\ [Next]_vars => EveryLineHasPlace'
<1> SUFFICES ASSUME TypeOK, PostersPost, EveryLineHasPlace, [Next]_vars PROVE EveryLineHasPlace'
  OBVIOUS
<1>1. DOMAIN Place = PlaceNames /\ seq \in Nat
  BY DEF Place, TypeOK
<1>2. ASSUME NEW a \in PlaceNames, NEW b \in PlaceNames, a # b, seq' = seq,
             Place' = [Place EXCEPT ![a] = Place[a] \cup Place[b], ![b] = {}]
      PROVE  EveryLineHasPlace'
  BY <1>1, <1>2, MovePartition DEF EveryLineHasPlace
<1>3. ASSUME AppendLine, UNCHANGED <<flight, received, netLost, ctxLost>>
      PROVE  EveryLineHasPlace'
  <2>1. Lines(lines') = Lines(lines) \cup {seq + 1} /\ seq' = seq + 1
    BY <1>3, LinesOfAppend DEF AppendLine, TypeOK
  <2>2. Place' = [Place EXCEPT !["buffer"] = Place["buffer"] \cup {seq + 1}]
    BY <1>3, <2>1 DEF Place, PlaceNames, Got
  <2>3. QED
    BY <1>1, <2>1, <2>2, GrowPartition DEF EveryLineHasPlace, PlaceNames
<1>4. ASSUME NEW p \in Posters, flight[p] = <<>>, TakeBatch(p),
             UNCHANGED <<seq, received, netLost, ctxLost>>
      PROVE  EveryLineHasPlace'
  <2>1. Lines(flight[p]) = {} /\ Lines(lines') = {}
    BY <1>4, LinesOfEmpty DEF TakeBatch
  <2>2. Lines(flight'[p]) = Lines(lines) /\ \A q \in Posters \ {p} : flight'[q] = flight[q]
    BY <1>4 DEF TakeBatch, TypeOK
  <2>3. Got' = Got
    BY <1>4 DEF Got
  <2>4. Place' = [Place EXCEPT ![p] = Place[p] \cup Place["buffer"], !["buffer"] = {}]
    <3>1. CASE p = "job"
      BY <1>4, <2>1, <2>2, <2>3, <3>1 DEF Place, PlaceNames, Posters
    <3>2. CASE p = "loop"
      BY <1>4, <2>1, <2>2, <2>3, <3>2 DEF Place, PlaceNames, Posters
    <3>3. QED
      BY <3>1, <3>2 DEF Posters
  <2>5. QED
    BY <1>2, <1>4, <2>4 DEF PlaceNames, Posters
<1>5. ASSUME NEW p \in Posters, Post(p) PROVE EveryLineHasPlace'
  <2>1. Lines(flight'[p]) = {} /\ \A q \in Posters \ {p} : flight'[q] = flight[q]
    BY <1>5, LinesOfEmpty DEF Post, PostDelivered, PostLost, PostAborted, Landed, TypeOK
  <2>2. UNCHANGED <<lines, seq>>
    BY <1>5 DEF Post, PostDelivered, PostLost, PostAborted, buffer
  <2>3. CASE PostDelivered(p)
    <3>1. received' = Append(received, flight[p]) /\ UNCHANGED <<netLost, ctxLost>>
      BY <2>3 DEF PostDelivered
    <3>2. Got' = Got \cup Lines(flight[p])
      <4>1. received \in Seq(Seq(1 .. seq)) /\ flight[p] \in Seq(1 .. seq)
        BY DEF TypeOK
      <4>2. /\ Len(received') = Len(received) + 1 /\ received'[Len(received) + 1] = flight[p]
            /\ \A i \in 1 .. Len(received) : received'[i] = received[i]
        BY <3>1, <4>1, AppendProperties
      <4>3. Len(received) \in Nat
        BY <4>1
      <4>4. 1 .. Len(received') = (1 .. Len(received)) \cup {Len(received) + 1}
        BY <4>2, <4>3
      <4>5. QED
        BY <4>2, <4>4 DEF Got
    <3>3. Place' = [Place EXCEPT !["received"] = Place["received"] \cup Place[p], ![p] = {}]
      BY <2>1, <2>2, <3>1, <3>2 DEF Place, PlaceNames, Posters
    <3>4. QED
      BY <1>2, <2>2, <3>3 DEF PlaceNames, Posters
  <2>4. CASE PostLost(p)
    <3>1. netLost' = netLost \cup Lines(flight[p]) /\ UNCHANGED <<received, ctxLost>>
      BY <2>4 DEF PostLost
    <3>2. Got' = Got
      BY <3>1 DEF Got
    <3>3. Place' = [Place EXCEPT !["net"] = Place["net"] \cup Place[p], ![p] = {}]
      BY <2>1, <2>2, <3>1, <3>2 DEF Place, PlaceNames, Posters
    <3>4. QED
      BY <1>2, <2>2, <3>3 DEF PlaceNames, Posters
  <2>5. CASE PostAborted(p)
    <3>1. ctxLost' = ctxLost \cup Lines(flight[p]) /\ UNCHANGED <<received, netLost>>
      BY <2>5 DEF PostAborted
    <3>2. Got' = Got
      BY <3>1 DEF Got
    <3>3. Place' = [Place EXCEPT !["ctx"] = Place["ctx"] \cup Place[p], ![p] = {}]
      BY <2>1, <2>2, <3>1, <3>2 DEF Place, PlaceNames, Posters
    <3>4. QED
      BY <1>2, <2>2, <3>3 DEF PlaceNames, Posters
  <2>6. QED
    BY <1>5, <2>3, <2>4, <2>5 DEF Post
<1>6. CASE Write \/ Heartbeat
  BY <1>3, <1>6 DEF Write, Heartbeat, outcome
<1>7. CASE FlushNow \/ FinalFlush
  BY <1>4, <1>7 DEF FlushNow, FinalFlush, outcome, PostersPost, Posters
<1>8. CASE LoopFlush
  BY <1>4, <1>8 DEF LoopFlush, outcome, PostersPost, Posters
<1>9. CASE UNCHANGED <<lines, seq, flight, outcome>>
  <2>1. Got' = Got
    BY <1>9 DEF Got, outcome
  <2>2. Place' = Place /\ seq' = seq
    BY <1>9, <2>1 DEF Place, outcome
  <2>3. QED
    BY <2>2 DEF EveryLineHasPlace
<1>10. QED
  <2>1. ASSUME NEW p \in Posters, FlushReturns(p) PROVE UNCHANGED <<lines, seq, flight, outcome>>
    BY <2>1 DEF FlushReturns, buffer
  <2>2. CASE CompleteJob \/ StopLoops \/ LoopStops \/ HeartbeatStops \/ ParentCancelled
             \/ UNCHANGED vars
    BY <1>9, <2>2 DEF CompleteJob, StopLoops, LoopStops, HeartbeatStops, ParentCancelled, vars, buffer
  <2>3. QED
    BY <1>5, <1>6, <1>7, <1>8, <1>9, <2>1, <2>2 DEF Next, JobEnds, LoopStep, Over, Posters

\* A line is in one place only.
LEMMA OnePlace ==
    ASSUME EveryLineHasPlace, NEW x \in PlaceNames, NEW y \in PlaceNames, x # y
    PROVE  Place[x] \cap Place[y] = {}
BY DEF EveryLineHasPlace, Partition

\* What a step does to the batches the control plane has.
LEMMA StepReceived ==
    ASSUME TypeOK, [Next]_vars
    PROVE  \/ UNCHANGED received
           \/ \E p \in Posters : PostDelivered(p)
<1>1. CASE Write \/ FlushNow \/ JobEnds
  BY <1>1 DEF Write, FlushNow, JobEnds, FlushReturns, CompleteJob, FinalFlush, StopLoops, outcome
<1>2. CASE LoopStep \/ Heartbeat \/ HeartbeatStops \/ ParentCancelled \/ Over
  BY <1>2 DEF LoopStep, LoopFlush, LoopStops, FlushReturns, Heartbeat, HeartbeatStops,
              ParentCancelled, Over, vars, outcome
<1>3. CASE \E p \in Posters : Post(p)
  BY <1>3 DEF Post, PostLost, PostAborted
<1>4. CASE UNCHANGED vars
  BY <1>4 DEF vars, outcome
<1>5. QED
  BY <1>1, <1>2, <1>3, <1>4 DEF Next

LEMMA StepBatchesDiffer ==
    TypeOK /\ EveryLineHasPlace /\ BatchesDiffer /\ [Next]_vars => BatchesDiffer'
<1> SUFFICES ASSUME TypeOK, EveryLineHasPlace, BatchesDiffer, [Next]_vars PROVE BatchesDiffer'
  OBVIOUS
<1>1. CASE UNCHANGED received
  BY <1>1 DEF BatchesDiffer
<1>2. ASSUME NEW p \in Posters, PostDelivered(p) PROVE BatchesDiffer'
  <2>1. Got \cap Lines(flight[p]) = {}
    BY OnePlace DEF Place, PlaceNames, Posters
  <2>2. \A i \in 1 .. Len(received) : Lines(received[i]) \cap Lines(flight[p]) = {}
    BY <2>1 DEF Got
  <2>3. /\ Len(received') = Len(received) + 1 /\ received'[Len(received) + 1] = flight[p]
        /\ \A i \in 1 .. Len(received) : received'[i] = received[i]
    BY <1>2, AppendProperties DEF PostDelivered, TypeOK
  <2>4. Len(received) \in Nat
    BY DEF TypeOK
  <2>5. 1 .. Len(received') = (1 .. Len(received)) \cup {Len(received) + 1}
    BY <2>3, <2>4
  <2>6. SUFFICES ASSUME NEW i \in 1 .. Len(received'), NEW j \in 1 .. Len(received'), i # j
                 PROVE  Lines(received'[i]) \cap Lines(received'[j]) = {}
    BY DEF BatchesDiffer
  <2>7. CASE i \in 1 .. Len(received) /\ j \in 1 .. Len(received)
    BY <2>3, <2>6, <2>7 DEF BatchesDiffer
  <2>8. CASE i = Len(received) + 1 /\ j \in 1 .. Len(received)
    BY <2>2, <2>3, <2>8
  <2>9. CASE j = Len(received) + 1 /\ i \in 1 .. Len(received)
    BY <2>2, <2>3, <2>9
  <2>10. QED
    BY <2>5, <2>6, <2>7, <2>8, <2>9
<1>3. QED
  BY <1>1, <1>2, StepReceived

LEMMA ConsecutiveEmpty == Consecutive(<<>>)
BY DEF Consecutive

LEMMA StepBatchesRun == TypeOK /\ BatchesRun /\ [Next]_vars => BatchesRun'
<1> SUFFICES ASSUME TypeOK, BatchesRun, [Next]_vars PROVE BatchesRun'
  OBVIOUS
<1> USE DEF buffer, contexts, pcs, outcome
<1>1. CASE Write \/ Heartbeat
  <2>1. lines' = Append(lines, seq + 1) /\ seq' = seq + 1 /\ UNCHANGED <<flight, received>>
    BY <1>1 DEF Write, Heartbeat, AppendLine
  <2>2. /\ Len(lines) \in Nat /\ Len(lines') = Len(lines) + 1
        /\ lines'[Len(lines) + 1] = seq + 1
        /\ \A k \in 1 .. Len(lines) : lines'[k] = lines[k]
    BY <2>1 DEF TypeOK
  <2>3. ASSUME NEW k \in 1 .. Len(lines') - 1 PROVE lines'[k + 1] = lines'[k] + 1
    <3>1. CASE k = Len(lines)
      BY <2>2, <2>3, <3>1 DEF BatchesRun, TypeOK
    <3>2. CASE k \in 1 .. Len(lines) - 1
      BY <2>2, <3>2 DEF BatchesRun, Consecutive
    <3>3. QED
      BY <2>2, <2>3, <3>1, <3>2
  <2>4. Consecutive(lines')
    BY <2>3 DEF Consecutive
  <2>5. QED
    BY <2>1, <2>2, <2>4 DEF BatchesRun
<1>2. CASE FlushNow \/ FinalFlush \/ LoopFlush
  <2>1. lines' = <<>> /\ UNCHANGED received
    BY <1>2 DEF FlushNow, FinalFlush, LoopFlush, TakeBatch
  <2>2. Consecutive(flight'["job"]) /\ Consecutive(flight'["loop"])
    BY <1>2 DEF FlushNow, FinalFlush, LoopFlush, TakeBatch, BatchesRun, TypeOK, Posters
  <2>3. QED
    BY <2>1, <2>2, ConsecutiveEmpty DEF BatchesRun
<1>3. ASSUME NEW p \in Posters, Post(p) PROVE BatchesRun'
  <2>1. UNCHANGED <<lines, seq>>
    BY <1>3 DEF Post, PostDelivered, PostLost, PostAborted
  <2>2. Consecutive(flight'["job"]) /\ Consecutive(flight'["loop"])
    BY <1>3, ConsecutiveEmpty
       DEF Post, PostDelivered, PostLost, PostAborted, Landed, BatchesRun, TypeOK, Posters
  <2>3. \A i \in 1 .. Len(received') : Consecutive(received'[i])
    <3>1. CASE PostDelivered(p)
      <4>1. /\ Len(received') = Len(received) + 1 /\ received'[Len(received) + 1] = flight[p]
            /\ \A i \in 1 .. Len(received) : received'[i] = received[i]
        BY <3>1, AppendProperties DEF PostDelivered, TypeOK
      <4>2. Len(received) \in Nat /\ Consecutive(flight[p])
        BY DEF TypeOK, BatchesRun, Posters
      <4>3. 1 .. Len(received') = (1 .. Len(received)) \cup {Len(received) + 1}
        BY <4>1, <4>2
      <4>4. QED
        BY <4>1, <4>2, <4>3 DEF BatchesRun
    <3>2. CASE UNCHANGED received
      BY <3>2 DEF BatchesRun
    <3>3. QED
      BY <1>3, <3>1, <3>2 DEF Post, PostLost, PostAborted
  <2>4. QED
    BY <2>1, <2>2, <2>3 DEF BatchesRun
<1>4. CASE UNCHANGED <<lines, seq, flight, received>>
  BY <1>4 DEF BatchesRun
<1>5. CASE CompleteJob \/ StopLoops \/ LoopStops \/ HeartbeatStops \/ ParentCancelled
           \/ UNCHANGED vars
  BY <1>4, <1>5 DEF CompleteJob, StopLoops, LoopStops, HeartbeatStops, ParentCancelled, vars
<1>6. ASSUME NEW p \in Posters, FlushReturns(p) PROVE BatchesRun'
  BY <1>4, <1>6 DEF FlushReturns
<1>7. QED
  BY <1>1, <1>2, <1>3, <1>5, <1>6 DEF Next, JobEnds, LoopStep, Over, Posters

LEMMA StepFlushed == TypeOK /\ FlushedBeforeReport /\ [Next]_vars => FlushedBeforeReport'
<1> SUFFICES ASSUME TypeOK, FlushedBeforeReport, [Next]_vars PROVE FlushedBeforeReport'
  OBVIOUS
<1> USE DEF buffer, contexts, pcs, outcome
<1>1. CASE Write
  BY <1>1 DEF Write, FlushedBeforeReport
<1>2. CASE Heartbeat
  <2>1. Lines(lines') = Lines(lines) \cup {seq + 1}
    BY <1>2, LinesOfAppend DEF Heartbeat, AppendLine, TypeOK
  <2>2. QED
    BY <1>2, <2>1 DEF Heartbeat, FlushedBeforeReport
<1>3. CASE FlushNow \/ FinalFlush \/ LoopFlush
  BY <1>3, LinesOfEmpty DEF FlushNow, FinalFlush, LoopFlush, TakeBatch, FlushedBeforeReport
<1>4. ASSUME NEW p \in Posters, Post(p) \/ FlushReturns(p) PROVE FlushedBeforeReport'
  BY <1>4 DEF Post, PostDelivered, PostLost, PostAborted, FlushReturns, FlushedBeforeReport
<1>5. CASE CompleteJob \/ StopLoops \/ LoopStops \/ HeartbeatStops \/ ParentCancelled
           \/ UNCHANGED vars
  BY <1>5 DEF CompleteJob, StopLoops, LoopStops, HeartbeatStops, ParentCancelled, vars,
              FlushedBeforeReport
<1>6. QED
  BY <1>1, <1>2, <1>3, <1>4, <1>5 DEF Next, JobEnds, LoopStep, Over, Posters

LEMMA Inductive == Spec => []IInv
<1>1. IInv /\ [Next]_vars => IInv'
  BY StepType, StepPostersPost, StepHasPlace, StepBatchesDiffer, StepBatchesRun, StepFlushed
     DEF IInv
<1>2. QED
  BY InitIInv, <1>1, PTL DEF Spec

-----------------------------------------------------------------------------
(* From the places to the count of EveryLineOnce. *)

LEMMA BatchesShape ==
    ASSUME TypeOK
    PROVE  /\ Len(received) \in Nat /\ Len(Batches) = Len(received) + 3
           /\ \A i \in 1 .. Len(received) : Batches[i] = received[i]
           /\ Batches[Len(received) + 1] = flight["job"]
           /\ Batches[Len(received) + 2] = flight["loop"]
           /\ Batches[Len(received) + 3] = lines
<1> DEFINE last == <<flight["job"], flight["loop"], lines>>
<1>1. /\ last \in Seq(Seq(1 .. seq)) /\ Len(last) = 3
      /\ last[1] = flight["job"] /\ last[2] = flight["loop"] /\ last[3] = lines
  BY DEF TypeOK, Posters
<1>2. received \in Seq(Seq(1 .. seq)) /\ Len(received) \in Nat
  BY DEF TypeOK
<1> HIDE DEF last
<1>3. /\ Len(received \o last) = Len(received) + Len(last)
      /\ \A i \in 1 .. Len(received) + Len(last) :
            (received \o last)[i] = IF i <= Len(received) THEN received[i]
                                                         ELSE last[i - Len(received)]
  BY <1>1, <1>2, ConcatProperties
<1>4. Batches = received \o last
  BY DEF Batches, last
<1>5. QED
  BY <1>1, <1>2, <1>3, <1>4

LEMMA HomesCount ==
    ASSUME IInv, NEW n \in 1 .. seq
    PROVE  /\ n \in Got \cup Lines(flight["job"]) \cup Lines(flight["loop"]) \cup Lines(lines) =>
                  Homes(n) = 1 /\ n \notin netLost /\ n \notin ctxLost
           /\ n \notin Got \cup Lines(flight["job"]) \cup Lines(flight["loop"]) \cup Lines(lines) =>
                  Homes(n) = 0
<1> DEFINE H == {i \in 1 .. Len(Batches) : n \in Lines(Batches[i])}
           N == Len(received)
<1>1. /\ N \in Nat /\ 1 .. Len(Batches) = (1 .. N) \cup {N + 1, N + 2, N + 3}
      /\ \A i \in 1 .. N : Batches[i] = received[i]
      /\ Batches[N + 1] = flight["job"] /\ Batches[N + 2] = flight["loop"]
      /\ Batches[N + 3] = lines
  BY BatchesShape DEF IInv
<1>2. /\ Got \cap Lines(flight["job"]) = {} /\ Got \cap Lines(flight["loop"]) = {}
      /\ Got \cap Lines(lines) = {} /\ Lines(flight["job"]) \cap Lines(flight["loop"]) = {}
      /\ Lines(flight["job"]) \cap Lines(lines) = {}
      /\ Lines(flight["loop"]) \cap Lines(lines) = {}
  BY OnePlace DEF IInv, Place, PlaceNames
<1>3. ASSUME n \in Got \cup Lines(flight["job"]) \cup Lines(flight["loop"]) \cup Lines(lines)
      PROVE  n \notin netLost /\ n \notin ctxLost
  <2>1. PICK x \in {"received", "job", "loop", "buffer"} : n \in Place[x]
    BY <1>3 DEF Place, PlaceNames
  <2>2. Place["net"] = netLost /\ Place["ctx"] = ctxLost
    BY DEF Place, PlaceNames
  <2>3. QED
    BY <2>1, <2>2, OnePlace DEF IInv, PlaceNames
<1>4. ASSUME NEW i \in H, NEW j \in H PROVE i = j
  <2>1. i \in 1 .. N => n \in Got
    BY <1>1, <1>4 DEF Got
  <2>2. j \in 1 .. N => n \in Got
    BY <1>1, <1>4 DEF Got
  <2>3. i \in 1 .. N /\ j \in 1 .. N => i = j
    BY <1>1, <1>4 DEF IInv, BatchesDiffer
  <2>4. QED
    BY <1>1, <1>2, <1>4, <2>1, <2>2, <2>3
<1>5. H # {} <=> n \in Got \cup Lines(flight["job"]) \cup Lines(flight["loop"]) \cup Lines(lines)
  BY <1>1 DEF Got
<1>6. Homes(n) = Cardinality(H)
  BY DEF Homes
<1>7. CASE H = {}
  BY <1>5, <1>6, <1>7, FS_EmptySet
<1>8. CASE H # {}
  <2>1. PICK i \in H : H = {i}
    BY <1>4, <1>8
  <2>2. Cardinality(H) = 1
    BY <2>1, FS_Singleton
  <2>3. QED
    BY <1>3, <1>5, <1>6, <1>8, <2>2
<1>9. QED
  BY <1>7, <1>8

LEMMA LineCounted ==
    ASSUME IInv, NEW n \in 1 .. seq
    PROVE  Homes(n) + Cardinality({n} \cap netLost) + Cardinality({n} \cap ctxLost) = 1
<1> DEFINE Home == n \in Got \cup Lines(flight["job"]) \cup Lines(flight["loop"]) \cup Lines(lines)
<1>1. PICK x \in PlaceNames : n \in Place[x] /\ \A y \in PlaceNames \ {x} : n \notin Place[y]
  BY DEF IInv, EveryLineHasPlace, Partition
<1>2. /\ Home => n \notin netLost /\ n \notin ctxLost
      /\ ~Home => (n \in netLost /\ n \notin ctxLost) \/ (n \in ctxLost /\ n \notin netLost)
  <2>1. /\ Place["received"] = Got /\ Place["job"] = Lines(flight["job"])
        /\ Place["loop"] = Lines(flight["loop"]) /\ Place["buffer"] = Lines(lines)
        /\ Place["net"] = netLost /\ Place["ctx"] = ctxLost
    BY DEF Place, PlaceNames
  <2>2. Home => n \notin netLost /\ n \notin ctxLost
    BY HomesCount
  <2>3. ~Home => x \in {"net", "ctx"}
    BY <1>1, <2>1 DEF PlaceNames
  <2>4. QED
    BY <1>1, <2>1, <2>2, <2>3 DEF PlaceNames
<1>3. ASSUME NEW S PROVE Cardinality({n} \cap S) = IF n \in S THEN 1 ELSE 0
  <2>1. CASE n \in S
    <3>1. {n} \cap S = {n}
      BY <2>1
    <3>2. QED
      BY <2>1, <3>1, FS_Singleton
  <2>2. CASE n \notin S
    <3>1. {n} \cap S = {}
      BY <2>2
    <3>2. QED
      BY <2>2, <3>1, FS_EmptySet
  <2>3. QED
    BY <2>1, <2>2
<1>4. Homes(n) = IF Home THEN 1 ELSE 0
  BY HomesCount
<1> HIDE DEF Home
<1>5. Cardinality({n} \cap netLost) = IF n \in netLost THEN 1 ELSE 0
  BY <1>3
<1>6. Cardinality({n} \cap ctxLost) = IF n \in ctxLost THEN 1 ELSE 0
  BY <1>3
<1>7. QED
  BY <1>2, <1>4, <1>5, <1>6

-----------------------------------------------------------------------------
\* The types, for any number of lines: every batch holds numbers that were given.
THEOREM TypeCorrect == Spec => []TypeOK
<1>1. IInv => TypeOK
  BY DEF IInv
<1>2. QED
  BY Inductive, <1>1, PTL

\* No line is posted twice or forgotten, and every request carries consecutive numbers, however
\* the periodic, the explicit and the final flush overlap and however many lines there are.
THEOREM LinesKept == Spec => []EveryLineOnce
<1>1. IInv => EveryLineOnce
  <2> SUFFICES ASSUME IInv PROVE EveryLineOnce
    OBVIOUS
  <2>1. \A i \in 1 .. Len(Batches) : Consecutive(Batches[i])
    <3>1. /\ Len(received) \in Nat /\ Len(Batches) = Len(received) + 3
          /\ \A i \in 1 .. Len(received) : Batches[i] = received[i]
          /\ Batches[Len(received) + 1] = flight["job"]
          /\ Batches[Len(received) + 2] = flight["loop"]
          /\ Batches[Len(received) + 3] = lines
      BY BatchesShape DEF IInv
    <3>2. 1 .. Len(Batches)
            = (1 .. Len(received)) \cup {Len(received) + 1, Len(received) + 2, Len(received) + 3}
      BY <3>1
    <3>3. QED
      BY <3>1, <3>2 DEF IInv, BatchesRun
  <2>2. QED
    BY <2>1, LineCounted DEF EveryLineOnce, Consecutive
<1>2. QED
  BY Inductive, <1>1, PTL

\* The result is never reported while a line of the job is in the buffer.
THEOREM FlushedFirst == Spec => []ReportAfterFlush
<1>1. IInv => ReportAfterFlush
  BY DEF IInv, FlushedBeforeReport, ReportAfterFlush
<1>2. QED
  BY Inductive, <1>1, PTL
==============================================================================
