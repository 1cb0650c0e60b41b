----------------------------- MODULE EgressProofs -----------------------------
(***************************************************************************)
(* Theorems about Egress for queues of any capacity and any number of      *)
(* connections and messages. The argument: each queue is first in, first   *)
(* out, also through the pump's hand and over its failed writes, and when  *)
(* the pump is about to write a low message every high one that is still   *)
(* queued came after it (SentInOrder); the pump of a connection fails at   *)
(* most once (LinkAndPump), with a message of each queue in its hand.      *)
(***************************************************************************)
EXTENDS Egress, SequenceTheorems, FiniteSetTheorems, TLAPS

Ascending(s) == \A i, j \in 1 .. Len(s) : i < j => s[i][1] < s[j][1]
Tagged(s, tag) == \A i \in 1 .. Len(s) : s[i][2] = tag
UpTo(s, n) == \A i \in 1 .. Len(s) : s[i][1] <= n
Above(n, s) == \A i \in 1 .. Len(s) : n < s[i][1]

\* Everything that may still enter a queue or be posted has been made.
Accounted == queued + posted + logCh + (IF heart = "idle" THEN 0 ELSE 1) <= made

\* What the pump has in its hand.
InHand ==
    /\ high # None <=> pump \in {"write", "drainWrite"}
    /\ low # None <=> pump \in {"drain", "drainWrite", "writeLow"}

\* A queue and what was taken from it.
InOrder(s, taken, tag) ==
    /\ Ascending(s) /\ Tagged(s, tag) /\ UpTo(s, queued)
    /\ taken # None => taken[2] = tag /\ taken[1] <= queued /\ Above(taken[1], s)

\* A lost message precedes the rest of its queue.
LostInOrder ==
    /\ IsFiniteSet(lost)
    /\ \A m \in lost :
          /\ m[1] <= queued
          /\ m[2] = "high" => Above(m[1], egress) /\ (high # None => m[1] < high[1])
          /\ m[2] = "low" => Above(m[1], egressLow) /\ (low # None => m[1] < low[1])

\* What was written precedes every high message that is left, and a low one every low one too.
SentInOrder ==
    /\ \A i \in 1 .. Len(sent) :
          /\ sent[i][1] <= queued /\ Above(sent[i][1], egress)
          /\ high # None => sent[i][1] < high[1]
          /\ sent[i][2] = "low" => Above(sent[i][1], egressLow) /\ (low # None => sent[i][1] < low[1])
    /\ pump = "writeLow" => Above(low[1], egress)

\* A connection that is up has a pump, and one whose pump runs has lost nothing.
LinkAndPump ==
    /\ link = "up" => pump # "off"
    /\ link = "none" => pump = "off"
    /\ cancelled => link = "broken"
    /\ link # "none" => conns >= 1
    /\ Cardinality(lost) <= 2 * (IF pump = "off" THEN conns ELSE conns - 1)

Balanced ==
    queued = Len(egress) + Len(egressLow) + Len(sent) + Cardinality(lost)
                 + Cardinality({high, low} \ {None})

IInv ==
    /\ TypeOK /\ Accounted /\ InHand
    /\ InOrder(egress, high, "high") /\ InOrder(egressLow, low, "low")
    /\ LostInOrder /\ SentInOrder /\ LinkAndPump /\ Balanced /\ OnlyHighOvertakes

-----------------------------------------------------------------------------
(* Messages and queues. *)

LEMMA MessageFacts ==
    /\ None \notin Message
    /\ \A m \in Message : m[1] \in 1 .. MaxMsgs /\ m[2] \in {"high", "low"}
BY EgressAssumption DEF Message

LEMMA UpToWidens == ASSUME NEW s \in Seq(Message), NEW n \in Nat, UpTo(s, n) PROVE UpTo(s, n + 1)
BY MessageFacts DEF UpTo

LEMMA AppendOrder ==
    ASSUME NEW s \in Seq(Message), NEW n \in Nat, n + 1 <= MaxMsgs, NEW tag \in {"high", "low"},
           Ascending(s), Tagged(s, tag), UpTo(s, n)
    PROVE  LET t == Append(s, <<n + 1, tag>>)
           IN  /\ t \in Seq(Message) /\ Len(t) = Len(s) + 1
               /\ Ascending(t) /\ Tagged(t, tag) /\ UpTo(t, n + 1)
               /\ \A m \in Nat : Above(m, s) /\ m <= n => Above(m, t)
<1> DEFINE t == Append(s, <<n + 1, tag>>)
<1>1. <<n + 1, tag>> \in Message
  BY EgressAssumption DEF Message
<1>2. /\ t \in Seq(Message) /\ Len(t) = Len(s) + 1 /\ t[Len(s) + 1] = <<n + 1, tag>>
      /\ \A i \in 1 .. Len(s) : t[i] = s[i]
  BY <1>1, AppendProperties
<1> HIDE DEF t
<1>3. Len(s) \in Nat /\ 1 .. Len(t) = (1 .. Len(s)) \cup {Len(s) + 1}
  BY <1>2
<1>4. \A i \in 1 .. Len(s) : s[i][1] \in Nat /\ s[i][1] <= n /\ s[i][2] = tag
  BY MessageFacts DEF UpTo, Tagged
<1>5. Ascending(t)
  <2> SUFFICES ASSUME NEW i \in 1 .. Len(t), NEW j \in 1 .. Len(t), i < j PROVE t[i][1] < t[j][1]
    BY DEF Ascending
  <2>1. i \in 1 .. Len(s)
    BY <1>3
  <2>2. CASE j = Len(s) + 1
    BY <1>2, <1>4, <2>1, <2>2
  <2>3. CASE j \in 1 .. Len(s)
    BY <1>2, <2>1, <2>3 DEF Ascending
  <2>4. QED
    BY <1>3, <2>2, <2>3
<1>6. Tagged(t, tag) /\ UpTo(t, n + 1)
  <2>1. \A i \in 1 .. Len(t) : t[i][2] = tag
    BY <1>2, <1>3, <1>4
  <2>2. \A i \in 1 .. Len(t) : t[i][1] <= n + 1
    BY <1>2, <1>3, <1>4
  <2>3. QED
    BY <2>1, <2>2 DEF Tagged, UpTo
<1>7. \A m \in Nat : Above(m, s) /\ m <= n => Above(m, t)
  BY <1>2, <1>3 DEF Above
<1>8. QED
  BY <1>2, <1>5, <1>6, <1>7 DEF t

LEMMA TakeOrder ==
    ASSUME NEW s \in Seq(Message), s # <<>>, NEW n \in Nat, NEW tag,
           Ascending(s), Tagged(s, tag), UpTo(s, n)
    PROVE  /\ Head(s) \in Message /\ Tail(s) \in Seq(Message) /\ Len(Tail(s)) = Len(s) - 1
           /\ Ascending(Tail(s)) /\ Tagged(Tail(s), tag) /\ UpTo(Tail(s), n)
           /\ Head(s)[2] = tag /\ Head(s)[1] <= n /\ Above(Head(s)[1], Tail(s))
           /\ \A m \in Nat : Above(m, s) => Above(m, Tail(s)) /\ m < Head(s)[1]
<1>1. /\ Head(s) \in Message /\ Tail(s) \in Seq(Message) /\ Len(Tail(s)) = Len(s) - 1
      /\ \A i \in 1 .. Len(Tail(s)) : Tail(s)[i] = s[i + 1]
  BY HeadTailProperties
<1>2. Len(s) \in Nat \ {0} /\ Head(s) = s[1]
  BY EmptySeq
<1>3. \A i \in 1 .. Len(Tail(s)) : i + 1 \in 1 .. Len(s)
  BY <1>1, <1>2
<1>4. 1 \in 1 .. Len(s)
  BY <1>2
<1>5. Ascending(Tail(s))
  BY <1>1, <1>3 DEF Ascending
<1>6. Tagged(Tail(s), tag) /\ UpTo(Tail(s), n) /\ Head(s)[2] = tag /\ Head(s)[1] <= n
  BY <1>1, <1>2, <1>3, <1>4 DEF Tagged, UpTo
<1>7. Above(Head(s)[1], Tail(s))
  BY <1>1, <1>2, <1>3, <1>4 DEF Above, Ascending
<1>8. \A m \in Nat : Above(m, s) => Above(m, Tail(s)) /\ m < Head(s)[1]
  BY <1>1, <1>2, <1>3, <1>4 DEF Above
<1>9. QED
  BY <1>1, <1>5, <1>6, <1>7, <1>8

LEMMA AboveEmpty == ASSUME NEW n PROVE Above(n, <<>>)
BY DEF Above

-----------------------------------------------------------------------------
LEMMA InitIInv == Init => IInv
<1> SUFFICES ASSUME Init PROVE IInv
  OBVIOUS
<1> USE EgressAssumption DEF Init
<1>1. TypeOK
  <2>1. <<>> \in Seq(Message) /\ Len(<<>>) = 0
    BY EmptySeq
  <2>2. /\ conns \in 0 .. MaxConns /\ logCh \in 0 .. LogCap /\ made \in 0 .. MaxMsgs
        /\ posted \in 0 .. made /\ queued \in 0 .. made
        /\ Len(egress) <= HighCap /\ Len(egressLow) <= LowCap
    BY <2>1
  <2>3. QED
    BY <2>1, <2>2, Zenon DEF TypeOK
<1>2. Accounted /\ InHand
  BY DEF Accounted, InHand
<1>3. InOrder(egress, high, "high") /\ InOrder(egressLow, low, "low")
  BY DEF InOrder, Ascending, Tagged, UpTo
<1>4. IsFiniteSet(lost) /\ Cardinality(lost) = 0 /\ Cardinality({high, low} \ {None}) = 0
  <2>1. {high, low} \ {None} = {}
    OBVIOUS
  <2>2. QED
    BY <2>1, FS_EmptySet
<1>5. LostInOrder /\ SentInOrder /\ OnlyHighOvertakes
  BY <1>4 DEF LostInOrder, SentInOrder, OnlyHighOvertakes
<1>6. LinkAndPump /\ Balanced
  BY <1>4 DEF LinkAndPump, Balanced
<1>7. QED
  BY <1>1, <1>2, <1>3, <1>5, <1>6 DEF IInv

-----------------------------------------------------------------------------
(* The types, and the account of what was made. *)

LEMMA MakeBounds == ASSUME TypeOK, Make PROVE made' = made + 1 /\ made' \in 0 .. MaxMsgs
BY EgressAssumption DEF TypeOK, Make

\* A message enters a queue only if there is room, and if it was made.
LEMMA PutHighTyped ==
    ASSUME TypeOK, queued < MaxMsgs, HighRoom, PutHigh
    PROVE  egress' \in Seq(Message) /\ Len(egress') = Len(egress) + 1 /\ Len(egress') <= HighCap
<1>1. <<queued + 1, "high">> \in Message
  BY EgressAssumption DEF TypeOK, Message
<1>2. egress' \in Seq(Message) /\ Len(egress') = Len(egress) + 1
  BY <1>1, AppendProperties DEF TypeOK, PutHigh
<1>3. QED
  BY <1>2, EgressAssumption DEF TypeOK, HighRoom

LEMMA OfferLowTyped ==
    ASSUME TypeOK, queued < MaxMsgs, OfferLow
    PROVE  /\ egressLow' \in Seq(Message) /\ Len(egressLow') <= LowCap
           /\ \/ egressLow' = Append(egressLow, <<queued + 1, "low">>) /\ queued' = queued + 1
              \/ UNCHANGED <<egressLow, queued>>
<1>1. CASE Len(egressLow) < LowCap
  <2>1. <<queued + 1, "low">> \in Message
    BY EgressAssumption DEF TypeOK, Message
  <2>2. egressLow' = Append(egressLow, <<queued + 1, "low">>) /\ queued' = queued + 1
    BY <1>1 DEF OfferLow
  <2>5. egressLow' \in Seq(Message) /\ Len(egressLow') = Len(egressLow) + 1
    BY <2>1, <2>2, AppendProperties DEF TypeOK
  <2>3. Len(egressLow) + 1 <= LowCap
    BY <1>1, EgressAssumption DEF TypeOK
  <2>4. QED
    BY <2>2, <2>3, <2>5
<1>2. CASE ~(Len(egressLow) < LowCap)
  BY <1>2 DEF TypeOK, OfferLow
<1>3. QED
  BY <1>1, <1>2

LEMMA StepType == TypeOK /\ Accounted /\ InHand /\ [Next]_vars => TypeOK' /\ Accounted'
<1> SUFFICES ASSUME TypeOK, Accounted, InHand, [Next]_vars PROVE TypeOK' /\ Accounted'
  OBVIOUS
<1> USE EgressAssumption DEF linkVars, queues, pumpVars, streamVars, heartVars, ends
<1>1. CASE LinkBreaks \/ Cancel \/ TornDown
  BY <1>1 DEF LinkBreaks, Cancel, TornDown, TypeOK, Accounted
<1>18. CASE Connect
  <2>1. conns' \in 0 .. MaxConns
    BY <1>18 DEF Connect, TypeOK
  <2>2. QED
    BY <1>18, <2>1 DEF Connect, TypeOK, Accounted
<1>2. CASE Heartbeat
  BY <1>2, MakeBounds DEF Heartbeat, TypeOK, Accounted
<1>3. CASE HeartbeatQueued
  <2>1. queued < made
    BY <1>3 DEF HeartbeatQueued, TypeOK, Accounted
  <2>2. CASE HighRoom
    BY <1>3, <2>1, <2>2, PutHighTyped DEF HeartbeatQueued, PutHigh, TypeOK, Accounted
  <2>3. CASE ~HighRoom
    BY <1>3, <2>3 DEF HeartbeatQueued, TypeOK, Accounted
  <2>4. QED
    BY <2>2, <2>3
<1>4. CASE HeartbeatPosted
  BY <1>4 DEF HeartbeatPosted, TypeOK, Accounted
<1>5. CASE SendError
  <2>1. queued < made' /\ queued < MaxMsgs
    BY <1>5, MakeBounds DEF SendError, Make, TypeOK, Accounted
  <2>2. CASE HighRoom
    <3>1. /\ egress' \in Seq(Message) /\ Len(egress') <= HighCap
          /\ queued' = queued + 1 /\ made' = made + 1 /\ made' \in 0 .. MaxMsgs
      BY <1>5, <2>1, <2>2, MakeBounds, PutHighTyped DEF SendError, PutHigh
    <3>2. queued' \in 0 .. made' /\ posted' \in 0 .. made'
      BY <1>5, <2>1, <3>1 DEF SendError, TypeOK
    <3>3. TypeOK'
      BY <1>5, <3>1, <3>2 DEF SendError, TypeOK
    <3>4. Accounted'
      <4>1. UNCHANGED <<heart, posted, logCh>>
        BY <1>5 DEF SendError
      <4>2. queued \in Nat /\ posted \in Nat /\ logCh \in Nat /\ made \in Nat
        BY DEF TypeOK
      <4>3. QED
        BY <3>1, <4>1, <4>2 DEF Accounted
    <3>5. QED
      BY <3>3, <3>4
  <2>3. CASE ~HighRoom
    BY <1>5, <2>3, MakeBounds DEF SendError, TypeOK, Accounted
  <2>4. QED
    BY <2>2, <2>3
<1>6. CASE AnswerList
  <2>1. queued < made' /\ queued < MaxMsgs
    BY <1>6, MakeBounds DEF AnswerList, Make, TypeOK, Accounted
  <2>2. /\ egressLow' \in Seq(Message) /\ Len(egressLow') <= LowCap
        /\ (queued' = queued \/ queued' = queued + 1) /\ made' = made + 1 /\ made' \in 0 .. MaxMsgs
    BY <1>6, <2>1, MakeBounds, OfferLowTyped DEF AnswerList, TypeOK
  <2>3. queued' \in 0 .. made' /\ posted' \in 0 .. made'
    BY <1>6, <2>1, <2>2 DEF AnswerList, TypeOK
  <2>4. TypeOK'
    BY <1>6, <2>2, <2>3 DEF AnswerList, TypeOK
  <2>5. Accounted'
    <3>1. heart' = heart /\ posted' = posted /\ logCh' = logCh
      BY <1>6 DEF AnswerList
    <3>2. queued \in Nat /\ posted \in Nat /\ logCh \in Nat /\ made \in Nat
      BY DEF TypeOK
    <3>3. QED
      BY <2>2, <3>1, <3>2 DEF Accounted
  <2>6. QED
    BY <2>4, <2>5
<1>7. CASE LineForwarded
  <2>1. queued < made
    BY <1>7 DEF LineForwarded, TypeOK, Accounted
  <2>2. /\ egressLow' \in Seq(Message) /\ Len(egressLow') <= LowCap
        /\ (queued' = queued \/ queued' = queued + 1) /\ made' = made
    BY <1>7, <2>1, OfferLowTyped DEF LineForwarded, TypeOK
  <2>3. queued' \in 0 .. made' /\ posted' \in 0 .. made'
    BY <1>7, <2>1, <2>2 DEF LineForwarded, TypeOK
  <2>4. TypeOK'
    BY <1>7, <2>2, <2>3 DEF LineForwarded, TypeOK
  <2>5. Accounted'
    <3>1. heart' = heart /\ posted' = posted /\ logCh' = logCh - 1
      BY <1>7 DEF LineForwarded
    <3>2. queued \in Nat /\ posted \in Nat /\ logCh \in Nat /\ made \in Nat
      BY DEF TypeOK
    <3>3. QED
      BY <2>2, <3>1, <3>2 DEF Accounted
  <2>6. QED
    BY <2>4, <2>5
<1>8. CASE StreamStarts \/ StreamEnds \/ StreamDrained
  BY <1>8 DEF StreamStarts, StreamEnds, StreamDrained, TypeOK, Accounted
<1>9. CASE LineWritten
  BY <1>9, MakeBounds DEF LineWritten, TypeOK, Accounted
<1>10. CASE PumpCancelled
  BY <1>10 DEF PumpCancelled, TypeOK, Accounted
<1>11. CASE TakeHigh \/ Drain
  <2>1. egress # <<>> => Head(egress) \in Message /\ Tail(egress) \in Seq(Message)
                         /\ Len(Tail(egress)) <= HighCap
    BY HeadTailProperties DEF TypeOK
  <2>2. QED
    BY <1>11, <2>1 DEF TakeHigh, Drain, TypeOK, Accounted
<1>12. CASE TakeLow
  <2>1. Head(egressLow) \in Message /\ Tail(egressLow) \in Seq(Message)
        /\ Len(Tail(egressLow)) <= LowCap
    BY <1>12, HeadTailProperties DEF TakeLow, TypeOK
  <2>2. QED
    BY <1>12, <2>1 DEF TakeLow, TypeOK, Accounted
<1>13. CASE WriteHigh
  <2>1. Append(sent, high) \in Seq(Message)
    BY <1>13, AppendProperties DEF WriteHigh, InHand, TypeOK
  <2>2. QED
    BY <1>13, <2>1 DEF WriteHigh, TypeOK, Accounted
<1>14. CASE WriteLow
  <2>1. Append(sent, low) \in Seq(Message)
    BY <1>14, AppendProperties DEF WriteLow, InHand, TypeOK
  <2>2. QED
    BY <1>14, <2>1 DEF WriteLow, TypeOK, Accounted
<1>15. CASE WriteFails
  BY <1>15 DEF WriteFails, TypeOK, Accounted
<1>16. CASE UNCHANGED vars
  BY <1>16 DEF vars, TypeOK, Accounted
<1>17. QED
  BY <1>1, <1>2, <1>3, <1>4, <1>5, <1>6, <1>7, <1>8, <1>9, <1>10, <1>11, <1>12, <1>13, <1>14,
     <1>15, <1>16, <1>18 DEF Next, HeartStep, Forwarder, PumpStep

-----------------------------------------------------------------------------
(* What the steps do to the messages. *)

Flow ==
    /\ InHand /\ InOrder(egress, high, "high") /\ InOrder(egressLow, low, "low")
    /\ LostInOrder /\ SentInOrder /\ Balanced /\ OnlyHighOvertakes

messages == <<egress, egressLow, queued, high, low, sent, lost>>

LEMMA HandCount ==
    ASSUME NEW h, NEW l, h # None /\ l # None => h # l
    PROVE  /\ IsFiniteSet({h, l} \ {None})
           /\ Cardinality({h, l} \ {None})
                = (IF h = None THEN 0 ELSE 1) + (IF l = None THEN 0 ELSE 1)
<1>1. CASE h = None /\ l = None
  <2>1. {h, l} \ {None} = {}
    BY <1>1
  <2>2. QED
    BY <1>1, <2>1, FS_EmptySet
<1>2. CASE h # None /\ l = None
  <2>1. {h, l} \ {None} = {h}
    BY <1>2
  <2>2. IsFiniteSet({h}) /\ Cardinality({h}) = 1
    BY FS_Singleton
  <2>3. QED
    BY <1>2, <2>1, <2>2
<1>3. CASE h = None /\ l # None
  <2>1. {h, l} \ {None} = {l}
    BY <1>3
  <2>2. QED
    BY <1>3, <2>1, FS_Singleton
<1>4. CASE h # None /\ l # None
  <2>1. {h, l} \ {None} = {h} \cup {l} /\ l \notin {h}
    BY <1>4
  <2>2. IsFiniteSet({h}) /\ Cardinality({h}) = 1
    BY FS_Singleton
  <2>3. QED
    BY <1>4, <2>1, <2>2, FS_AddElement
<1>5. QED
  BY <1>1, <1>2, <1>3, <1>4

LEMMA HandWithoutHigh ==
    ASSUME NEW l
    PROVE  Cardinality({None, l} \ {None}) = IF l = None THEN 0 ELSE 1
<1>1. CASE l = None
  <2>1. {None, l} \ {None} = {}
    BY <1>1
  <2>2. QED
    BY <1>1, <2>1, FS_EmptySet
<1>2. CASE l # None
  <2>1. {None, l} \ {None} = {l}
    BY <1>2
  <2>2. QED
    BY <1>2, <2>1, FS_Singleton
<1>3. QED
  BY <1>1, <1>2

\* The two messages in the hand are of different queues.
LEMMA HandOfFlow ==
    ASSUME TypeOK, Flow
    PROVE  /\ IsFiniteSet({high, low} \ {None})
           /\ Cardinality({high, low} \ {None})
                = (IF high = None THEN 0 ELSE 1) + (IF low = None THEN 0 ELSE 1)
<1>1. high # None /\ low # None => high # low
  BY DEF Flow, InOrder
<1>2. QED
  BY <1>1, HandCount

LEMMA Numbers ==
    ASSUME TypeOK
    PROVE  /\ queued \in Nat
           /\ high # None => high \in Message /\ high[1] \in Nat
           /\ low # None => low \in Message /\ low[1] \in Nat
           /\ \A i \in 1 .. Len(sent) : sent[i][1] \in Nat /\ sent[i][2] \in {"high", "low"}
           /\ \A m \in lost : m[1] \in Nat /\ m[2] \in {"high", "low"}
           /\ Len(egress) \in Nat /\ Len(egressLow) \in Nat /\ Len(sent) \in Nat
BY MessageFacts DEF TypeOK

LEMMA FlowStays ==
    ASSUME Flow, UNCHANGED <<messages, pump>>
    PROVE  Flow'
<1> USE DEF messages
<1>1. InHand' /\ InOrder(egress, high, "high")' /\ InOrder(egressLow, low, "low")'
  BY DEF Flow, InHand, InOrder
<1>2. LostInOrder'
  BY DEF Flow, LostInOrder
<1>3. SentInOrder'
  BY DEF Flow, SentInOrder
<1>4. Balanced' /\ OnlyHighOvertakes'
  BY DEF Flow, Balanced, OnlyHighOvertakes
<1>5. QED
  BY <1>1, <1>2, <1>3, <1>4 DEF Flow

\* The pump starts or ends with nothing in its hand.
LEMMA FlowIdle ==
    ASSUME Flow, UNCHANGED messages, pump \in {"off", "select"}, pump' \in {"off", "select"}
    PROVE  Flow'
<1> USE DEF messages
<1>1. InHand' /\ InOrder(egress, high, "high")' /\ InOrder(egressLow, low, "low")'
  BY DEF Flow, InHand, InOrder
<1>2. LostInOrder'
  BY DEF Flow, LostInOrder
<1>3. SentInOrder'
  BY DEF Flow, SentInOrder
<1>4. Balanced' /\ OnlyHighOvertakes'
  BY DEF Flow, Balanced, OnlyHighOvertakes
<1>5. QED
  BY <1>1, <1>2, <1>3, <1>4 DEF Flow

\* What enters a queue is the newest message of all.
LEMMA FlowPutHigh ==
    ASSUME TypeOK, Flow, queued < MaxMsgs, PutHigh,
           UNCHANGED <<egressLow, high, low, sent, lost, pump>>
    PROVE  Flow'
<1>1. /\ egress' \in Seq(Message) /\ Len(egress') = Len(egress) + 1 /\ queued' = queued + 1
      /\ Ascending(egress') /\ Tagged(egress', "high") /\ UpTo(egress', queued + 1)
      /\ \A m \in Nat : Above(m, egress) /\ m <= queued => Above(m, egress')
  <2>1. /\ egress \in Seq(Message) /\ queued \in Nat /\ queued + 1 <= MaxMsgs
        /\ Ascending(egress) /\ Tagged(egress, "high") /\ UpTo(egress, queued)
    BY EgressAssumption DEF TypeOK, Flow, InOrder
  <2>2. egress' = Append(egress, <<queued + 1, "high">>) /\ queued' = queued + 1
    BY DEF PutHigh
  <2>3. QED
    BY <2>1, <2>2, AppendOrder
<1>2. UpTo(egressLow, queued + 1)
  BY UpToWidens DEF TypeOK, Flow, InOrder
<1>3. InHand' /\ InOrder(egress, high, "high")' /\ InOrder(egressLow, low, "low")'
  BY <1>1, <1>2, Numbers DEF Flow, InHand, InOrder
<1>4. LostInOrder'
  BY <1>1, Numbers DEF Flow, LostInOrder
<1>5. SentInOrder'
  BY <1>1, Numbers DEF Flow, SentInOrder, InOrder, InHand
<1>6. Balanced'
  <2>1. {high', low'} \ {None} = {high, low} \ {None} /\ lost' = lost /\ sent' = sent
    OBVIOUS
  <2>2. Cardinality(lost) \in Nat /\ Cardinality({high, low} \ {None}) \in Nat
    BY HandOfFlow, FS_CardinalityType DEF Flow, LostInOrder
  <2>3. QED
    BY <1>1, <2>1, <2>2, Numbers DEF Flow, Balanced
<1>7. OnlyHighOvertakes'
  BY DEF Flow, OnlyHighOvertakes
<1>8. QED
  BY <1>3, <1>4, <1>5, <1>6, <1>7 DEF Flow

PutLow == egressLow' = Append(egressLow, <<queued + 1, "low">>) /\ queued' = queued + 1

LEMMA FlowPutLow ==
    ASSUME TypeOK, Flow, queued < MaxMsgs, PutLow,
           UNCHANGED <<egress, high, low, sent, lost, pump>>
    PROVE  Flow'
<1>1. /\ egressLow' \in Seq(Message) /\ Len(egressLow') = Len(egressLow) + 1
      /\ queued' = queued + 1
      /\ Ascending(egressLow') /\ Tagged(egressLow', "low") /\ UpTo(egressLow', queued + 1)
      /\ \A m \in Nat : Above(m, egressLow) /\ m <= queued => Above(m, egressLow')
  <2>1. /\ egressLow \in Seq(Message) /\ queued \in Nat /\ queued + 1 <= MaxMsgs
        /\ Ascending(egressLow) /\ Tagged(egressLow, "low") /\ UpTo(egressLow, queued)
    BY EgressAssumption DEF TypeOK, Flow, InOrder
  <2>2. egressLow' = Append(egressLow, <<queued + 1, "low">>) /\ queued' = queued + 1
    BY DEF PutLow
  <2>3. QED
    BY <2>1, <2>2, AppendOrder
<1>2. UpTo(egress, queued + 1)
  BY UpToWidens DEF TypeOK, Flow, InOrder
<1>3. InHand' /\ InOrder(egress, high, "high")' /\ InOrder(egressLow, low, "low")'
  BY <1>1, <1>2, Numbers DEF Flow, InHand, InOrder
<1>4. LostInOrder'
  BY <1>1, Numbers DEF Flow, LostInOrder
<1>5. SentInOrder'
  BY <1>1, Numbers DEF Flow, SentInOrder
<1>6. Balanced'
  <2>1. {high', low'} \ {None} = {high, low} \ {None} /\ lost' = lost /\ sent' = sent
    OBVIOUS
  <2>2. Cardinality(lost) \in Nat /\ Cardinality({high, low} \ {None}) \in Nat
    BY HandOfFlow, FS_CardinalityType DEF Flow, LostInOrder
  <2>3. QED
    BY <1>1, <2>1, <2>2, Numbers DEF Flow, Balanced
<1>7. OnlyHighOvertakes'
  BY DEF Flow, OnlyHighOvertakes
<1>8. QED
  BY <1>3, <1>4, <1>5, <1>6, <1>7 DEF Flow

\* The head of a queue moves into the hand. The pump takes a high message with a low one in it or not.
LEMMA FlowTakeHigh ==
    ASSUME TypeOK, Flow, egress # <<>>, pump \in {"select", "drain"},
           high' = Head(egress), egress' = Tail(egress),
           pump' = IF pump = "select" THEN "write" ELSE "drainWrite",
           UNCHANGED <<egressLow, queued, low, sent, lost>>
    PROVE  Flow'
<1>1. /\ high' \in Message /\ Len(egress') = Len(egress) - 1
      /\ Ascending(egress') /\ Tagged(egress', "high") /\ UpTo(egress', queued)
      /\ high'[2] = "high" /\ high'[1] <= queued /\ Above(high'[1], egress')
      /\ \A m \in Nat : Above(m, egress) => Above(m, egress') /\ m < high'[1]
  BY TakeOrder DEF TypeOK, Flow, InOrder
<1>2. high = None /\ high' # None
  BY <1>1, MessageFacts DEF Flow, InHand
<1>3. InHand' /\ InOrder(egress, high, "high")' /\ InOrder(egressLow, low, "low")'
  BY <1>1, <1>2 DEF Flow, InHand, InOrder
<1>4. LostInOrder'
  BY <1>1, Numbers DEF Flow, LostInOrder
<1>5. SentInOrder'
  BY <1>1, Numbers DEF Flow, SentInOrder
<1>6. Balanced'
  <2>1. Cardinality({high', low} \ {None}) = 1 + (IF low = None THEN 0 ELSE 1)
    BY <1>1, <1>2, HandCount DEF Flow, InOrder
  <2>2. Cardinality({high, low} \ {None}) = IF low = None THEN 0 ELSE 1
    BY <1>2, HandOfFlow
  <2>3. Cardinality(lost) \in Nat
    BY FS_CardinalityType DEF Flow, LostInOrder
  <2>4. {high', low'} = {high', low} /\ sent' = sent /\ egressLow' = egressLow /\ lost' = lost
    OBVIOUS
  <2>5. QED
    BY <1>1, <2>1, <2>2, <2>3, <2>4, Numbers DEF Flow, Balanced
<1>7. OnlyHighOvertakes'
  BY DEF Flow, OnlyHighOvertakes
<1>8. QED
  BY <1>3, <1>4, <1>5, <1>6, <1>7 DEF Flow

LEMMA FlowTakeLow ==
    ASSUME TypeOK, Flow, egressLow # <<>>, pump = "select",
           low' = Head(egressLow), egressLow' = Tail(egressLow), pump' = "drain",
           UNCHANGED <<egress, queued, high, sent, lost>>
    PROVE  Flow'
<1>1. /\ low' \in Message /\ Len(egressLow') = Len(egressLow) - 1
      /\ Ascending(egressLow') /\ Tagged(egressLow', "low") /\ UpTo(egressLow', queued)
      /\ low'[2] = "low" /\ low'[1] <= queued /\ Above(low'[1], egressLow')
      /\ \A m \in Nat : Above(m, egressLow) => Above(m, egressLow') /\ m < low'[1]
  BY TakeOrder DEF TypeOK, Flow, InOrder
<1>2. high = None /\ low = None /\ low' # None
  BY <1>1, MessageFacts DEF Flow, InHand
<1>3. InHand' /\ InOrder(egress, high, "high")' /\ InOrder(egressLow, low, "low")'
  BY <1>1, <1>2 DEF Flow, InHand, InOrder
<1>4. LostInOrder'
  BY <1>1, Numbers DEF Flow, LostInOrder
<1>5. SentInOrder'
  BY <1>1, Numbers DEF Flow, SentInOrder
<1>6. Balanced'
  <2>1. Cardinality({high, low'} \ {None}) = 1
    <3>1. {high, low'} \ {None} = {low'}
      BY <1>2
    <3>2. QED
      BY <3>1, FS_Singleton
  <2>2. Cardinality({high, low} \ {None}) = 0
    BY <1>2, HandOfFlow
  <2>3. Cardinality(lost) \in Nat
    BY FS_CardinalityType DEF Flow, LostInOrder
  <2>4. {high', low'} = {high, low'} /\ sent' = sent /\ egress' = egress /\ lost' = lost
    OBVIOUS
  <2>5. QED
    BY <1>1, <2>1, <2>2, <2>3, <2>4, Numbers DEF Flow, Balanced
<1>7. OnlyHighOvertakes'
  BY DEF Flow, OnlyHighOvertakes
<1>8. QED
  BY <1>3, <1>4, <1>5, <1>6, <1>7 DEF Flow

\* No high message is left: the low one may be written.
LEMMA FlowDrained ==
    ASSUME Flow, egress = <<>>, pump = "drain", pump' = "writeLow", UNCHANGED messages
    PROVE  Flow'
<1> USE DEF messages
<1>1. InHand' /\ InOrder(egress, high, "high")' /\ InOrder(egressLow, low, "low")'
  BY DEF Flow, InHand, InOrder
<1>2. LostInOrder'
  BY DEF Flow, LostInOrder
<1>3. SentInOrder'
  <2>1. Above(low[1], <<>>)
    BY AboveEmpty
  <2>2. QED
    BY <2>1 DEF Flow, SentInOrder
<1>4. Balanced' /\ OnlyHighOvertakes'
  BY DEF Flow, Balanced, OnlyHighOvertakes
<1>5. QED
  BY <1>1, <1>2, <1>3, <1>4 DEF Flow

\* A message from the hand goes to the end of what was written.
LEMMA SentGrows ==
    ASSUME TypeOK, NEW m \in Message, sent' = Append(sent, m)
    PROVE  /\ sent' \in Seq(Message) /\ Len(sent') = Len(sent) + 1 /\ Len(sent) \in Nat
           /\ sent'[Len(sent) + 1] = m /\ \A i \in 1 .. Len(sent) : sent'[i] = sent[i]
           /\ DOMAIN sent = 1 .. Len(sent)
           /\ DOMAIN sent' = (1 .. Len(sent)) \cup {Len(sent) + 1}
           /\ 1 .. Len(sent') = (1 .. Len(sent)) \cup {Len(sent) + 1}
<1>1. /\ sent' \in Seq(Message) /\ Len(sent') = Len(sent) + 1
      /\ sent'[Len(sent) + 1] = m /\ \A i \in 1 .. Len(sent) : sent'[i] = sent[i]
  BY AppendProperties DEF TypeOK
<1>2. Len(sent) \in Nat /\ DOMAIN sent = 1 .. Len(sent)
  BY DEF TypeOK
<1>3. DOMAIN sent' = 1 .. Len(sent')
  BY <1>1
<1>4. 1 .. Len(sent') = (1 .. Len(sent)) \cup {Len(sent) + 1}
  BY <1>1, <1>2
<1>5. QED
  BY <1>1, <1>2, <1>3, <1>4

LEMMA FlowWriteHigh ==
    ASSUME TypeOK, Flow, pump \in {"write", "drainWrite"},
           sent' = Append(sent, high), high' = None,
           pump' = IF pump = "write" THEN "select" ELSE "drain",
           UNCHANGED <<egress, egressLow, queued, low, lost>>
    PROVE  Flow'
<1>1. /\ high \in Message /\ high[1] \in Nat /\ high[2] = "high"
      /\ high[1] <= queued /\ Above(high[1], egress) /\ high # None
  BY Numbers DEF Flow, InHand, InOrder
<1>2. InHand' /\ InOrder(egress, high, "high")' /\ InOrder(egressLow, low, "low")'
  BY <1>1 DEF Flow, InHand, InOrder
<1>3. LostInOrder'
  BY DEF Flow, LostInOrder
<1>4. SentInOrder'
  <2>1. \A i \in 1 .. Len(sent) :
            /\ sent[i][1] <= queued /\ Above(sent[i][1], egress)
            /\ sent[i][2] = "low" => Above(sent[i][1], egressLow)
                                     /\ (low # None => sent[i][1] < low[1])
    BY DEF Flow, SentInOrder
  <2>2. \A i \in 1 .. Len(sent') :
            /\ sent'[i][1] <= queued /\ Above(sent'[i][1], egress)
            /\ sent'[i][2] = "low" => Above(sent'[i][1], egressLow)
                                      /\ (low # None => sent'[i][1] < low[1])
    <3> SUFFICES ASSUME NEW i \in 1 .. Len(sent')
                 PROVE  /\ sent'[i][1] <= queued /\ Above(sent'[i][1], egress)
                        /\ sent'[i][2] = "low" => Above(sent'[i][1], egressLow)
                                                  /\ (low # None => sent'[i][1] < low[1])
      OBVIOUS
    <3>1. CASE i \in 1 .. Len(sent)
      BY <1>1, <2>1, <3>1, SentGrows
    <3>2. CASE i = Len(sent) + 1
      BY <1>1, <3>2, SentGrows
    <3>3. QED
      BY <1>1, <3>1, <3>2, SentGrows
  <2>3. pump' # "writeLow" /\ high' = None
    OBVIOUS
  <2>4. QED
    BY <2>2, <2>3 DEF SentInOrder
<1>5. Balanced'
  <2>1. Cardinality({high, low} \ {None}) = 1 + (IF low = None THEN 0 ELSE 1)
    BY <1>1, HandOfFlow
  <2>2. Cardinality({high', low'} \ {None}) = IF low = None THEN 0 ELSE 1
    BY HandWithoutHigh
  <2>3. Cardinality(lost) \in Nat
    BY FS_CardinalityType DEF Flow, LostInOrder
  <2>4. Len(sent') = Len(sent) + 1
    BY <1>1, SentGrows
  <2>5. QED
    BY <2>1, <2>2, <2>3, <2>4, Numbers DEF Flow, Balanced
<1>6. OnlyHighOvertakes'
  <2> SUFFICES ASSUME NEW i \in DOMAIN sent', NEW j \in DOMAIN sent', i < j
               PROVE  sent'[i][1] < sent'[j][1] \/ (sent'[i][2] = "high" /\ sent'[j][2] = "low")
    BY DEF OnlyHighOvertakes
  <2>1. i \in DOMAIN sent /\ i \in 1 .. Len(sent)
    BY <1>1, SentGrows
  <2>2. CASE j = Len(sent) + 1
    <3>1. sent[i][1] < high[1]
      BY <1>1, <2>1 DEF Flow, SentInOrder
    <3>2. QED
      BY <1>1, <2>1, <2>2, <3>1, SentGrows
  <2>3. CASE j \in DOMAIN sent
    BY <1>1, <2>1, <2>3, SentGrows DEF Flow, OnlyHighOvertakes
  <2>4. QED
    BY <1>1, <2>2, <2>3, SentGrows
<1>7. QED
  BY <1>2, <1>3, <1>4, <1>5, <1>6 DEF Flow

LEMMA FlowWriteLow ==
    ASSUME TypeOK, Flow, pump = "writeLow",
           sent' = Append(sent, low), low' = None, pump' = "select",
           UNCHANGED <<egress, egressLow, queued, high, lost>>
    PROVE  Flow'
<1>1. /\ low \in Message /\ low[1] \in Nat /\ low[2] = "low" /\ low[1] <= queued
      /\ Above(low[1], egressLow) /\ Above(low[1], egress) /\ low # None /\ high = None
  BY Numbers DEF Flow, InHand, InOrder, SentInOrder
<1>2. InHand' /\ InOrder(egress, high, "high")' /\ InOrder(egressLow, low, "low")'
  BY <1>1 DEF Flow, InHand, InOrder
<1>3. LostInOrder'
  BY DEF Flow, LostInOrder
<1>4. SentInOrder'
  <2>1. \A i \in 1 .. Len(sent) :
            /\ sent[i][1] <= queued /\ Above(sent[i][1], egress)
            /\ sent[i][2] = "low" => Above(sent[i][1], egressLow)
    BY DEF Flow, SentInOrder
  <2>2. \A i \in 1 .. Len(sent') :
            /\ sent'[i][1] <= queued /\ Above(sent'[i][1], egress)
            /\ sent'[i][2] = "low" => Above(sent'[i][1], egressLow)
    <3> SUFFICES ASSUME NEW i \in 1 .. Len(sent')
                 PROVE  /\ sent'[i][1] <= queued /\ Above(sent'[i][1], egress)
                        /\ sent'[i][2] = "low" => Above(sent'[i][1], egressLow)
      OBVIOUS
    <3>1. CASE i \in 1 .. Len(sent)
      BY <1>1, <2>1, <3>1, SentGrows
    <3>2. CASE i = Len(sent) + 1
      BY <1>1, <3>2, SentGrows
    <3>3. QED
      BY <1>1, <3>1, <3>2, SentGrows
  <2>3. pump' # "writeLow" /\ high' = None /\ low' = None
    BY <1>1
  <2>4. QED
    BY <2>2, <2>3 DEF SentInOrder
<1>5. Balanced'
  <2>1. Cardinality({high, low} \ {None}) = 1
    BY <1>1, HandOfFlow
  <2>2. Cardinality({high', low'} \ {None}) = 0
    BY <1>1, HandWithoutHigh
  <2>3. Cardinality(lost) \in Nat
    BY FS_CardinalityType DEF Flow, LostInOrder
  <2>4. Len(sent') = Len(sent) + 1
    BY <1>1, SentGrows
  <2>5. QED
    BY <2>1, <2>2, <2>3, <2>4, Numbers DEF Flow, Balanced
<1>6. OnlyHighOvertakes'
  <2> SUFFICES ASSUME NEW i \in DOMAIN sent', NEW j \in DOMAIN sent', i < j
               PROVE  sent'[i][1] < sent'[j][1] \/ (sent'[i][2] = "high" /\ sent'[j][2] = "low")
    BY DEF OnlyHighOvertakes
  <2>1. i \in DOMAIN sent /\ i \in 1 .. Len(sent)
    BY <1>1, SentGrows
  <2>2. CASE j = Len(sent) + 1
    <3>1. sent[i][1] < low[1] \/ sent[i][2] = "high"
      BY <1>1, <2>1, Numbers DEF Flow, SentInOrder
    <3>2. QED
      BY <1>1, <2>1, <2>2, <3>1, SentGrows
  <2>3. CASE j \in DOMAIN sent
    BY <1>1, <2>1, <2>3, SentGrows DEF Flow, OnlyHighOvertakes
  <2>4. QED
    BY <1>1, <2>2, <2>3, SentGrows
<1>7. QED
  BY <1>2, <1>3, <1>4, <1>5, <1>6 DEF Flow

\* A failed write loses the hand, of which nothing was lost before.
LEMMA FlowFails ==
    ASSUME TypeOK, Flow, lost' = lost \cup ({high, low} \ {None}), high' = None, low' = None,
           pump' = "off", UNCHANGED <<egress, egressLow, queued, sent>>
    PROVE  /\ Flow' /\ Cardinality(lost) \in Nat
           /\ Cardinality(lost') \in Nat /\ Cardinality(lost') <= Cardinality(lost) + 2
<1>1. /\ high # None => high[1] \in Nat /\ high[2] = "high" /\ high[1] <= queued
                        /\ Above(high[1], egress)
      /\ low # None => low[1] \in Nat /\ low[2] = "low" /\ low[1] <= queued
                       /\ Above(low[1], egressLow)
  BY Numbers DEF Flow, InOrder
<1>2. InHand' /\ InOrder(egress, high, "high")' /\ InOrder(egressLow, low, "low")'
  BY DEF Flow, InHand, InOrder
<1>3. /\ IsFiniteSet(lost') /\ Cardinality(lost') \in Nat /\ Cardinality(lost) \in Nat
      /\ Cardinality(lost') = Cardinality(lost) + Cardinality({high, low} \ {None})
  <2>1. lost \cap ({high, low} \ {None}) = {}
    BY <1>1, Numbers DEF Flow, LostInOrder
  <2>2. IsFiniteSet(lost) /\ IsFiniteSet({high, low} \ {None})
    BY HandOfFlow DEF Flow, LostInOrder
  <2>3. IsFiniteSet(lost') /\ Cardinality(lost') =
            Cardinality(lost) + Cardinality({high, low} \ {None}) - Cardinality({})
    <3> DEFINE hand == {high, low} \ {None}
    <3> HIDE DEF hand
    <3>1. IsFiniteSet(lost \cup hand) /\ Cardinality(lost \cup hand) =
              Cardinality(lost) + Cardinality(hand) - Cardinality(lost \cap hand)
      BY <2>2, FS_Union DEF hand
    <3>2. QED
      BY <2>1, <3>1 DEF hand
  <2>4. Cardinality({}) = 0
    BY FS_EmptySet
  <2>5. Cardinality(lost) \in Nat /\ Cardinality({high, low} \ {None}) \in Nat
    BY <2>2, FS_CardinalityType
  <2>6. QED
    BY <2>3, <2>4, <2>5
<1>4. LostInOrder'
  BY <1>1, <1>3 DEF Flow, LostInOrder
<1>5. SentInOrder'
  BY DEF Flow, SentInOrder
<1>6. Balanced'
  <2>1. Cardinality({high', low'} \ {None}) = 0
    BY HandCount
  <2>2. Cardinality({high, low} \ {None}) \in Nat
    BY HandOfFlow
  <2>3. QED
    BY <1>3, <2>1, <2>2, Numbers DEF Flow, Balanced
<1>7. OnlyHighOvertakes'
  BY DEF Flow, OnlyHighOvertakes
<1>8. Cardinality({high, low} \ {None}) <= 2
  BY HandOfFlow
<1>9. Cardinality({high, low} \ {None}) \in Nat
  BY HandOfFlow
<1>10. QED
  BY <1>2, <1>3, <1>4, <1>5, <1>6, <1>7, <1>8, <1>9 DEF Flow

-----------------------------------------------------------------------------
(* The steps. *)

LEMMA StepFlow == ASSUME TypeOK, Accounted, LinkAndPump, Flow, [Next]_vars PROVE Flow'
<1> USE DEF linkVars, queues, pumpVars, streamVars, heartVars, ends
<1>1. ASSUME LinkBreaks \/ Cancel \/ TornDown \/ Heartbeat \/ HeartbeatPosted
             \/ StreamStarts \/ LineWritten \/ StreamEnds \/ StreamDrained \/ UNCHANGED vars
      PROVE  Flow'
  <2>1. UNCHANGED <<messages, pump>>
    BY <1>1 DEF LinkBreaks, Cancel, TornDown, Heartbeat, HeartbeatPosted, StreamStarts,
                LineWritten, StreamEnds, StreamDrained, vars, messages
  <2>2. QED
    BY <2>1, FlowStays
<1>2. ASSUME Connect \/ PumpCancelled PROVE Flow'
  <2>1. UNCHANGED messages /\ pump \in {"off", "select"} /\ pump' \in {"off", "select"}
    BY <1>2 DEF Connect, PumpCancelled, LinkAndPump, messages
  <2>2. QED
    BY <2>1, FlowIdle
<1>3. ASSUME HeartbeatQueued \/ SendError PROVE Flow'
  <2>1. UNCHANGED <<egressLow, high, low, sent, lost, pump>>
    BY <1>3 DEF HeartbeatQueued, SendError
  <2>2. queued < MaxMsgs
    BY <1>3, EgressAssumption DEF HeartbeatQueued, SendError, Make, TypeOK, Accounted
  <2>3. CASE HighRoom
    <3>1. PutHigh
      BY <1>3, <2>3 DEF HeartbeatQueued, SendError
    <3>2. QED
      BY <2>1, <2>2, <3>1, FlowPutHigh
  <2>4. CASE ~HighRoom
    <3>1. UNCHANGED <<messages, pump>>
      BY <1>3, <2>1, <2>4 DEF HeartbeatQueued, SendError, messages
    <3>2. QED
      BY <3>1, FlowStays
  <2>5. QED
    BY <2>3, <2>4
<1>4. ASSUME AnswerList \/ LineForwarded PROVE Flow'
  <2>1. UNCHANGED <<egress, high, low, sent, lost, pump>> /\ OfferLow
    BY <1>4 DEF AnswerList, LineForwarded
  <2>2. queued < MaxMsgs
    BY <1>4, EgressAssumption DEF AnswerList, LineForwarded, Make, TypeOK, Accounted
  <2>3. PutLow \/ UNCHANGED <<egressLow, queued>>
    BY <2>1 DEF OfferLow, PutLow
  <2>4. CASE PutLow
    BY <2>1, <2>2, <2>4, FlowPutLow
  <2>5. CASE UNCHANGED <<egressLow, queued>>
    <3>1. UNCHANGED <<messages, pump>>
      BY <2>1, <2>5 DEF messages
    <3>2. QED
      BY <3>1, FlowStays
  <2>6. QED
    BY <2>3, <2>4, <2>5
<1>5. ASSUME TakeHigh PROVE Flow'
  BY <1>5, FlowTakeHigh DEF TakeHigh
<1>6. ASSUME TakeLow PROVE Flow'
  BY <1>6, FlowTakeLow DEF TakeLow
<1>7. ASSUME Drain PROVE Flow'
  <2>1. CASE egress # <<>>
    BY <1>7, <2>1, FlowTakeHigh DEF Drain
  <2>2. CASE egress = <<>>
    <3>1. UNCHANGED messages /\ pump = "drain" /\ pump' = "writeLow"
      BY <1>7, <2>2 DEF Drain, messages
    <3>2. QED
      BY <2>2, <3>1, FlowDrained
  <2>3. QED
    BY <2>1, <2>2
<1>8. ASSUME WriteHigh PROVE Flow'
  BY <1>8, FlowWriteHigh DEF WriteHigh
<1>9. ASSUME WriteLow PROVE Flow'
  BY <1>9, FlowWriteLow DEF WriteLow
<1>10. ASSUME WriteFails PROVE Flow'
  BY <1>10, FlowFails DEF WriteFails
<1>11. QED
  BY <1>1, <1>2, <1>3, <1>4, <1>5, <1>6, <1>7, <1>8, <1>9, <1>10
     DEF Next, HeartStep, Forwarder, PumpStep

\* The pump that fails ends: each connection loses the messages of one hand at most.
LEMMA StepLinkAndPump ==
    ASSUME TypeOK, Flow, LinkAndPump, [Next]_vars
    PROVE  LinkAndPump'
<1> USE DEF linkVars, queues, pumpVars, streamVars, heartVars, ends
<1>1. Cardinality(lost) \in Nat /\ conns \in Nat
  BY FS_CardinalityType, EgressAssumption DEF TypeOK, Flow, LostInOrder
<1>2. ASSUME Connect PROVE LinkAndPump'
  BY <1>1, <1>2 DEF Connect, LinkAndPump
<1>3. ASSUME LinkBreaks \/ Cancel \/ TornDown PROVE LinkAndPump'
  BY <1>3 DEF LinkBreaks, Cancel, TornDown, LinkAndPump
<1>4. ASSUME UNCHANGED <<linkVars, pump, lost>> PROVE LinkAndPump'
  BY <1>4 DEF LinkAndPump
<1>5. ASSUME PumpCancelled PROVE LinkAndPump'
  BY <1>1, <1>5 DEF PumpCancelled, LinkAndPump
<1>6. ASSUME UNCHANGED <<linkVars, lost>>, pump # "off", pump' # "off" PROVE LinkAndPump'
  BY <1>6 DEF LinkAndPump
<1>7. ASSUME WriteFails PROVE LinkAndPump'
  <2>1. Cardinality(lost') \in Nat /\ Cardinality(lost') <= Cardinality(lost) + 2
    BY <1>7, FlowFails DEF WriteFails
  <2>2. QED
    BY <1>1, <1>7, <2>1 DEF WriteFails, LinkAndPump
<1>8. QED
  BY <1>2, <1>3, <1>4, <1>5, <1>6, <1>7
     DEF Next, HeartStep, Forwarder, PumpStep, vars, Heartbeat, HeartbeatQueued, HeartbeatPosted,
         SendError, AnswerList, StreamStarts, LineWritten, LineForwarded, StreamEnds,
         StreamDrained, TakeHigh, TakeLow, Drain, WriteHigh, WriteLow

LEMMA IInvIsFlow == IInv <=> TypeOK /\ Accounted /\ LinkAndPump /\ Flow
BY DEF IInv, Flow

LEMMA Inductive == IInv /\ [Next]_vars => IInv'
<1> SUFFICES ASSUME IInv, [Next]_vars PROVE IInv'
  OBVIOUS
<1>1. TypeOK /\ Accounted /\ LinkAndPump /\ Flow /\ InHand
  BY IInvIsFlow DEF Flow
<1>2. TypeOK' /\ Accounted'
  BY <1>1, StepType
<1>3. Flow'
  BY <1>1, StepFlow
<1>4. LinkAndPump'
  BY <1>1, StepLinkAndPump
<1>5. QED
  BY <1>2, <1>3, <1>4 DEF IInv, Flow

LEMMA Invariance == Spec => []IInv
<1>1. QED
  BY InitIInv, Inductive, PTL DEF Spec

-----------------------------------------------------------------------------
\* The queues stay within their capacities, also when heartbeats, errors, answers and log lines
\* meet a connection that is dead: nobody waits and nothing grows.
THEOREM TypeCorrect == Spec => []TypeOK
<1>1. IInv => TypeOK
  BY DEF IInv
<1>2. QED
  BY <1>1, Invariance, PTL

\* However many connections break, the egress pump writes no message twice and none out of order,
\* except a high one before low ones.
THEOREM HighOvertakesOnly == Spec => []OnlyHighOvertakes
<1>1. IInv => OnlyHighOvertakes
  BY DEF IInv
<1>2. QED
  BY <1>1, Invariance, PTL

\* A connection that breaks costs at most the two messages in its pump's hand, and every queued
\* message is in a queue, in the hand, written or lost in a failed write.
THEOREM LossBounded == Spec => []LossIsBounded
<1>1. IInv => LossIsBounded
  <2> SUFFICES ASSUME IInv PROVE LossIsBounded
    OBVIOUS
  <2>1. Cardinality(lost) \in Nat /\ conns \in Nat
    BY FS_CardinalityType, EgressAssumption DEF IInv, TypeOK, LostInOrder
  <2>2. Cardinality(lost) <= 2 * (IF link = "up" THEN conns - 1 ELSE conns)
    BY <2>1 DEF IInv, LinkAndPump
  <2>3. QED
    BY <2>2 DEF IInv, Balanced, LossIsBounded
<1>2. QED
  BY <1>1, Invariance, PTL
==============================================================================
