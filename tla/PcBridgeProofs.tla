--------------------------- MODULE PcBridgeProofs ---------------------------
(***************************************************************************)
(* Proofs about the export queue of module PcBridge, for every queue       *)
(* length, sequence range and number of boots.                             *)
(*                                                                         *)
(* The counting argument needs one fact that is not about counting: when   *)
(* enqueue reaches its second xQueueSend, there is room in the queue.      *)
(* Nobody else sends, so the room made by the xQueueReceive, or found by   *)
(* it in an empty queue, is still there.  Without it the record in hand    *)
(* would be lost and not counted.                                          *)
(*                                                                         *)
(* The second half follows a record over the cable: the gap that the       *)
(* ground station computes between two sequence numbers is the number of   *)
(* records lost between them, up to whole turns of the sequence counter,   *)
(* and what is displayed comes from one boot of the transmitter.           *)
(***************************************************************************)
EXTENDS PcBridge, TLAPS

\* Where the control task is in enqueue.
EnqueueStep ==
    /\ pc \in {"discard", "resend"} => ready /\ Len(pending) = 1
    /\ pc \notin {"discard", "resend"} => pending = <<>>
    /\ pc = "resend" => Len(queue) < EXPORT_QUEUE_LENGTH

\* The part of the type invariant that the counting argument uses.
QueueType ==
    /\ ready \in BOOLEAN
    /\ made \in [MessageType -> Nat]
    /\ drops \in Nat /\ written \in Nat
    /\ pending \in Seq(ExportItem)
    /\ queue \in Seq(ExportItem) /\ Len(queue) <= EXPORT_QUEUE_LENGTH
    /\ hand \in Seq(ExportItem) /\ Len(hand) <= 1
    /\ fcNext \in FcPacket /\ fcNext.start <= fcNext.number
    /\ boot \in 1 .. MaxBoots /\ uptime \in 0 .. MaxUptime
    /\ nextSequence \in [MessageType -> 0 .. SequenceModulus - 1]

\* NewestRecordsWait, said of the queue and of the record being enqueued.
NumbersInOrder ==
    ready =>
        /\ \A i \in 1 .. Len(queue) :
               queue[i].number = Total - Len(pending) - Len(queue) + i - 1
        /\ \A i \in 1 .. Len(pending) :
               pending[i].number = Total - Len(pending) + i - 1

\* The parts of the inductive invariant.
IInv == QueueType /\ EnqueueStep /\ EveryLossIsCounted /\ NumbersInOrder

-----------------------------------------------------------------------------
(* Facts about the sequences a queue goes through.                          *)

\* Appending keeps the old records in place and puts the new one last.
LEMMA AppendFacts ==
    ASSUME NEW S, NEW s \in Seq(S), NEW x \in S
    PROVE  /\ Append(s, x) \in Seq(S) /\ Len(Append(s, x)) = Len(s) + 1
           /\ \A i \in 1 .. Len(s) : Append(s, x)[i] = s[i]
           /\ Append(s, x)[Len(s) + 1] = x
  OBVIOUS

\* Every element after an append was there or is the appended one.
LEMMA AppendElements ==
    ASSUME NEW S, NEW s \in Seq(S), NEW x \in S
    PROVE  \A i \in 1 .. Len(Append(s, x)) :
              \/ Append(s, x)[i] = x
              \/ i \in 1 .. Len(s) /\ Append(s, x)[i] = s[i]
  OBVIOUS

\* Removing the front of a queue moves every other record up by one.
LEMMA TailFacts ==
    ASSUME NEW S, NEW s \in Seq(S), s # <<>>
    PROVE  /\ Tail(s) \in Seq(S) /\ Len(Tail(s)) = Len(s) - 1
           /\ \A i \in 1 .. Len(s) - 1 : Tail(s)[i] = s[i + 1]
           /\ Head(s) \in S /\ Head(s) = s[1]
  OBVIOUS

\* Concatenation keeps the records of both parts in place.
LEMMA ConcatFacts ==
    ASSUME NEW S, NEW s \in Seq(S), NEW u \in Seq(S)
    PROVE  /\ s \o u \in Seq(S) /\ Len(s \o u) = Len(s) + Len(u)
           /\ \A i \in 1 .. Len(s) : (s \o u)[i] = s[i]
           /\ \A i \in 1 .. Len(u) : (s \o u)[Len(s) + i] = u[i]
  OBVIOUS

\* The length of a queue is a number, not zero unless it is empty.
LEMMA NonEmptyFacts ==
    ASSUME NEW S, NEW s \in Seq(S)
    PROVE  /\ Len(s) \in Nat
           /\ s # <<>> => Len(s) # 0
           /\ Len(s) = 1 => s[1] \in S
  OBVIOUS

\* What NumbersInOrder says of the two parts holds of the records that wait.
LEMMA NumbersGiveOrder ==
    ASSUME QueueType, NumbersInOrder
    PROVE  NewestRecordsWait
<1> SUFFICES ASSUME ready, NEW i \in 1 .. Len(queue \o pending)
             PROVE  (queue \o pending)[i].number
                        = Total - Len(queue \o pending) + i - 1
    BY DEF NewestRecordsWait
<1>1. Total \in Nat
    BY DEF QueueType, Total, MessageType
<1>2. /\ queue \in Seq(ExportItem) /\ pending \in Seq(ExportItem)
      /\ Len(queue) \in Nat /\ Len(pending) \in Nat
    BY DEF QueueType
<1>3. Len(queue \o pending) = Len(queue) + Len(pending)
    BY <1>2, ConcatFacts
<1>4. CASE i \in 1 .. Len(queue)
  <2>1. (queue \o pending)[i] = queue[i]
      BY <1>2, <1>4, ConcatFacts
  <2> QED BY <2>1, <1>1, <1>2, <1>3, <1>4 DEF NumbersInOrder
<1>5. CASE i \notin 1 .. Len(queue)
  <2> DEFINE k == i - Len(queue)
  <2>1. k \in 1 .. Len(pending) /\ i = Len(queue) + k
      BY <1>2, <1>3, <1>5
  <2>2. (queue \o pending)[Len(queue) + k] = pending[k]
      BY <1>2, <2>1, ConcatFacts
  <2>3. pending[k].number = Total - Len(pending) + k - 1
      BY <2>1 DEF NumbersInOrder
  <2> QED BY <2>1, <2>2, <2>3, <1>1, <1>2, <1>3
<1> QED BY <1>4, <1>5

-----------------------------------------------------------------------------
(* The inductive step, one lemma per action that moves a record.            *)

\* An empty queue satisfies the invariant.
LEMMA InitHolds ==
    Init => IInv
<1> SUFFICES ASSUME Init PROVE IInv
    OBVIOUS
<1>1. fcNext \in FcPacket /\ fcNext.start <= fcNext.number
    BY DEF Init, FcPacket
<1> QED
    BY <1>1, PcBridgeAssumption
    DEF Init, Booted, IInv, QueueType, EnqueueStep, EveryLossIsCounted,
        NumbersInOrder, Total, Zero, MessageType

\* A reboot starts again with an empty queue and no records.
LEMMA RebootKeeps ==
    ASSUME IInv, Reboot
    PROVE  IInv'
  BY PcBridgeAssumption
  DEF Reboot, IInv, QueueType, EnqueueStep, EveryLossIsCounted,
      NumbersInOrder, Total, Zero, MessageType

\* A record is numbered and appended, or kept until there is room for it.
LEMMA PublishKeeps ==
    ASSUME IInv, NEW t \in MessageType, NEW p \in FcPacket, Publish(t, p),
           fcNext' \in FcPacket, fcNext'.start <= fcNext'.number,
           pc \in {"receive", "status"}
    PROVE  IInv'
<1> DEFINE item == [type |-> t, sequence |-> nextSequence[t],
                    timestamp |-> uptime, packet |-> p,
                    number |-> Total, serial |-> made[t],
                    boot |-> boot]
<1>1. /\ Total \in Nat /\ Total' = Total + 1
      /\ made' \in [MessageType -> Nat]
  <2>1. made' = [made EXCEPT ![t] = @ + 1] /\ made \in [MessageType -> Nat]
      BY DEF Publish, IInv, QueueType
  <2> QED BY <2>1 DEF Total, MessageType
<1>2. nextSequence' \in [MessageType -> 0 .. SequenceModulus - 1]
    BY PcBridgeAssumption, SMTT(30) DEF Publish, Successor, IInv, QueueType
<1>3. item \in ExportItem /\ item.number = Total
    BY <1>1 DEF ExportItem, IInv, QueueType
<1>4. /\ pending = <<>> /\ Len(pending) = 0
      /\ queue \in Seq(ExportItem) /\ Len(queue) \in Nat
      /\ Len(hand) \in Nat /\ drops \in Nat /\ written \in Nat
    BY DEF IInv, EnqueueStep, QueueType
<1>5. /\ After(t) \notin {"discard", "resend"}
      /\ UNCHANGED <<boot, ready, uptime, drops, hand, written>>
    BY DEF After, Publish
<1> HIDE DEF item
<1>6. CASE ~ready /\ pc' = After(t) /\ UNCHANGED <<queue, pending>>
    BY <1>1, <1>2, <1>4, <1>5, <1>6
    DEF IInv, QueueType, EnqueueStep, EveryLossIsCounted, NumbersInOrder
<1>7. CASE /\ ready /\ Len(queue) < EXPORT_QUEUE_LENGTH
           /\ queue' = Append(queue, item)
           /\ pc' = After(t) /\ UNCHANGED pending
  <2>1. /\ queue' \in Seq(ExportItem) /\ Len(queue') = Len(queue) + 1
        /\ \A i \in 1 .. Len(queue) : queue'[i] = queue[i]
        /\ queue'[Len(queue) + 1] = item
      BY <1>3, <1>4, <1>7, AppendFacts
  <2>2. QueueType' /\ EnqueueStep'
      BY <1>1, <1>2, <1>4, <1>5, <1>7, <2>1, PcBridgeAssumption
      DEF IInv, QueueType, EnqueueStep
  <2>3. EveryLossIsCounted'
      BY <1>1, <1>4, <1>5, <1>7, <2>1 DEF IInv, EveryLossIsCounted
  <2>4. NumbersInOrder'
    <3>1. \A i \in 1 .. Len(queue) :
              queue[i].number = Total - Len(queue) + i - 1
        BY <1>1, <1>4, <1>7, SMTT(30) DEF IInv, NumbersInOrder
    <3>2. \A i \in 1 .. Len(queue) + 1 :
              queue'[i].number = Total' - Len(queue') + i - 1
      <4> TAKE i \in 1 .. Len(queue) + 1
      <4>1. CASE i = Len(queue) + 1
          BY <4>1, <1>1, <1>3, <1>4, <2>1
      <4>2. CASE i \in 1 .. Len(queue)
        <5>1. queue'[i] = queue[i]
            BY <4>2, <2>1
        <5>2. queue[i].number = Total - Len(queue) + i - 1
            BY <4>2, <3>1
        <5> QED BY <5>1, <5>2, <1>1, <1>4, <2>1
      <4> QED BY <4>1, <4>2, <1>4
    <3>3. pending' = <<>> /\ Len(pending') = 0
        BY <1>4, <1>7
    <3> QED BY <3>2, <3>3, <1>1, <2>1, <1>4 DEF NumbersInOrder
  <2> QED BY <2>2, <2>3, <2>4 DEF IInv
<1>8. CASE /\ ready /\ Len(queue) = EXPORT_QUEUE_LENGTH
           /\ pending' = <<item>> /\ pc' = "discard" /\ UNCHANGED queue
  <2>1. /\ pending' \in Seq(ExportItem) /\ Len(pending') = 1
        /\ pending'[1] = item
      BY <1>3, <1>8
  <2>2. QueueType' /\ EnqueueStep'
      BY <1>1, <1>2, <1>4, <1>5, <1>8, <2>1 DEF IInv, QueueType, EnqueueStep
  <2>3. EveryLossIsCounted'
      BY <1>1, <1>4, <1>5, <1>8, <2>1, SMTT(30) DEF IInv, EveryLossIsCounted
  <2>4. NumbersInOrder'
    <3>1. \A i \in 1 .. Len(queue) :
              queue[i].number = Total - Len(queue) + i - 1
        BY <1>1, <1>4, <1>8, SMTT(30) DEF IInv, NumbersInOrder
    <3>2. ASSUME NEW i \in 1 .. Len(queue')
          PROVE  queue'[i].number
                     = Total' - Len(pending') - Len(queue') + i - 1
        BY <1>1, <1>4, <1>8, <2>1, <3>1
    <3>3. \A i \in 1 .. Len(pending') :
              pending'[i].number = Total' - Len(pending') + i - 1
        BY <1>1, <1>3, <2>1
    <3> QED BY <3>2, <3>3 DEF NumbersInOrder
  <2> QED BY <2>2, <2>3, <2>4 DEF IInv
<1> QED BY <1>6, <1>7, <1>8 DEF Publish, item

\* What the flight controller does when it sends a packet or restarts.
FcStep ==
    \/ UNCHANGED fcNext
    \/ fcNext' = Following(fcNext)
    \/ \E p \in FcProtocol :
           fcNext' = [fcNext EXCEPT !.protocol = p, !.start = fcNext.number]

\* It keeps its packets in order.
LEMMA FcStepKeeps ==
    ASSUME fcNext \in FcPacket, fcNext.start <= fcNext.number, FcStep
    PROVE  /\ fcNext' \in FcPacket /\ fcNext'.start <= fcNext'.number
           /\ fcNext.number <= fcNext'.number
<1>1. /\ fcNext = [protocol |-> fcNext.protocol, number |-> fcNext.number,
                   start |-> fcNext.start]
      /\ fcNext.protocol \in FcProtocol
      /\ fcNext.number \in Nat /\ fcNext.start \in Nat
    BY DEF FcPacket
<1>2. CASE UNCHANGED fcNext
    BY <1>1, <1>2
<1>3. CASE fcNext' = Following(fcNext)
    BY <1>1, <1>3 DEF Following, FcPacket
<1>4. CASE \E p \in FcProtocol :
              fcNext' = [fcNext EXCEPT !.protocol = p, !.start = fcNext.number]
  <2>1. PICK p \in FcProtocol :
            fcNext' = [fcNext EXCEPT !.protocol = p, !.start = fcNext.number]
      BY <1>4
  <2>2. fcNext' = [protocol |-> p, number |-> fcNext.number,
                   start |-> fcNext.number]
      BY <1>1, <2>1
  <2> QED BY <1>1, <2>2 DEF FcPacket
<1> QED BY <1>2, <1>3, <1>4 DEF FcStep

\* The steps of an iteration that publish nothing, and a restart of the flight
\* controller.
LEMMA IdleKeeps ==
    ASSUME IInv, NoTelemetry \/ NoLocalState \/ Sleep \/ FcRestart
    PROVE  IInv'
<1>1. /\ pc \notin {"discard", "resend"} /\ pc' \notin {"discard", "resend"}
      /\ UNCHANGED <<boot, ready, nextSequence, made, drops, pending, queue,
                     hand, written>>
      /\ UNCHANGED uptime \/ (uptime < MaxUptime /\ uptime' = uptime + 1)
    BY DEF NoTelemetry, NoLocalState, Sleep, FcRestart, esp
<1>2. FcStep
    BY DEF NoTelemetry, NoLocalState, Sleep, FcRestart, esp, FcStep
<1>3. fcNext' \in FcPacket /\ fcNext'.start <= fcNext'.number
    BY <1>2, FcStepKeeps DEF IInv, QueueType
<1>4. uptime' \in 0 .. MaxUptime
    BY <1>1, PcBridgeAssumption DEF IInv, QueueType
<1> QED BY <1>1, <1>3, <1>4
    DEF IInv, QueueType, EnqueueStep, EveryLossIsCounted, NumbersInOrder,
        Total

\* A record leaves the front of the queue and is counted.
LEMMA DiscardKeeps ==
    ASSUME IInv, Discard
    PROVE  IInv'
<1>1. /\ pc = "discard" /\ pc' = "resend"
      /\ UNCHANGED <<boot, ready, uptime, fcNext, nextSequence, made,
                     pending, hand, written>>
    BY DEF Discard
<1>2. /\ queue \in Seq(ExportItem) /\ Len(queue) \in Nat
      /\ Len(queue) <= EXPORT_QUEUE_LENGTH /\ Len(hand) \in Nat
      /\ ready /\ Len(pending) = 1 /\ drops \in Nat /\ written \in Nat
      /\ Total \in Nat /\ Total' = Total
    BY <1>1 DEF IInv, QueueType, EnqueueStep, Total, MessageType
<1>3. CASE queue # <<>> /\ queue' = Tail(queue) /\ drops' = drops + 1
  <2>1. /\ queue' \in Seq(ExportItem) /\ Len(queue') = Len(queue) - 1
        /\ \A i \in 1 .. Len(queue) - 1 : queue'[i] = queue[i + 1]
        /\ Len(queue') \in Nat
      BY <1>2, <1>3, TailFacts
  <2>2. QueueType' /\ EnqueueStep'
      BY <1>1, <1>2, <1>3, <2>1, PcBridgeAssumption
      DEF IInv, QueueType, EnqueueStep
  <2>3. EveryLossIsCounted'
      BY <1>1, <1>2, <1>3, <2>1 DEF IInv, EveryLossIsCounted
  <2>4. NumbersInOrder'
      BY <1>1, <1>2, <1>3, <2>1 DEF IInv, NumbersInOrder
  <2> QED BY <2>2, <2>3, <2>4 DEF IInv
<1>4. CASE queue = <<>> /\ UNCHANGED <<queue, drops>>
    BY <1>1, <1>2, <1>4, PcBridgeAssumption
    DEF IInv, QueueType, EnqueueStep, EveryLossIsCounted, NumbersInOrder
<1> QED BY <1>3, <1>4 DEF Discard, Discarded

\* There is room, so the record in hand enters the queue.
LEMMA ResendKeeps ==
    ASSUME IInv, Resend
    PROVE  IInv'
<1>1. /\ pc = "resend" /\ pending' = <<>>
      /\ UNCHANGED <<boot, ready, uptime, fcNext, nextSequence, made,
                     drops, hand, written>>
    BY DEF Resend, esp
<1>2. pc' \notin {"discard", "resend"}
    BY DEF Resend, After
<1>3. /\ queue \in Seq(ExportItem) /\ Len(queue) \in Nat
      /\ Len(queue) < EXPORT_QUEUE_LENGTH /\ Len(hand) \in Nat
      /\ pending \in Seq(ExportItem) /\ Len(pending) = 1
      /\ ready /\ drops \in Nat /\ written \in Nat
      /\ Total \in Nat /\ Total' = Total
    BY <1>1 DEF IInv, QueueType, EnqueueStep, Total, MessageType
<1>4. pending[1] \in ExportItem
    BY <1>3, NonEmptyFacts
<1>5. queue' = Append(queue, pending[1])
    BY <1>3 DEF Resend, Requeued
<1>6. /\ queue' \in Seq(ExportItem) /\ Len(queue') = Len(queue) + 1
      /\ \A i \in 1 .. Len(queue) : queue'[i] = queue[i]
      /\ queue'[Len(queue) + 1] = pending[1]
    BY <1>3, <1>4, <1>5, AppendFacts
<1>7. QueueType' /\ EnqueueStep'
    BY <1>1, <1>2, <1>3, <1>6, PcBridgeAssumption
    DEF IInv, QueueType, EnqueueStep
<1>8. EveryLossIsCounted'
    BY <1>1, <1>3, <1>6 DEF IInv, EveryLossIsCounted
<1>9. NumbersInOrder'
  <2>1. /\ \A i \in 1 .. Len(queue) :
               queue[i].number = Total - 1 - Len(queue) + i - 1
        /\ pending[1].number = Total - 1
      BY <1>3 DEF IInv, NumbersInOrder
  <2>2. ASSUME NEW i \in 1 .. Len(queue')
        PROVE  queue'[i].number = Total - Len(queue') + i - 1
    <3>1. CASE i \in 1 .. Len(queue)
        BY <3>1, <2>1, <1>3, <1>6, SMTT(30)
    <3>2. CASE i = Len(queue) + 1
        BY <3>2, <2>1, <1>3, <1>6
    <3> QED BY <3>1, <3>2, <1>3, <1>6
  <2>3. Len(pending') = 0
      BY <1>1
  <2> QED BY <2>2, <2>3, <1>3, <1>6 DEF NumbersInOrder
<1> QED BY <1>7, <1>8, <1>9 DEF IInv

\* The export task takes the oldest record.
LEMMA ExportReceiveKeeps ==
    ASSUME IInv, ExportReceive
    PROVE  IInv'
<1>1. /\ hand = <<>> /\ queue # <<>> /\ hand' = <<Head(queue)>>
      /\ queue' = Tail(queue)
      /\ UNCHANGED <<boot, ready, uptime, fcNext, nextSequence, made,
                     drops, pc, pending, written>>
    BY DEF ExportReceive, esp
<1>2. /\ queue \in Seq(ExportItem) /\ Len(queue) \in Nat
      /\ Len(queue) <= EXPORT_QUEUE_LENGTH
      /\ pending \in Seq(ExportItem) /\ Len(pending) \in Nat
      /\ drops \in Nat /\ written \in Nat
      /\ Total \in Nat /\ Total' = Total
    BY <1>1, SMTT(30) DEF IInv, QueueType, Total, MessageType
<1>3. /\ queue' \in Seq(ExportItem) /\ Len(queue') = Len(queue) - 1
      /\ \A i \in 1 .. Len(queue) - 1 : queue'[i] = queue[i + 1]
      /\ Head(queue) \in ExportItem /\ Len(queue') \in Nat
    BY <1>1, <1>2, TailFacts
<1>4. hand' \in Seq(ExportItem) /\ Len(hand') = 1 /\ Len(hand) = 0
    BY <1>1, <1>3
<1>5. QueueType' /\ EnqueueStep'
    BY <1>1, <1>2, <1>3, <1>4, PcBridgeAssumption
    DEF IInv, QueueType, EnqueueStep
<1>6. EveryLossIsCounted'
    BY <1>1, <1>2, <1>3, <1>4 DEF IInv, EveryLossIsCounted
<1>7. NumbersInOrder'
    BY <1>1, <1>2, <1>3 DEF IInv, NumbersInOrder
<1> QED BY <1>5, <1>6, <1>7 DEF IInv

\* The export task writes the record it took, which is then counted as written.
LEMMA ExportWriteKeeps ==
    ASSUME IInv, NEW arrives \in BOOLEAN, ExportWrite(arrives)
    PROVE  IInv'
<1>1. /\ hand # <<>> /\ hand' = <<>> /\ written' = written + 1
      /\ UNCHANGED <<boot, ready, uptime, fcNext, nextSequence, made,
                     drops, pc, pending, queue>>
    BY DEF ExportWrite, esp
<1>2. Len(hand') = 0
    BY <1>1
<1>3. Len(hand) = 1
  <2>1. hand \in Seq(ExportItem)
      BY DEF IInv, QueueType
  <2>2. Len(hand) <= 1
      BY DEF IInv, QueueType
  <2>3. Len(hand) \in Nat /\ Len(hand) # 0
      BY <2>1, <1>1, NonEmptyFacts
  <2> DEFINE n == Len(hand)
  <2>4. n \in Nat /\ n # 0 /\ n <= 1
      BY <2>2, <2>3
  <2> HIDE DEF n
  <2>5. n = 1
      BY <2>4
  <2> QED BY <2>5 DEF n
<1>4. /\ hand \in Seq(ExportItem)
      /\ written \in Nat /\ drops \in Nat
      /\ Len(queue) \in Nat /\ Len(pending) \in Nat
      /\ Total \in Nat /\ Total' = Total
    BY <1>1 DEF IInv, QueueType, Total, MessageType
<1> QED BY <1>1, <1>2, <1>3, <1>4
    DEF IInv, QueueType, EnqueueStep, EveryLossIsCounted, NumbersInOrder

\* Every step keeps the invariant.
LEMMA NextKeeps ==
    ASSUME IInv, [Next]_vars
    PROVE  IInv'
<1>1. CASE Reboot
    BY <1>1, RebootKeeps
<1>2. CASE PublishBayang \/ PublishLocalState
  <2>1. NoPacket \in FcPacket /\ fcNext \in FcPacket /\ FcStep
      BY <1>2
      DEF NoPacket, FcPacket, FcProtocol, FcStep, PublishBayang,
          PublishLocalState, IInv, QueueType
  <2>2. PICK t \in MessageType, p \in FcPacket :
            Publish(t, p) /\ pc \in {"receive", "status"}
      BY <1>2, <2>1 DEF PublishBayang, PublishLocalState, MessageType
  <2>3. fcNext' \in FcPacket /\ fcNext'.start <= fcNext'.number
      BY <2>1, FcStepKeeps DEF IInv, QueueType
  <2> QED BY <2>2, <2>3, PublishKeeps
<1>3. CASE NoTelemetry \/ NoLocalState \/ Sleep \/ FcRestart
    BY <1>3, IdleKeeps
<1>4. CASE Discard
    BY <1>4, DiscardKeeps
<1>5. CASE Resend
    BY <1>5, ResendKeeps
<1>6. CASE ExportReceive
    BY <1>6, ExportReceiveKeeps
<1>7. CASE \E arrives \in BOOLEAN : ExportWrite(arrives)
    BY <1>7, ExportWriteKeeps
<1>8. CASE UNCHANGED vars
    BY <1>8
    DEF vars, esp, IInv, QueueType, EnqueueStep, EveryLossIsCounted,
        NumbersInOrder, Total
<1> QED BY <1>1, <1>2, <1>3, <1>4, <1>5, <1>6, <1>7, <1>8
    DEF Next, ControlTask, ExportTask

\* IInv is an invariant of the bridge.
LEMMA Invariance == Spec => []IInv
  BY InitHolds, NextKeeps, PTL DEF Spec

-----------------------------------------------------------------------------
(* The results.                                                             *)

\* Whatever the control task and the export task interleave, enqueue loses no
\* record that export_queue_drops does not count.
THEOREM LossesAreCounted == Spec => []EveryLossIsCounted
<1>1. IInv => EveryLossIsCounted
    BY DEF IInv
<1> QED BY <1>1, Invariance, PTL

\* enqueue always makes room by giving up the oldest record: what waits for
\* the line are the newest records, without a hole and in order.
THEOREM OldestIsDiscarded == Spec => []NewestRecordsWait
<1>1. IInv => NewestRecordsWait
    BY NumbersGiveOrder DEF IInv
<1> QED BY <1>1, Invariance, PTL

-----------------------------------------------------------------------------
(* The ground station's books.                                              *)
(*                                                                          *)
(* A gap is computed from two sequence numbers, a loss from the serial      *)
(* numbers behind them.  They agree because a sequence number is a serial   *)
(* number in its range, and because what waits for the line is newer than   *)
(* what was accepted: then the difference of the serial numbers is positive *)
(* and the gap is its remainder.                                            *)

\* A record that waits is of boot b; m records of each type were made and f
\* packets sent, counted since the first.
Sound(x, b, m, f) ==
    /\ x.boot = b
    /\ x.sequence = x.serial % SequenceModulus
    /\ x.serial < m[x.type]
    /\ x.type = "RAW_BAYANG" => /\ x.packet.number < f
                                /\ x.packet.start <= x.packet.number

\* Two records of the same type in the order in which they were made.
Precedes(x, y) ==
    x.type = y.type =>
        /\ x.serial < y.serial
        /\ x.type = "RAW_BAYANG" => x.packet.number < y.packet.number

\* A record that was not accepted yet is newer than the accepted ones, which
\* items and the book keep.
Unseen(x, items, book) ==
    /\ items[x.type] # <<>> /\ items[x.type][1].boot = x.boot =>
          items[x.type][1].serial < x.serial
    /\ x.type = "RAW_BAYANG" /\ book.last # -1 =>
          book.packet < x.packet.number

Waits(x) == Sound(x, boot, made, fcNext.number) /\ Unseen(x, lastItem, fc)

LineIsSound ==
    /\ \A i \in 1 .. Len(hand) : Waits(hand[i])
    /\ \A i \in 1 .. Len(queue) : Waits(queue[i])
    /\ \A i \in 1 .. Len(pending) : Waits(pending[i])

LineIsOrdered ==
    /\ \A i \in 1 .. Len(hand) : \A j \in 1 .. Len(queue) :
          Precedes(hand[i], queue[j])
    /\ \A i \in 1 .. Len(hand) : \A j \in 1 .. Len(pending) :
          Precedes(hand[i], pending[j])
    /\ \A i, j \in 1 .. Len(queue) : i < j => Precedes(queue[i], queue[j])
    /\ \A i \in 1 .. Len(queue) : \A j \in 1 .. Len(pending) :
          Precedes(queue[i], pending[j])

NumberedFromSerial ==
    \A t \in MessageType : nextSequence[t] = made[t] % SequenceModulus

\* What the ground station keeps of a type is of the last accepted record.
Accepted(t) ==
    IF lastItem[t] = <<>>
    THEN lastSequence[t] = -1 /\ shown[t] = 0
    ELSE LET x == lastItem[t][1]
         IN  /\ x \in ExportItem /\ x.type = t
             /\ lastSequence[t] = x.sequence /\ shown[t] = x.boot
             /\ x.sequence = x.serial % SequenceModulus
             /\ x.boot <= boot /\ (x.boot = boot => x.serial < made[t])

PcType ==
    /\ nextLocalState \in Nat /\ lastTimestamp \in -1 .. MaxUptime
    /\ lastSequence \in [MessageType -> -1 .. SequenceModulus - 1]
    /\ shown \in [MessageType -> 0 .. MaxBoots]
    /\ lastItem \in [MessageType -> Seq(ExportItem)]
    /\ gaps \in [MessageType -> Nat] /\ lost \in [MessageType -> Nat]
    /\ hidden \in BOOLEAN
    /\ pc \in {"receive", "status", "sleep", "discard", "resend"}

\* last_sequence is the nibble of a packet before the n-th.
BookFollows(book, n) ==
    book.last # -1 =>
        /\ book.protocol = "ExtendedV1"
        /\ book.start <= book.packet /\ book.packet < n
        /\ book.last = (book.packet - book.start) % FcModulus

\* GapsAreLosses, of one book: a restart adds less than the nibble's range.
BookCounts(book) ==
    /\ book.restarts = 0 => CountsLosses(book.counted, book.missed, FcModulus)
    /\ book.counted <= book.missed + book.restarts * (FcModulus - 1)

\* A decoder's book of the flight controller's packets.
BookIsSound(book) ==
    book \in FcBook /\ BookFollows(book, fcNext.number) /\ BookCounts(book)

BooksInv ==
    /\ PcType /\ NumberedFromSerial /\ LineIsSound /\ LineIsOrdered
    /\ \A t \in MessageType : Accepted(t)
    /\ BookIsSound(decoded) /\ BookIsSound(fc)
    /\ ~hidden => \A t \in MessageType :
                      CountsLosses(gaps[t], lost[t], SequenceModulus)

\* Remainders.
LEMMA DivMod ==
    ASSUME NEW m \in Nat \ {0}, NEW a \in Int
    PROVE  /\ a \div m \in Int /\ a % m \in 0 .. m - 1
           /\ a = m * (a \div m) + (a % m)
  OBVIOUS

\* The remainder of a multiple and a smaller number.
LEMMA RemainderOfSum ==
    ASSUME NEW m \in Nat \ {0}, NEW k \in Int, NEW r \in 0 .. m - 1
    PROVE  (m * k + r) % m = r
  OBVIOUS

\* The sum of two multiples is one.
LEMMA MultiplesAdd ==
    ASSUME NEW m \in Nat \ {0}, NEW a \in Int, NEW b \in Int,
           a % m = 0, b % m = 0
    PROVE  (a + b) % m = 0
<1>1. PICK k \in Int : a = m * k
  OBVIOUS
<1>2. PICK l \in Int : b = m * l
  OBVIOUS
<1>3. a + b = m * (k + l) + 0
  BY <1>1, <1>2
<1>4. k + l \in Int /\ 0 \in 0 .. m - 1
  OBVIOUS
<1>5. (m * (k + l) + 0) % m = 0
  BY <1>4, RemainderOfSum
<1> QED
  BY <1>3, <1>5

\* The difference of two remainders, less one, is in the range the remainder
\* of the difference, less one.
LEMMA DifferenceOfRemainders ==
    ASSUME NEW m \in Nat \ {0}, NEW a \in Nat, NEW b \in Nat
    PROVE  ((a % m) - (b % m) - 1) % m = (a - b - 1) % m
<1> DEFINE d == (a % m) - (b % m) - 1
           s == (a \div m) - (b \div m) + (d \div m)
<1>1. /\ a = m * (a \div m) + (a % m) /\ a \div m \in Int /\ a % m \in Int
      /\ b = m * (b \div m) + (b % m) /\ b \div m \in Int /\ b % m \in Int
  BY DivMod
<1>2. d \in Int
  BY <1>1
<1>3. d = m * (d \div m) + (d % m) /\ d \div m \in Int /\ d % m \in 0 .. m - 1
  BY <1>2, DivMod
<1>4. a - b - 1 = m * s + (d % m) /\ s \in Int
  BY <1>1, <1>3
<1> HIDE DEF s
<1>5. (m * s + (d % m)) % m = d % m
  BY <1>3, <1>4, RemainderOfSum
<1> QED
  BY <1>4, <1>5

\* What is left without the remainder is a multiple.
LEMMA RemainderFacts ==
    ASSUME NEW m \in Nat \ {0}, NEW d \in Nat
    PROVE  d % m \in Nat /\ d % m <= d /\ (d - (d % m)) % m = 0
<1>1. d % m \in Nat /\ d % m <= d
  OBVIOUS
<1>2. d - (d % m) = m * (d \div m) + 0 /\ d \div m \in Int /\ 0 \in 0 .. m - 1
  BY DivMod
<1>3. (m * (d \div m) + 0) % m = 0
  BY <1>2, RemainderOfSum
<1> QED
  BY <1>1, <1>2, <1>3

\* A counter that grows by the remainder of what the losses grow by.
LEMMA CountsMore ==
    ASSUME NEW m \in Nat \ {0}, NEW c \in Nat, NEW l \in Nat,
           CountsLosses(c, l, m), NEW a \in Nat, NEW b \in Nat, b < a
    PROVE  LET g == ((a % m) - (b % m) - 1) % m
           IN  /\ c + g \in Nat /\ l + a - b - 1 \in Nat
               /\ CountsLosses(c + g, l + a - b - 1, m)
<1> DEFINE g == ((a % m) - (b % m) - 1) % m
           d == a - b - 1
<1>1. d \in Nat
  OBVIOUS
<1>2. g = d % m
  BY DifferenceOfRemainders
<1>3. g \in Nat /\ g <= d /\ (d - g) % m = 0
  BY <1>1, <1>2, RemainderFacts
<1> HIDE DEF g
<1>4. c <= l /\ (l - c) % m = 0
  BY DEF CountsLosses
<1> HIDE DEF d
<1>5. ((l - c) + (d - g)) % m = 0
  <2>1. l - c \in Int /\ d - g \in Int
    BY <1>1, <1>3
  <2> QED
    BY ONLY <1>3, <1>4, <2>1, MultiplesAdd, m \in Nat \ {0}
<1>6. (l + d) - (c + g) = (l - c) + (d - g)
  BY <1>1, <1>3
<1>7. l + a - b - 1 = l + d
  BY DEF d
<1> QED
  BY <1>1, <1>3, <1>4, <1>5, <1>6, <1>7 DEF CountsLosses, g

\* The sequence number that follows is that of the serial number that follows.
LEMMA SuccessorOfRemainder ==
    ASSUME NEW m \in Nat \ {0}, NEW a \in Nat
    PROVE  ((a % m) + 1) % m = (a + 1) % m
<1> DEFINE r == (a % m) + 1
           s == (a \div m) + (r \div m)
<1>1. a = m * (a \div m) + (a % m) /\ a \div m \in Int /\ a % m \in Int
  BY DivMod
<1>2. r = m * (r \div m) + (r % m) /\ r \div m \in Int /\ r % m \in 0 .. m - 1
  BY <1>1, DivMod
<1>3. a + 1 = m * s + (r % m) /\ s \in Int
  BY <1>1, <1>2
<1> HIDE DEF s
<1>4. (m * s + (r % m)) % m = r % m
  BY <1>2, <1>3, RemainderOfSum
<1> QED
  BY <1>3, <1>4

\* A book without a packet is sound.
LEMMA EmptyBook ==
    ASSUME NEW p \in FcProtocol
    PROVE  /\ [NoFcPacket EXCEPT !.protocol = p] \in FcBook
           /\ NoFcPacket \in FcBook
           /\ \A n : /\ BookFollows(NoFcPacket, n)
                     /\ BookFollows([NoFcPacket EXCEPT !.protocol = p], n)
           /\ BookCounts(NoFcPacket)
           /\ BookCounts([NoFcPacket EXCEPT !.protocol = p])
<1>1. FcModulus \in Nat \ {0} /\ -1 \in -1 .. FcModulus - 1
  BY PcBridgeAssumption
<1>2. /\ [NoFcPacket EXCEPT !.protocol = p] \in FcBook
      /\ NoFcPacket \in FcBook
  BY <1>1 DEF NoFcPacket, FcBook, FcProtocol
<1>3. CountsLosses(0, 0, FcModulus) /\ 0 <= 0 + 0 * (FcModulus - 1)
  BY <1>1 DEF CountsLosses
<1> QED
  BY <1>1, <1>2, <1>3 DEF NoFcPacket, BookFollows, BookCounts

\* What a book keeps stays true when more packets are sent.
LEMMA FollowsLater ==
    ASSUME NEW book \in FcBook, NEW n \in Nat, NEW m \in Nat, n <= m,
           BookFollows(book, n)
    PROVE  BookFollows(book, m)
<1>1. book.packet \in Nat
  BY DEF FcBook
<1> QED
  BY <1>1 DEF BookFollows

\* A decoder's book after an extended packet that is newer than the last one.
LEMMA ParseExtendedKeeps ==
    ASSUME NEW book \in FcBook, NEW p \in FcPacket, p.start <= p.number,
           BookFollows(book, p.number), BookCounts(book),
           p.protocol = "ExtendedV1"
    PROVE  /\ parse_extended(book, p) \in FcBook
           /\ BookFollows(parse_extended(book, p), p.number + 1)
           /\ BookCounts(parse_extended(book, p))
           /\ parse_extended(book, p).packet = p.number
<1> DEFINE M == FcModulus
           gap == (FcSequence(p) - (book.last + 1)) % M
           more == IF p.start = book.start THEN 0 ELSE 1
           after == parse_extended(book, p)
<1>1. M \in Nat \ {0}
  BY PcBridgeAssumption
<1>2. p.number \in Nat /\ p.start \in Nat /\ p.protocol \in FcProtocol
  BY DEF FcPacket
<1>3. /\ book.last \in -1 .. M - 1 /\ book.packet \in Nat
      /\ book.start \in Nat /\ book.counted \in Nat /\ book.missed \in Nat
      /\ book.restarts \in Nat
  BY DEF FcBook
<1>4. /\ FcSequence(p) = (p.number - p.start) % M
      /\ FcSequence(p) \in 0 .. M - 1
  <2>1. p.number - p.start \in Int
    BY <1>2
  <2> QED
    BY <1>1, <2>1, DivMod DEF FcSequence
<1>5. gap \in 0 .. M - 1
  <2>1. FcSequence(p) - (book.last + 1) \in Int
    BY <1>3, <1>4
  <2> QED
    BY <1>1, <2>1, DivMod
<1>6. /\ after.protocol = p.protocol /\ after.last = FcSequence(p)
      /\ after.packet = p.number /\ after.start = p.start
      /\ after.counted = IF book.last = -1 THEN 0 ELSE book.counted + gap
      /\ after.missed = IF book.last = -1 THEN 0
                        ELSE book.missed + p.number - book.packet - 1
      /\ after.restarts = IF book.last = -1 THEN 0 ELSE book.restarts + more
      /\ after = [protocol |-> after.protocol, last |-> after.last,
                  counted |-> after.counted, packet |-> after.packet,
                  start |-> after.start, missed |-> after.missed,
                  restarts |-> after.restarts]
  BY DEF parse_extended
<1> HIDE DEF after
<1>7. /\ after.counted \in Nat /\ after.missed \in Nat
      /\ after.restarts \in Nat /\ BookCounts(after)
  <2>1. CASE book.last = -1
    <3>1. after.counted = 0 /\ after.missed = 0 /\ after.restarts = 0
      BY <1>6, <2>1
    <3>2. CountsLosses(0, 0, FcModulus) /\ 0 <= 0 + 0 * (FcModulus - 1)
      BY <1>1 DEF CountsLosses
    <3> QED
      BY <3>1, <3>2 DEF BookCounts
  <2>2. CASE book.last # -1
    <3> DEFINE lost1 == p.number - book.packet - 1
    <3>1. /\ book.start <= book.packet /\ book.packet < p.number
          /\ book.last = (book.packet - book.start) % M
      BY <2>2 DEF BookFollows
    <3>2. lost1 \in Nat
      BY <1>2, <1>3, <3>1
    <3>3. /\ after.counted = book.counted + gap
          /\ after.missed = book.missed + lost1
          /\ after.restarts = book.restarts + more
      BY <1>2, <1>3, <1>6, <2>2
    <3>4. gap \in Nat /\ gap <= M - 1 /\ more \in Nat
      BY <1>1, <1>5
    <3>5. book.counted <= book.missed + book.restarts * (M - 1)
      BY DEF BookCounts
    <3>6. CASE p.start = book.start
      <4> DEFINE a == p.number - p.start
                 b == book.packet - p.start
                 g == ((a % M) - (b % M) - 1) % M
      <4>1. a \in Nat /\ b \in Nat /\ b < a /\ a - b - 1 = lost1
        BY <1>2, <1>3, <3>1, <3>6
      <4>2. gap = g
        <5>1. a % M \in Int /\ b % M \in Int
          BY <1>1, <4>1, DivMod
        <5>2. FcSequence(p) = a % M /\ book.last = b % M
          BY <1>4, <3>1, <3>6
        <5> HIDE DEF a, b
        <5>3. (a % M) - ((b % M) + 1) = (a % M) - (b % M) - 1
          BY <5>1
        <5> QED
          BY <5>2, <5>3
      <4> HIDE DEF gap, lost1
      <4>3. after.restarts = book.restarts
        BY <1>3, <3>3, <3>6
      <4>4. CASE book.restarts = 0
        <5>1. CountsLosses(book.counted, book.missed, M)
          BY <4>4 DEF BookCounts
        <5>2. CountsLosses(book.counted + g, book.missed + a - b - 1, M)
          <6> HIDE DEF a, b
          <6> QED
            BY <1>1, <1>3, <4>1, <5>1, CountsMore
        <5>3. book.missed + a - b - 1 = book.missed + lost1
          <6> HIDE DEF a, b
          <6> QED
            BY <1>3, <3>2, <4>1
        <5>4. CountsLosses(after.counted, after.missed, M)
          BY <3>3, <4>2, <5>2, <5>3
        <5>5. after.counted <= after.missed
          BY <5>4 DEF CountsLosses
        <5>6. after.missed \in Nat /\ after.counted \in Nat
          BY <1>3, <3>2, <3>3, <3>4
        <5>7. after.restarts * (M - 1) = 0
          BY <1>1, <4>3, <4>4
        <5> QED
          BY <4>3, <4>4, <5>4, <5>5, <5>6, <5>7 DEF BookCounts
      <4>5. CASE book.restarts # 0
        <5>1. gap <= lost1
          <6>1. g = (a - b - 1) % M
            <7> HIDE DEF a, b
            <7> QED
              BY <1>1, <4>1, DifferenceOfRemainders
          <6> HIDE DEF a, b, g
          <6> QED
            BY <1>1, <3>2, <4>1, <4>2, <6>1, RemainderFacts
        <5> DEFINE R == book.restarts * (M - 1)
        <5>2. R \in Nat /\ book.counted <= book.missed + R
          BY <1>1, <1>3, <3>5
        <5>3. after.restarts * (M - 1) = R
          BY <4>3
        <5> HIDE DEF R, M
        <5>4. after.counted <= after.missed + R
          BY <1>3, <3>2, <3>3, <3>4, <5>1, <5>2
        <5> QED
          BY <1>3, <3>2, <3>3, <3>4, <4>3, <4>5, <5>3, <5>4 DEF BookCounts, M
      <4> QED
        BY <4>4, <4>5
    <3>7. CASE p.start # book.start
      <4>1. after.restarts = book.restarts + 1 /\ book.restarts + 1 # 0
        BY <1>3, <3>3, <3>7
      <4> DEFINE R == book.restarts * (M - 1)
                 k == M - 1
      <4>2. k \in Nat /\ R = book.restarts * k
        BY <1>1
      <4>3. (book.restarts + 1) * k = book.restarts * k + k
        <5> HIDE DEF k
        <5> QED
          BY <1>3, <4>2
      <4>4. R \in Nat /\ book.counted <= book.missed + R
        BY <1>1, <1>3, <3>5
      <4>5. gap <= k
        BY <3>4
      <4>6. after.restarts * (M - 1) = R + k
        BY <4>1, <4>2, <4>3
      <4> HIDE DEF R, k, gap, lost1, more
      <4>7. after.counted <= after.missed + (R + k)
        BY <1>3, <3>2, <3>3, <3>4, <4>2, <4>4, <4>5
      <4> QED
        BY <1>3, <3>2, <3>3, <3>4, <4>1, <4>6, <4>7 DEF BookCounts
    <3> QED
      BY <3>6, <3>7
  <2> QED
    BY <2>1, <2>2
<1>8. after \in FcBook
  BY <1>1, <1>2, <1>4, <1>6, <1>7 DEF FcBook
<1>9. BookFollows(after, p.number + 1)
  BY <1>2, <1>4, <1>6 DEF BookFollows
<1> QED
  BY <1>6, <1>7, <1>8, <1>9 DEF after

\* A decoder's book after a packet that is newer than the last one: another
\* protocol clears it.
LEMMA ParseKeeps ==
    ASSUME NEW book \in FcBook, NEW p \in FcPacket, p.start <= p.number,
           BookFollows(book, p.number), BookCounts(book)
    PROVE  /\ Parsed(book, p) \in FcBook
           /\ BookFollows(Parsed(book, p), p.number + 1)
           /\ BookCounts(Parsed(book, p))
           /\ Parsed(book, p).last # -1 => Parsed(book, p).packet = p.number
<1> DEFINE known == IF p.protocol = book.protocol THEN book
                    ELSE [NoFcPacket EXCEPT !.protocol = p.protocol]
<1>1. p.protocol \in FcProtocol /\ p.number \in Nat
  BY DEF FcPacket
<1>2. /\ known \in FcBook /\ BookFollows(known, p.number)
      /\ BookCounts(known)
  BY <1>1, EmptyBook
<1>3. known.protocol = p.protocol
  BY DEF NoFcPacket
<1>4. Parsed(book, p) = IF p.protocol = "ExtendedV1"
                        THEN parse_extended(known, p) ELSE known
  BY DEF Parsed
<1> HIDE DEF known
<1>5. CASE p.protocol = "ExtendedV1"
  BY <1>2, <1>4, <1>5, ParseExtendedKeeps
<1>6. CASE p.protocol # "ExtendedV1"
  <2>1. known.last = -1
    BY <1>2, <1>3, <1>6 DEF BookFollows
  <2> QED
    BY <1>2, <1>4, <1>6, <2>1 DEF BookFollows
<1> QED
  BY <1>5, <1>6

\* A record that waits still does when more are made and more packets sent.
LEMMA SoundLasts ==
    ASSUME NEW x \in ExportItem, NEW b, NEW m \in [MessageType -> Nat],
           NEW m2 \in [MessageType -> Nat], NEW f \in Nat, NEW f2 \in Nat,
           \A t \in MessageType : m[t] <= m2[t], f <= f2,
           Sound(x, b, m, f)
    PROVE  Sound(x, b, m2, f2)
<1>1. x.type \in MessageType /\ x.serial \in Nat /\ x.packet.number \in Nat
  BY DEF ExportItem, FcPacket
<1>2. x.serial < m2[x.type]
  BY <1>1 DEF Sound
<1>3. x.type = "RAW_BAYANG" => x.packet.number < f2
  BY <1>1 DEF Sound
<1> QED
  BY <1>2, <1>3 DEF Sound

\* Nothing was accepted and no record waits.
LEMMA InitBooks == Init => BooksInv
<1> SUFFICES ASSUME Init PROVE BooksInv
  OBVIOUS
<1>1. /\ boot = 1 /\ made = Zero /\ nextSequence = Zero
      /\ hand = <<>> /\ queue = <<>> /\ pending = <<>>
      /\ lastItem = [t \in MessageType |-> <<>>] /\ lastSequence = None
      /\ shown = Zero /\ gaps = Zero /\ lost = Zero /\ hidden = FALSE
      /\ fc = NoFcPacket /\ decoded = NoFcPacket /\ lastTimestamp = -1
      /\ nextLocalState = 0 /\ pc = "receive"
  BY DEF Init, Booted
<1>2. PcType
  <2>1. hidden \in BOOLEAN
    BY <1>1, Zenon
  <2>2. lastItem \in [MessageType -> Seq(ExportItem)]
    BY <1>1
  <2> QED
    BY <1>1, <2>1, <2>2, PcBridgeAssumption DEF PcType, None, Zero
<1>3. NumberedFromSerial
  BY <1>1, PcBridgeAssumption DEF NumberedFromSerial, Zero
<1>4. LineIsSound /\ LineIsOrdered
  BY <1>1 DEF LineIsSound, LineIsOrdered
<1>5. \A t \in MessageType : Accepted(t)
  BY <1>1 DEF Accepted, None, Zero
<1>6. BookIsSound(NoFcPacket)
  BY EmptyBook DEF BookIsSound, FcProtocol
<1>7. \A t \in MessageType : CountsLosses(gaps[t], lost[t], SequenceModulus)
  BY <1>1, PcBridgeAssumption DEF CountsLosses, Zero
<1> QED
  BY <1>1, <1>2, <1>3, <1>4, <1>5, <1>6, <1>7, Zenon DEF BooksInv

\* A reboot empties the line; what was accepted is of an earlier boot.
LEMMA RebootBooks ==
    ASSUME IInv, BooksInv, Reboot
    PROVE  BooksInv'
<1>1. /\ boot' = boot + 1 /\ made' = Zero /\ nextSequence' = Zero
      /\ hand' = <<>> /\ queue' = <<>> /\ pending' = <<>>
      /\ decoded' = NoFcPacket /\ nextLocalState' = 0 /\ pc' = "receive"
      /\ UNCHANGED <<fcNext, lastSequence, lastTimestamp, fc, gaps, shown,
                     lastItem, lost, hidden>>
  BY DEF Reboot, pcSide
<1>2. PcType'
  BY <1>1 DEF BooksInv, PcType
<1>3. NumberedFromSerial'
  BY <1>1, PcBridgeAssumption DEF NumberedFromSerial, Zero
<1>4. LineIsSound' /\ LineIsOrdered'
  BY <1>1 DEF LineIsSound, LineIsOrdered
<1>5. ASSUME NEW t \in MessageType PROVE Accepted(t)'
  <2>1. CASE lastItem[t] = <<>>
    BY <1>1, <2>1 DEF BooksInv, Accepted
  <2>2. CASE lastItem[t] # <<>>
    <3>1. lastItem[t][1] \in ExportItem
      BY <2>2 DEF BooksInv, Accepted
    <3>2. lastItem[t][1].boot \in Nat /\ boot \in Nat
      <4>1. \A x \in ExportItem : x.boot \in Nat
        BY PcBridgeAssumption DEF ExportItem
      <4>2. boot \in Nat
        BY PcBridgeAssumption DEF IInv, QueueType
      <4> QED
        BY <3>1, <4>1, <4>2, Zenon
    <3> QED
      BY <1>1, <2>2, <3>2 DEF BooksInv, Accepted
  <2> QED
    BY <2>1, <2>2
<1>6. BookIsSound(decoded)'
  BY <1>1, EmptyBook DEF BookIsSound, FcProtocol
<1>7. BookIsSound(fc)'
  BY <1>1 DEF BooksInv, BookIsSound
<1>8. (~hidden => \A t \in MessageType :
                      CountsLosses(gaps[t], lost[t], SequenceModulus))'
  BY <1>1 DEF BooksInv
<1> QED
  BY <1>2, <1>3, <1>4, <1>5, <1>6, <1>7, <1>8 DEF BooksInv

\* What a step may do that takes no record and accepts none: time passes,
\* more is made and sent.
LEMMA BooksLast ==
    ASSUME IInv, BooksInv, fcNext' \in FcPacket,
           fcNext.number <= fcNext'.number,
           made' \in [MessageType -> Nat],
           \A t \in MessageType : made[t] <= made'[t],
           UNCHANGED <<boot, pcSide>>
    PROVE  /\ \A t \in MessageType : Accepted(t)'
           /\ BookIsSound(fc)'
           /\ (~hidden => \A t \in MessageType :
                             CountsLosses(gaps[t], lost[t], SequenceModulus))'
           /\ \A x \in ExportItem :
                 /\ Sound(x, boot, made, fcNext.number)
                 /\ Unseen(x, lastItem, fc)
                 => /\ Sound(x, boot', made', fcNext'.number)
                    /\ Unseen(x, lastItem', fc')
<1>1. UNCHANGED <<lastSequence, lastTimestamp, fc, gaps, shown, lastItem,
                  lost, hidden>>
  BY DEF pcSide
<1>2. /\ made \in [MessageType -> Nat]
      /\ fcNext.number \in Nat /\ fcNext'.number \in Nat
  BY DEF IInv, QueueType, FcPacket
<1>3. ASSUME NEW t \in MessageType PROVE Accepted(t)'
  <2>1. CASE lastItem[t] = <<>>
    BY <1>1, <2>1 DEF BooksInv, Accepted
  <2>2. CASE lastItem[t] # <<>>
    <3>1. lastItem[t][1] \in ExportItem /\ lastItem[t][1].serial \in Nat
      BY <2>2 DEF BooksInv, Accepted, ExportItem
    <3> QED
      BY <1>1, <1>2, <2>2, <3>1 DEF BooksInv, Accepted
  <2> QED
    BY <2>1, <2>2
<1>4. BookIsSound(fc)'
  BY <1>1, <1>2, FollowsLater DEF BooksInv, BookIsSound
<1>5. ASSUME NEW x \in ExportItem, Sound(x, boot, made, fcNext.number)
      PROVE  Sound(x, boot', made', fcNext'.number)
  BY <1>2, <1>5, SoundLasts
<1> QED
  BY <1>1, <1>3, <1>4, <1>5 DEF BooksInv

\* The steps of an iteration that publish nothing, and a restart of the flight
\* controller.
LEMMA IdleBooks ==
    ASSUME IInv, BooksInv, NoTelemetry \/ NoLocalState \/ Sleep \/ FcRestart
    PROVE  BooksInv'
<1>1. /\ UNCHANGED <<boot, nextSequence, made, decoded, pending, queue,
                     hand, pcSide, nextLocalState>>
      /\ FcStep /\ pc' \in {"receive", "status", "sleep"}
  BY DEF NoTelemetry, NoLocalState, Sleep, FcRestart, FcStep, esp
<1>2. /\ made \in [MessageType -> Nat]
      /\ hand \in Seq(ExportItem) /\ queue \in Seq(ExportItem)
      /\ pending \in Seq(ExportItem)
  BY DEF IInv, QueueType
<1>3. /\ fcNext \in FcPacket /\ fcNext' \in FcPacket
      /\ fcNext.number <= fcNext'.number
      /\ made' \in [MessageType -> Nat]
      /\ \A t \in MessageType : made[t] <= made'[t]
  BY <1>1, <1>2, FcStepKeeps DEF IInv, QueueType
<1>4. /\ \A t \in MessageType : Accepted(t)'
      /\ BookIsSound(fc)'
      /\ (~hidden => \A t \in MessageType :
                        CountsLosses(gaps[t], lost[t], SequenceModulus))'
      /\ \A x \in ExportItem :
            /\ Sound(x, boot, made, fcNext.number)
            /\ Unseen(x, lastItem, fc)
            => /\ Sound(x, boot', made', fcNext'.number)
               /\ Unseen(x, lastItem', fc')
  BY <1>1, <1>2, <1>3, BooksLast
<1>5. PcType' /\ NumberedFromSerial' /\ LineIsOrdered'
  BY <1>1 DEF BooksInv, PcType, pcSide, NumberedFromSerial, LineIsOrdered
<1>6. LineIsSound'
  <2>1. /\ \A i \in 1 .. Len(hand) : hand[i] \in ExportItem /\ Waits(hand[i])
        /\ \A i \in 1 .. Len(queue) :
              queue[i] \in ExportItem /\ Waits(queue[i])
        /\ \A i \in 1 .. Len(pending) :
              pending[i] \in ExportItem /\ Waits(pending[i])
    BY <1>2 DEF BooksInv, LineIsSound
  <2>2. \A x \in ExportItem : Waits(x) => Waits(x)'
    BY <1>4 DEF Waits
  <2> QED
    BY <1>1, <2>1, <2>2 DEF LineIsSound
<1>7. BookIsSound(decoded)'
  <2>1. fcNext.number \in Nat /\ fcNext'.number \in Nat
    BY <1>3 DEF FcPacket
  <2> QED
    BY <1>1, <1>3, <2>1, FollowsLater DEF BooksInv, BookIsSound
<1> QED
  BY <1>4, <1>5, <1>6, <1>7 DEF BooksInv

\* A record is numbered: it is newer than everything before it.
LEMMA PublishBooks ==
    ASSUME IInv, BooksInv, PublishBayang \/ PublishLocalState
    PROVE  BooksInv'
<1>0. NoPacket \in FcPacket /\ fcNext \in FcPacket
  BY DEF NoPacket, FcPacket, FcProtocol, IInv, QueueType
<1>1. PICK t \in MessageType, p \in FcPacket :
          /\ Publish(t, p) /\ pc \in {"receive", "status"}
          /\ \/ /\ t = "RAW_BAYANG" /\ p = fcNext
                /\ fcNext' = Following(fcNext)
                /\ decoded' = Parsed(decoded, fcNext)
                /\ nextLocalState' = nextLocalState
             \/ /\ t = "LOCAL_STATE" /\ UNCHANGED <<decoded, fcNext>>
                /\ nextLocalState' = uptime + LOCAL_STATE_PERIOD
  BY <1>0 DEF PublishBayang, PublishLocalState, MessageType
<1> DEFINE item == [type |-> t, sequence |-> nextSequence[t],
                    timestamp |-> uptime, packet |-> p,
                    number |-> Total, serial |-> made[t],
                    boot |-> boot]
<1>2. /\ UNCHANGED <<boot, hand, pcSide>>
      /\ nextSequence' = [nextSequence EXCEPT ![t] = Successor(@)]
      /\ made' = [made EXCEPT ![t] = @ + 1]
      /\ \/ pc' = After(t) /\ UNCHANGED <<queue, pending>>
         \/ queue' = Append(queue, item) /\ pc' = After(t) /\ UNCHANGED pending
         \/ pending' = <<item>> /\ pc' = "discard" /\ UNCHANGED queue
  BY <1>1 DEF Publish
<1>3. /\ made \in [MessageType -> Nat] /\ Total \in Nat
      /\ hand \in Seq(ExportItem) /\ queue \in Seq(ExportItem)
      /\ nextSequence \in [MessageType -> 0 .. SequenceModulus - 1]
      /\ uptime \in 0 .. MaxUptime /\ boot \in 1 .. MaxBoots
      /\ pending = <<>> /\ pending \in Seq(ExportItem)
      /\ SequenceModulus \in Nat \ {0}
  BY <1>1, PcBridgeAssumption, SMTT(30)
  DEF IInv, QueueType, EnqueueStep, Total, MessageType
<1>4. /\ item \in ExportItem /\ item.type = t /\ item.serial = made[t]
      /\ item.packet = p /\ item.boot = boot
      /\ item.sequence = nextSequence[t]
  BY <1>3 DEF ExportItem
<1> HIDE DEF item
<1>5. /\ made' \in [MessageType -> Nat] /\ made'[t] = made[t] + 1
      /\ \A u \in MessageType : made[u] <= made'[u]
      /\ fcNext' \in FcPacket /\ fcNext.number <= fcNext'.number
      /\ fcNext.number \in Nat /\ fcNext.start <= fcNext.number
      /\ t = "RAW_BAYANG" => fcNext'.number = fcNext.number + 1
  <2>1. FcStep
    BY <1>1 DEF FcStep
  <2>2. fcNext' \in FcPacket /\ fcNext.number <= fcNext'.number
    BY <1>0, <2>1, FcStepKeeps DEF IInv, QueueType
  <2>3. fcNext.number \in Nat /\ fcNext.start <= fcNext.number
    BY <1>0 DEF IInv, QueueType, FcPacket
  <2>4. t = "RAW_BAYANG" => fcNext'.number = fcNext.number + 1
    BY <1>0, <1>1 DEF Following, FcPacket
  <2>5. /\ made' \in [MessageType -> Nat] /\ made'[t] = made[t] + 1
        /\ \A u \in MessageType : made[u] <= made'[u]
    BY <1>1, <1>2, <1>3, SMTT(30)
  <2> QED
    BY <2>2, <2>3, <2>4, <2>5
<1>6. /\ \A u \in MessageType : Accepted(u)'
      /\ BookIsSound(fc)'
      /\ (~hidden => \A u \in MessageType :
                        CountsLosses(gaps[u], lost[u], SequenceModulus))'
      /\ \A x \in ExportItem :
            /\ Sound(x, boot, made, fcNext.number)
            /\ Unseen(x, lastItem, fc)
            => /\ Sound(x, boot', made', fcNext'.number)
               /\ Unseen(x, lastItem', fc')
  BY <1>2, <1>5, BooksLast
<1>7. NumberedFromSerial'
  <2> SUFFICES ASSUME NEW u \in MessageType
               PROVE  nextSequence'[u] = made'[u] % SequenceModulus
    BY DEF NumberedFromSerial
  <2>1. nextSequence[u] = made[u] % SequenceModulus
    BY DEF BooksInv, NumberedFromSerial
  <2>2. CASE u = t
    <3>1. /\ nextSequence'[u] = (nextSequence[u] + 1) % SequenceModulus
          /\ made'[u] = made[u] + 1
      BY <1>2, <1>3, <2>2 DEF Successor
    <3>2. ((made[u] % SequenceModulus) + 1) % SequenceModulus
              = (made[u] + 1) % SequenceModulus
      <4>1. made[u] \in Nat
        BY <1>3
      <4> QED
        BY <1>3, <4>1, SuccessorOfRemainder
    <3> QED
      BY <2>1, <3>1, <3>2
  <2>3. CASE u # t
    BY <1>2, <1>3, <2>1, <2>3
  <2> QED
    BY <2>2, <2>3
<1>8. Sound(item, boot', made', fcNext'.number) /\ Unseen(item, lastItem', fc')
  <2>1. Sound(item, boot', made', fcNext'.number)
    BY <1>1, <1>2, <1>3, <1>4, <1>5, SMTT(30)
    DEF Sound, BooksInv, NumberedFromSerial
  <2>2. Unseen(item, lastItem, fc)
    <3>1. lastItem[t] # <<>> /\ lastItem[t][1].boot = boot =>
              lastItem[t][1].serial < made[t]
      BY DEF BooksInv, Accepted
    <3>2. t = "RAW_BAYANG" /\ fc.last # -1 => fc.packet < p.number
      BY <1>1 DEF BooksInv, BookIsSound, BookFollows
    <3> QED
      BY <1>4, <3>1, <3>2 DEF Unseen
  <2>3. lastItem' = lastItem /\ fc' = fc
    BY <1>2 DEF pcSide
  <2> QED
    BY <2>1, <2>2, <2>3
<1>9. ASSUME NEW x \in ExportItem, Sound(x, boot, made, fcNext.number)
      PROVE  Precedes(x, item)
  BY <1>1, <1>4, <1>9 DEF Precedes, Sound
<1>10. LineIsSound'
  <2>1. \A i \in 1 .. Len(hand') :
            Sound(hand'[i], boot', made', fcNext'.number)
            /\ Unseen(hand'[i], lastItem', fc')
    <3>1. \A i \in 1 .. Len(hand) :
              Sound(hand[i], boot', made', fcNext'.number)
              /\ Unseen(hand[i], lastItem', fc')
      BY <1>3, <1>6 DEF BooksInv, LineIsSound, Waits
    <3>2. hand' = hand
      BY <1>2
    <3> QED
      BY <3>1, <3>2, Zenon
  <2>2. \A i \in 1 .. Len(queue) :
            Sound(queue[i], boot', made', fcNext'.number)
            /\ Unseen(queue[i], lastItem', fc')
    BY <1>3, <1>6 DEF BooksInv, LineIsSound, Waits
  <2>3. CASE UNCHANGED <<queue, pending>>
    <3>1. Len(pending') = 0
      BY <1>3, <2>3
    <3> QED
      BY <2>1, <2>2, <2>3, <3>1 DEF LineIsSound, Waits
  <2>4. CASE queue' = Append(queue, item) /\ UNCHANGED pending
    <3>1. \A i \in 1 .. Len(queue') :
              queue'[i] = item \/ (i \in 1 .. Len(queue) /\ queue'[i] = queue[i])
      BY <1>3, <1>4, <2>4, AppendElements, SMTT(30)
    <3> QED
      BY <1>3, <1>8, <2>1, <2>2, <2>4, <3>1 DEF LineIsSound, Waits
  <2>5. CASE pending' = <<item>> /\ UNCHANGED queue
    BY <1>8, <2>1, <2>2, <2>5 DEF LineIsSound, Waits
  <2> QED
    BY <1>2, <2>3, <2>4, <2>5
<1>11. LineIsOrdered'
  <2>1. /\ \A i \in 1 .. Len(hand) : Precedes(hand[i], item)
        /\ \A i \in 1 .. Len(queue) : Precedes(queue[i], item)
    BY <1>3, <1>9, SMTT(30) DEF BooksInv, LineIsSound, Waits
  <2>2. CASE UNCHANGED <<queue, pending>>
    BY <1>2, <2>2 DEF BooksInv, LineIsOrdered
  <2>3. CASE queue' = Append(queue, item) /\ UNCHANGED pending
    <3>1. /\ Len(queue) \in Nat /\ Len(queue') = Len(queue) + 1
          /\ \A i \in 1 .. Len(queue) : queue'[i] = queue[i]
          /\ queue'[Len(queue) + 1] = item
      BY <1>3, <1>4, <2>3, AppendFacts
    <3>2. \A i, j \in 1 .. Len(queue') :
              i < j => Precedes(queue'[i], queue'[j])
      BY <2>1, <3>1 DEF BooksInv, LineIsOrdered
    <3>3. \A i \in 1 .. Len(hand) : \A j \in 1 .. Len(queue') :
              Precedes(hand[i], queue'[j])
      BY <2>1, <3>1 DEF BooksInv, LineIsOrdered
    <3>4. Len(pending') = 0 /\ hand' = hand
      BY <1>2, <1>3, <2>3
    <3> QED
      BY <3>2, <3>3, <3>4 DEF LineIsOrdered
  <2>4. CASE pending' = <<item>> /\ UNCHANGED queue
    BY <1>2, <2>1, <2>4 DEF BooksInv, LineIsOrdered
  <2> QED
    BY <1>2, <2>2, <2>3, <2>4
<1>12. PcType'
  <2>1. nextLocalState' \in Nat
    BY <1>1, <1>3, PcBridgeAssumption, SMTT(30) DEF BooksInv, PcType
  <2>2. pc' \in {"receive", "status", "sleep", "discard", "resend"}
    BY <1>2 DEF After
  <2> QED
    BY <1>2, <2>1, <2>2 DEF BooksInv, PcType, pcSide
<1>13. BookIsSound(decoded)'
  <2>1. CASE t = "RAW_BAYANG"
    <3>1. /\ decoded \in FcBook /\ BookFollows(decoded, fcNext.number)
          /\ BookCounts(decoded)
      BY DEF BooksInv, BookIsSound
    <3>2. /\ decoded' = Parsed(decoded, fcNext)
          /\ fcNext'.number = fcNext.number + 1
      BY <1>1, <1>5, <2>1
    <3>3. /\ Parsed(decoded, fcNext) \in FcBook
          /\ BookFollows(Parsed(decoded, fcNext), fcNext.number + 1)
          /\ BookCounts(Parsed(decoded, fcNext))
      BY <1>0, <1>5, <3>1, ParseKeeps
    <3> QED
      BY <3>2, <3>3 DEF BookIsSound
  <2>2. CASE t # "RAW_BAYANG"
    BY <1>1, <2>2 DEF BooksInv, BookIsSound
  <2> QED
    BY <2>1, <2>2
<1> QED
  BY <1>6, <1>7, <1>10, <1>11, <1>12, <1>13 DEF BooksInv

\* A step that only moves records along the line keeps the books.
LEMMA MoveBooks ==
    ASSUME BooksInv, LineIsSound', LineIsOrdered',
           pc' \in {"receive", "status", "sleep", "discard", "resend"},
           UNCHANGED <<boot, made, nextSequence, nextLocalState, fcNext,
                       decoded, pcSide>>
    PROVE  BooksInv'
<1>1. UNCHANGED <<lastSequence, lastTimestamp, fc, gaps, shown, lastItem,
                  lost, hidden>>
  BY DEF pcSide
<1>2. PcType' /\ NumberedFromSerial'
  BY <1>1 DEF BooksInv, PcType, NumberedFromSerial
<1>3. \A t \in MessageType : Accepted(t)'
  BY <1>1 DEF BooksInv, Accepted
<1>4. BookIsSound(decoded)' /\ BookIsSound(fc)'
  BY <1>1 DEF BooksInv, BookIsSound
<1> QED
  BY <1>1, <1>2, <1>3, <1>4 DEF BooksInv

\* The oldest record of the queue is given up.
LEMMA DiscardBooks ==
    ASSUME IInv, BooksInv, Discard
    PROVE  BooksInv'
<1>1. /\ UNCHANGED <<boot, made, nextSequence, nextLocalState, fcNext,
                     decoded, pcSide, pending, hand>>
      /\ pc' = "resend" /\ queue \in Seq(ExportItem)
      /\ UNCHANGED <<lastItem, fc>>
  BY DEF Discard, IInv, QueueType, pcSide
<1>2. CASE queue # <<>> /\ queue' = Tail(queue)
  <2>1. /\ Len(queue) \in Nat /\ Len(queue') = Len(queue) - 1
        /\ \A i \in 1 .. Len(queue) - 1 : queue'[i] = queue[i + 1]
    BY <1>1, <1>2, TailFacts
  <2>2. LineIsSound'
    <3>1. \A i \in 1 .. Len(queue') : Waits(queue[i + 1])
      BY <2>1 DEF BooksInv, LineIsSound
    <3>2. \A i \in 1 .. Len(queue') : Waits(queue[i])'
      BY <1>1, <2>1, <3>1 DEF Waits
    <3>3. /\ \A i \in 1 .. Len(hand') : Waits(hand[i])'
          /\ \A i \in 1 .. Len(pending') : Waits(pending[i])'
      BY <1>1 DEF BooksInv, LineIsSound, Waits
    <3> QED
      BY <3>2, <3>3 DEF LineIsSound
  <2>3. LineIsOrdered'
    <3>1. \A i, j \in 1 .. Len(queue') :
              i < j => Precedes(queue'[i], queue'[j])
      BY <2>1, SMTT(30) DEF BooksInv, LineIsOrdered
    <3>2. \A i \in 1 .. Len(hand) : \A j \in 1 .. Len(queue') :
              Precedes(hand[i], queue'[j])
      BY <2>1 DEF BooksInv, LineIsOrdered
    <3>3. \A i \in 1 .. Len(queue') : \A j \in 1 .. Len(pending) :
              Precedes(queue'[i], pending[j])
      BY <2>1, SMTT(30) DEF BooksInv, LineIsOrdered
    <3> QED
      BY <1>1, <3>1, <3>2, <3>3 DEF BooksInv, LineIsOrdered
  <2> QED
    BY <1>1, <2>2, <2>3, MoveBooks
<1>3. CASE UNCHANGED queue
  <2>1. LineIsSound' /\ LineIsOrdered'
    BY <1>1, <1>3 DEF BooksInv, LineIsSound, LineIsOrdered, Waits
  <2> QED
    BY <1>1, <2>1, MoveBooks
<1> QED
  BY <1>2, <1>3 DEF Discard, Discarded

\* The record in hand of enqueue goes last.
LEMMA ResendBooks ==
    ASSUME IInv, BooksInv, Resend
    PROVE  BooksInv'
<1>1. /\ UNCHANGED <<boot, made, nextSequence, nextLocalState, fcNext,
                     decoded, pcSide, hand>>
      /\ UNCHANGED <<lastItem, fc>>
      /\ pc' \in {"status", "sleep"} /\ pending' = <<>> /\ Len(pending') = 0
  BY DEF Resend, esp, pcSide, After
<1>2. /\ queue \in Seq(ExportItem) /\ pending \in Seq(ExportItem)
      /\ Len(pending) = 1 /\ Len(queue) < EXPORT_QUEUE_LENGTH
  BY DEF Resend, IInv, QueueType, EnqueueStep
<1>3. pending[1] \in ExportItem
  BY <1>2, NonEmptyFacts
<1>4. queue' = Append(queue, pending[1])
  BY <1>2 DEF Resend, Requeued
<1>5. /\ Len(queue) \in Nat /\ Len(queue') = Len(queue) + 1
      /\ \A i \in 1 .. Len(queue) : queue'[i] = queue[i]
      /\ queue'[Len(queue) + 1] = pending[1]
  BY <1>2, <1>3, <1>4, AppendFacts
<1>6. LineIsSound'
  <2>1. \A i \in 1 .. Len(queue') :
            \/ queue'[i] = pending[1]
            \/ i \in 1 .. Len(queue) /\ queue'[i] = queue[i]
    BY <1>2, <1>3, <1>4, AppendElements
  <2>2. Waits(pending[1]) /\ \A i \in 1 .. Len(queue) : Waits(queue[i])
    BY <1>2 DEF BooksInv, LineIsSound
  <2>3. \A i \in 1 .. Len(queue') : Waits(queue[i])'
    BY <1>1, <2>1, <2>2 DEF Waits
  <2>4. \A i \in 1 .. Len(hand') : Waits(hand[i])'
    BY <1>1 DEF BooksInv, LineIsSound, Waits
  <2> QED
    BY <1>1, <2>3, <2>4 DEF LineIsSound
<1>7. LineIsOrdered'
  <2>1. /\ \A i \in 1 .. Len(hand) : Precedes(hand[i], pending[1])
        /\ \A i \in 1 .. Len(queue) : Precedes(queue[i], pending[1])
    BY <1>2 DEF BooksInv, LineIsOrdered
  <2>2. \A i, j \in 1 .. Len(queue') : i < j => Precedes(queue'[i], queue'[j])
    BY <1>5, <2>1 DEF BooksInv, LineIsOrdered
  <2>3. \A i \in 1 .. Len(hand) : \A j \in 1 .. Len(queue') :
            Precedes(hand[i], queue'[j])
    BY <1>5, <2>1 DEF BooksInv, LineIsOrdered
  <2> QED
    BY <1>1, <2>2, <2>3 DEF LineIsOrdered
<1> QED
  BY <1>1, <1>6, <1>7, MoveBooks

\* The export task takes the record that precedes the others.
LEMMA ReceiveBooks ==
    ASSUME IInv, BooksInv, ExportReceive
    PROVE  BooksInv'
<1>1. /\ UNCHANGED <<boot, made, nextSequence, nextLocalState, fcNext,
                     decoded, pcSide, pending, pc>>
      /\ UNCHANGED <<lastItem, fc>>
      /\ hand' = <<Head(queue)>> /\ queue # <<>> /\ queue' = Tail(queue)
      /\ queue \in Seq(ExportItem)
  BY DEF ExportReceive, esp, pcSide, IInv, QueueType
<1>2. /\ Len(queue) \in Nat \ {0} /\ Len(queue') = Len(queue) - 1
      /\ \A i \in 1 .. Len(queue) - 1 : queue'[i] = queue[i + 1]
      /\ Len(hand') = 1 /\ hand'[1] = queue[1]
  BY <1>1, TailFacts, NonEmptyFacts
<1>3. LineIsSound'
  <2>1. Waits(queue[1]) /\ \A i \in 1 .. Len(queue') : Waits(queue[i + 1])
    BY <1>2 DEF BooksInv, LineIsSound
  <2>2. \A i \in 1 .. Len(queue') : Waits(queue[i])'
    BY <1>1, <1>2, <2>1 DEF Waits
  <2>3. \A i \in 1 .. Len(hand') : Waits(hand[i])'
    BY <1>1, <1>2, <2>1 DEF Waits
  <2>4. \A i \in 1 .. Len(pending') : Waits(pending[i])'
    BY <1>1 DEF BooksInv, LineIsSound, Waits
  <2> QED
    BY <2>2, <2>3, <2>4 DEF LineIsSound
<1>4. LineIsOrdered'
  BY <1>1, <1>2 DEF BooksInv, LineIsOrdered
<1>5. pc' \in {"receive", "status", "sleep", "discard", "resend"}
  BY <1>1 DEF BooksInv, PcType
<1> QED
  BY <1>1, <1>3, <1>4, <1>5, MoveBooks

\* The books after a record is accepted: what they held is kept, or forgotten
\* when the ground station notices a restart.
LEMMA AcceptBooks ==
    ASSUME IInv, BooksInv, Len(hand) = 1, Accept(hand[1]), hand' = <<>>,
           UNCHANGED <<esp, pc, pending, queue>>
    PROVE  BooksInv'
<1> DEFINE x == hand[1]
           t == x.type
           restarted == lastTimestamp # -1 /\ x.timestamp < lastTimestamp
           previous == IF restarted THEN None ELSE lastSequence
           before == IF restarted THEN [u \in MessageType |-> <<>>]
                     ELSE lastItem
           known == IF restarted THEN NoFcPacket ELSE fc
           display == IF restarted THEN Zero ELSE shown
           M == SequenceModulus
<1>1. /\ lastTimestamp' = x.timestamp
      /\ fc' = IF t = "RAW_BAYANG" THEN Parsed(known, x.packet) ELSE known
      /\ gaps' = [gaps EXCEPT ![t] = @ + Gap(x.sequence, previous[t])]
      /\ lastSequence' = [previous EXCEPT ![t] = x.sequence]
      /\ shown' = [display EXCEPT ![t] = x.boot]
      /\ lastItem' = [before EXCEPT ![t] = <<x>>]
      /\ lost' = IF before[t] = <<>> \/ before[t][1].boot # x.boot
                 THEN lost
                 ELSE [lost EXCEPT
                          ![t] = @ + x.serial - before[t][1].serial - 1]
      /\ hidden' = (hidden \/ \E u \in MessageType :
                        before[u] # <<>> /\ before[u][1].boot # x.boot)
  BY DEF Accept, ShownBefore
<1>2. /\ UNCHANGED <<boot, made, nextSequence, nextLocalState, fcNext,
                     decoded, pc, pending, queue>>
      /\ Len(hand') = 0
  BY DEF esp
<1>3. x \in ExportItem /\ Sound(x, boot, made, fcNext.number) /\ Unseen(x, lastItem, fc)
  BY NonEmptyFacts DEF IInv, QueueType, BooksInv, LineIsSound, Waits
<1>4. /\ t \in MessageType /\ x.sequence \in 0 .. M - 1
      /\ x.timestamp \in 0 .. MaxUptime /\ x.packet \in FcPacket
      /\ x.serial \in Nat /\ x.boot \in 1 .. MaxBoots
      /\ M \in Nat \ {0} /\ FcModulus \in Nat \ {0}
  BY <1>3, PcBridgeAssumption DEF ExportItem
<1>5. /\ lastItem \in [MessageType -> Seq(ExportItem)]
      /\ lastSequence \in [MessageType -> -1 .. M - 1]
      /\ shown \in [MessageType -> 0 .. MaxBoots]
      /\ gaps \in [MessageType -> Nat] /\ lost \in [MessageType -> Nat]
      /\ hidden \in BOOLEAN
  BY DEF BooksInv, PcType
<1>6. /\ \A u \in MessageType :
            \/ before[u] = <<>> /\ previous[u] = -1 /\ display[u] = 0
            \/ /\ before[u] = lastItem[u] /\ previous[u] = lastSequence[u]
               /\ display[u] = shown[u]
      /\ known = NoFcPacket \/ known = fc
      /\ before \in [MessageType -> Seq(ExportItem)]
      /\ previous \in [MessageType -> -1 .. M - 1]
      /\ display \in [MessageType -> 0 .. MaxBoots]
  <2>1. CASE restarted
    <3>1. /\ before = [u \in MessageType |-> <<>>] /\ previous = None
          /\ display = Zero /\ known = NoFcPacket
      BY <2>1
    <3>2. previous \in [MessageType -> -1 .. M - 1]
          /\ \A u \in MessageType : previous[u] = -1
      BY <1>4, <3>1 DEF None
    <3>3. display \in [MessageType -> 0 .. MaxBoots]
          /\ \A u \in MessageType : display[u] = 0
      BY <3>1, PcBridgeAssumption DEF Zero
    <3>4. before \in [MessageType -> Seq(ExportItem)]
          /\ \A u \in MessageType : before[u] = <<>>
      <4> DEFINE e == <<>>
      <4>1. e \in Seq(ExportItem)
        OBVIOUS
      <4>2. before = [u \in MessageType |-> e]
        BY <3>1
      <4> HIDE DEF e, before
      <4>3. before \in [MessageType -> Seq(ExportItem)]
            /\ \A u \in MessageType : before[u] = e
        BY ONLY <4>1, <4>2
      <4> QED
        BY <4>3, Zenon DEF e
    <3> QED
      BY <3>1, <3>2, <3>3, <3>4, Zenon
  <2>2. CASE ~restarted
    <3>1. /\ before = lastItem /\ previous = lastSequence
          /\ display = shown /\ known = fc
      BY <2>2
    <3> QED
      BY <1>5, <3>1, Zenon
  <2> QED
    BY <2>1, <2>2
<1> HIDE DEF x, t, restarted, previous, before, known, display
<1>7. PcType'
  <2>1. lost' \in [MessageType -> Nat]
    <3>1. CASE before[t] = <<>> \/ before[t][1].boot # x.boot
      BY <1>1, <1>5, <3>1
    <3>2. CASE before[t] # <<>> /\ before[t][1].boot = x.boot
      <4>1. before[t] = lastItem[t]
        BY <1>4, <1>6, <3>2
      <4>2. lastItem[t][1].serial < x.serial
        BY <1>3, <3>2, <4>1 DEF Unseen, t
      <4>3. lastItem[t][1].serial \in Nat
        BY <1>4, <3>2, <4>1 DEF BooksInv, Accepted, ExportItem
      <4>4. lost[t] \in Nat
        BY ONLY <1>4, <1>5
      <4>5. lost[t] + x.serial - before[t][1].serial - 1 \in Nat
        BY ONLY <1>4, <4>1, <4>2, <4>3, <4>4
      <4>6. lost' = [lost EXCEPT
                        ![t] = lost[t] + x.serial - before[t][1].serial - 1]
        BY <1>1, <3>2
      <4> QED
        BY ONLY <1>5, <4>5, <4>6
    <3> QED
      BY <3>1, <3>2
  <2>2. gaps' \in [MessageType -> Nat]
    <3>1. Gap(x.sequence, previous[t]) \in Nat
      BY <1>4, <1>6 DEF Gap
    <3> QED
      BY <1>1, <1>4, <1>5, <3>1, SMTT(30)
  <2>3. hidden' \in BOOLEAN
    BY <1>1, Zenon
  <2>4. lastSequence' \in [MessageType -> -1 .. M - 1]
    BY <1>1, <1>4, <1>6
  <2>5. shown' \in [MessageType -> 0 .. MaxBoots]
    BY <1>1, <1>4, <1>6
  <2>6. lastItem' \in [MessageType -> Seq(ExportItem)]
    <3>1. <<x>> \in Seq(ExportItem)
      BY <1>3
    <3> QED
      BY <1>1, <1>6, <3>1
  <2>7. /\ nextLocalState' \in Nat /\ lastTimestamp' \in -1 .. MaxUptime
        /\ pc' \in {"receive", "status", "sleep", "discard", "resend"}
    BY <1>1, <1>2, <1>4 DEF BooksInv, PcType
  <2> QED
    BY <2>1, <2>2, <2>3, <2>4, <2>5, <2>6, <2>7 DEF PcType
<1>8. NumberedFromSerial'
  BY <1>2 DEF BooksInv, NumberedFromSerial
<1>9. /\ lastItem'[t] = <<x>> /\ lastSequence'[t] = x.sequence
      /\ shown'[t] = x.boot
      /\ \A u \in MessageType \ {t} :
            /\ lastItem'[u] = before[u] /\ lastSequence'[u] = previous[u]
            /\ shown'[u] = display[u]
  BY <1>1, <1>4, <1>6
<1>10. ASSUME NEW u \in MessageType PROVE Accepted(u)'
  <2>1. CASE u = t
    <3>1. lastItem'[u] # <<>> /\ lastItem'[u][1] = x
      <4>1. <<x>> # <<>> /\ <<x>>[1] = x
        OBVIOUS
      <4> QED
        BY <1>9, <2>1, <4>1, Zenon
    <3>2. x.boot = boot' /\ x.sequence = x.serial % M /\ x.serial < made'[t]
      BY <1>2, <1>3 DEF Sound, t
    <3>3. x.boot <= boot'
      BY <1>4, <3>2
    <3> QED
      BY <1>3, <1>9, <2>1, <3>1, <3>2, <3>3 DEF Accepted, t
  <2>2. CASE u # t
    <3>1. \/ /\ lastItem'[u] = <<>> /\ lastSequence'[u] = -1
             /\ shown'[u] = 0
          \/ /\ lastItem'[u] = lastItem[u] /\ shown'[u] = shown[u]
             /\ lastSequence'[u] = lastSequence[u]
      BY <1>6, <1>9, <2>2
    <3>2. Accepted(u)
      BY DEF BooksInv
    <3> QED
      BY <1>2, <3>1, <3>2 DEF Accepted
  <2> QED
    BY <2>1, <2>2
<1>11. /\ known \in FcBook /\ BookCounts(known)
       /\ BookFollows(known, fcNext.number)
       /\ t = "RAW_BAYANG" => BookFollows(known, x.packet.number)
  <2>1. CASE known = NoFcPacket
    BY <2>1, EmptyBook DEF FcProtocol
  <2>2. CASE known = fc
    BY <1>3, <2>2 DEF BooksInv, BookIsSound, BookFollows, Unseen, t
  <2> QED
    BY <1>6, <2>1, <2>2
<1>12. /\ BookIsSound(fc)'
       /\ t = "RAW_BAYANG" /\ fc'.last # -1 => fc'.packet = x.packet.number
       /\ t # "RAW_BAYANG" => fc' = known
  <2>1. CASE t = "RAW_BAYANG"
    <3> DEFINE after == Parsed(known, x.packet)
    <3>1. /\ fcNext.number \in Nat /\ x.packet.number \in Nat
          /\ x.packet.number < fcNext.number
          /\ x.packet.start <= x.packet.number
      BY <1>3, <1>4, <2>1 DEF IInv, QueueType, FcPacket, Sound, t
    <3>2. /\ after \in FcBook /\ BookFollows(after, x.packet.number + 1)
          /\ BookCounts(after)
          /\ after.last # -1 => after.packet = x.packet.number
      BY <1>4, <1>11, <2>1, <3>1, ParseKeeps, Zenon
    <3>3. fc' = after
      BY <1>1, <2>1
    <3> HIDE DEF after
    <3>4. BookFollows(after, fcNext.number)
      BY <3>1, <3>2, FollowsLater
    <3> QED
      BY <1>2, <2>1, <3>2, <3>3, <3>4 DEF BookIsSound
  <2>2. CASE t # "RAW_BAYANG"
    <3>1. fc' = known
      BY <1>1, <2>2
    <3> QED
      BY <1>2, <1>11, <2>2, <3>1 DEF BookIsSound
  <2> QED
    BY <2>1, <2>2
<1>13. BookIsSound(decoded)'
  BY <1>2 DEF BooksInv, BookIsSound
<1>14. ASSUME NEW y \in ExportItem, Unseen(y, lastItem, fc), Precedes(x, y)
       PROVE  Unseen(y, lastItem', fc')
  <2>1. y.type \in MessageType /\ y.serial \in Nat
    BY DEF ExportItem
  <2>2. CASE y.type = t
    <3>1. /\ x.serial < y.serial
          /\ t = "RAW_BAYANG" => x.packet.number < y.packet.number
      BY <1>14, <2>2 DEF Precedes, t
    <3>2. lastItem'[y.type][1] = x
      BY <1>9, <2>2
    <3> QED
      BY <1>12, <2>2, <3>1, <3>2 DEF Unseen
  <2>3. CASE y.type # t
    <3>1. lastItem'[y.type] = <<>> \/ lastItem'[y.type] = lastItem[y.type]
      BY <1>6, <1>9, <2>1, <2>3
    <3>2. y.type = "RAW_BAYANG" => fc' = NoFcPacket \/ fc' = fc
      BY <1>6, <1>12, <2>3
    <3>3. NoFcPacket.last = -1
      BY DEF NoFcPacket
    <3> QED
      BY <1>14, <3>1, <3>2, <3>3 DEF Unseen
  <2> QED
    BY <2>2, <2>3
<1>15. LineIsSound' /\ LineIsOrdered'
  <2>1. /\ \A i \in 1 .. Len(queue) :
              queue[i] \in ExportItem /\ Waits(queue[i]) /\ Precedes(x, queue[i])
        /\ \A i \in 1 .. Len(pending) :
              /\ pending[i] \in ExportItem /\ Waits(pending[i])
              /\ Precedes(x, pending[i])
    BY DEF IInv, QueueType, BooksInv, LineIsSound, LineIsOrdered, x
  <2>2. /\ \A i \in 1 .. Len(queue) :
              /\ Sound(queue[i], boot', made', fcNext'.number)
              /\ Unseen(queue[i], lastItem', fc')
        /\ \A i \in 1 .. Len(pending) :
              /\ Sound(pending[i], boot', made', fcNext'.number)
              /\ Unseen(pending[i], lastItem', fc')
    BY <1>2, <1>14, <2>1 DEF Waits
  <2>3. LineIsSound'
    BY <1>2, <2>2 DEF LineIsSound, Waits
  <2>4. LineIsOrdered'
    BY <1>2 DEF BooksInv, LineIsOrdered
  <2> QED
    BY <2>3, <2>4
<1>16. ASSUME ~hidden', NEW u \in MessageType
       PROVE  CountsLosses(gaps'[u], lost'[u], M)
  <2>1. ~hidden /\ (before[t] = <<>> \/ before[t][1].boot = x.boot)
    BY <1>1, <1>4, <1>16, Zenon
  <2>2. CountsLosses(gaps[u], lost[u], M)
    BY <2>1 DEF BooksInv
  <2>3. CASE u # t
    BY <1>1, <1>4, <1>5, <2>2, <2>3
  <2>4. CASE u = t /\ before[t] = <<>>
    <3>1. previous[t] = -1
      BY <1>4, <1>6, <2>4 DEF BooksInv, Accepted
    <3>2. gaps'[t] = gaps[t] /\ lost' = lost
      BY <1>1, <1>4, <1>5, <2>4, <3>1 DEF Gap
    <3> QED
      BY <2>2, <2>4, <3>2
  <2>5. CASE u = t /\ before[t] # <<>> /\ before[t][1].boot = x.boot
    <3>1. before[t] = lastItem[t] /\ previous[t] = lastSequence[t]
      BY <1>4, <1>6, <2>5
    <3> DEFINE z == lastItem[t][1]
               g == ((x.serial % M) - (z.serial % M) - 1) % M
    <3>2. /\ z \in ExportItem /\ lastSequence[t] = z.serial % M
          /\ lastSequence[t] = z.sequence
      BY <1>4, <2>5, <3>1 DEF BooksInv, Accepted
    <3>3. z.serial \in Nat /\ z.sequence \in 0 .. M - 1
      BY <3>2 DEF ExportItem
    <3>4. z.serial < x.serial
      BY <1>3, <2>5, <3>1 DEF Unseen, t
    <3>5. x.sequence = x.serial % M
      BY <1>3 DEF Sound
    <3>6. Gap(x.sequence, previous[t]) = g
      <4>1. previous[t] # -1
        BY <1>4, <3>1, <3>2, <3>3
      <4>2. previous[t] = z.serial % M
        BY <3>1, <3>2
      <4> HIDE DEF z
      <4> QED
        BY <3>5, <4>1, <4>2 DEF Gap
    <3> HIDE DEF z
    <3>7. gaps'[t] = gaps[t] + g
      BY <1>1, <1>4, <1>5, <3>6
    <3>8. lost'[t] = lost[t] + x.serial - z.serial - 1
      BY <1>1, <1>4, <1>5, <2>5, <3>1 DEF z
    <3>9. gaps[t] \in Nat /\ lost[t] \in Nat
      BY <1>4, <1>5
    <3>10. CountsLosses(gaps[t] + g, lost[t] + x.serial - z.serial - 1, M)
      BY <1>4, <2>2, <2>5, <3>3, <3>4, <3>9, CountsMore
    <3> QED
      BY <2>5, <3>7, <3>8, <3>10
  <2> QED
    BY <2>1, <2>3, <2>4, <2>5
<1> QED
  BY <1>7, <1>8, <1>10, <1>12, <1>13, <1>15, <1>16 DEF BooksInv

\* A record is written: it arrives or is lost on the line.
LEMMA WriteBooks ==
    ASSUME IInv, BooksInv, NEW arrives \in BOOLEAN, ExportWrite(arrives)
    PROVE  BooksInv'
<1>1. Len(hand) = 1
  <2> DEFINE n == Len(hand)
  <2>1. n \in Nat /\ n # 0 /\ n <= 1
    BY NonEmptyFacts DEF IInv, QueueType, ExportWrite
  <2> HIDE DEF n
  <2>2. n = 1
    BY <2>1
  <2> QED
    BY <2>2 DEF n
<1>2. hand' = <<>> /\ UNCHANGED <<esp, pc, pending, queue>>
  BY DEF ExportWrite
<1>3. CASE arrives
  BY <1>1, <1>2, <1>3, AcceptBooks DEF ExportWrite
<1>4. CASE ~arrives
  <2>1. UNCHANGED <<boot, made, nextSequence, nextLocalState, fcNext,
                    decoded, pcSide, pending, queue, pc, lastItem, fc>>
        /\ Len(hand') = 0
    BY <1>2, <1>4 DEF ExportWrite, esp, pcSide
  <2>2. LineIsSound' /\ LineIsOrdered'
    BY <2>1 DEF BooksInv, LineIsSound, LineIsOrdered, Waits
  <2>3. pc' \in {"receive", "status", "sleep", "discard", "resend"}
    BY <2>1 DEF BooksInv, PcType
  <2> QED
    BY <2>1, <2>2, <2>3, MoveBooks
<1> QED
  BY <1>3, <1>4

\* BooksInv is an invariant of the bridge.
THEOREM BooksInvariance == Spec => []BooksInv
<1>1. IInv /\ BooksInv /\ [Next]_vars => BooksInv'
  <2> SUFFICES ASSUME IInv, BooksInv, [Next]_vars PROVE BooksInv'
    OBVIOUS
  <2>1. CASE Reboot
    BY <2>1, RebootBooks
  <2>2. CASE PublishBayang \/ PublishLocalState
    BY <2>2, PublishBooks
  <2>3. CASE NoTelemetry \/ NoLocalState \/ Sleep \/ FcRestart
    BY <2>3, IdleBooks
  <2>4. CASE Discard \/ Resend \/ ExportReceive
    BY <2>4, DiscardBooks, ResendBooks, ReceiveBooks
  <2>5. CASE \E arrives \in BOOLEAN : ExportWrite(arrives)
    BY <2>5, WriteBooks
  <2>6. CASE UNCHANGED vars
    <3>1. UNCHANGED <<boot, made, nextSequence, nextLocalState, fcNext,
                      decoded, pcSide, pending, queue, hand, pc, lastItem,
                      fc>>
      BY <2>6 DEF vars, esp, pcSide
    <3>2. LineIsSound' /\ LineIsOrdered'
      BY <3>1 DEF BooksInv, LineIsSound, LineIsOrdered, Waits
    <3>3. pc' \in {"receive", "status", "sleep", "discard", "resend"}
      BY <3>1 DEF BooksInv, PcType
    <3> QED
      BY <3>1, <3>2, <3>3, MoveBooks
  <2> QED
    BY <2>1, <2>2, <2>3, <2>4, <2>5, <2>6 DEF Next, ControlTask, ExportTask
<1> QED
  BY <1>1, InitBooks, Invariance, PTL DEF Spec

\* Every variable stays in its type, the queue within EXPORT_QUEUE_LENGTH.
THEOREM TypeCorrect == Spec => []TypeOK
<1>1. IInv /\ BooksInv => TypeOK
  <2> SUFFICES ASSUME IInv, BooksInv PROVE TypeOK
    OBVIOUS
  <2>1. Len(pending) <= 1
    BY DEF IInv, EnqueueStep
  <2> QED
    BY <2>1 DEF IInv, QueueType, BooksInv, PcType, BookIsSound, TypeOK
<1> QED
  BY <1>1, Invariance, BooksInvariance, PTL

\* For every range of the two sequence numbers: the counters of missed records
\* count losses, up to whole turns of their range, as long as no reboot went
\* unnoticed; the counters of missed flight controller packets do so until the
\* flight controller restarts, and each restart adds less than one turn to
\* them that was no loss.
THEOREM GapsCountLosses == Spec => []GapsAreLosses
<1>1. BooksInv => GapsAreLosses
  BY DEF BooksInv, BookIsSound, BookCounts, GapsAreLosses
<1> QED
  BY <1>1, BooksInvariance, PTL

\* What is displayed of each type is of the boot of its last accepted record,
\* so that a restart which is noticed leaves one boot on display.
OneBoot == ~hidden => \A t, u \in MessageType :
               lastItem[t] # <<>> /\ lastItem[u] # <<>> =>
                   lastItem[t][1].boot = lastItem[u][1].boot

\* After an unhidden reboot all that is displayed is of one boot.
THEOREM OneBootDisplayed == Spec => []OneBootOnDisplay
<1>1. Init => OneBoot
  BY DEF Init, OneBoot
<1>2. IInv /\ BooksInv /\ OneBoot /\ [Next]_vars => OneBoot'
  <2> SUFFICES ASSUME IInv, BooksInv, OneBoot, [Next]_vars PROVE OneBoot'
    OBVIOUS
  <2>1. CASE UNCHANGED pcSide
    BY <2>1 DEF OneBoot, pcSide
  <2>2. CASE ExportWrite(TRUE)
    <3> DEFINE x == hand[1]
               restarted == lastTimestamp # -1 /\ x.timestamp < lastTimestamp
               before == IF restarted THEN [u \in MessageType |-> <<>>]
                         ELSE lastItem
    <3>1. /\ lastItem' = [before EXCEPT ![x.type] = <<x>>]
          /\ hidden' = (hidden \/ \E u \in MessageType :
                            before[u] # <<>> /\ before[u][1].boot # x.boot)
      BY <2>2 DEF ExportWrite, Accept
    <3>2. before \in [MessageType -> Seq(ExportItem)]
      BY DEF BooksInv, PcType
    <3> HIDE DEF before, restarted
    <3>3. ASSUME ~hidden', NEW u \in MessageType, lastItem'[u] # <<>>
          PROVE  lastItem'[u][1].boot = x.boot
      <4>1. CASE u = x.type
        BY <3>1, <3>2, <4>1
      <4>2. CASE u # x.type
        <5>1. lastItem'[u] = before[u]
          BY <3>1, <3>2, <4>2
        <5> QED
          BY <3>1, <3>3, <5>1, Zenon
      <4> QED
        BY <4>1, <4>2
    <3> QED
      BY <3>3 DEF OneBoot
  <2> QED
    BY <2>1, <2>2
    DEF Next, ControlTask, ExportTask, Reboot, PublishBayang, Publish,
        PublishLocalState, NoTelemetry, NoLocalState, Sleep, Discard, Resend,
        ExportReceive, ExportWrite, FcRestart, vars
<1>3. BooksInv /\ OneBoot => OneBootOnDisplay
  <2> SUFFICES ASSUME BooksInv, OneBoot, ~hidden,
                      NEW t \in MessageType, NEW u \in MessageType,
                      shown[t] # 0, shown[u] # 0
               PROVE  shown[t] = shown[u]
    BY DEF OneBootOnDisplay
  <2> QED
    BY DEF BooksInv, Accepted, OneBoot
<1> QED
  BY <1>1, <1>2, <1>3, Invariance, BooksInvariance, PTL DEF Spec
=============================================================================
