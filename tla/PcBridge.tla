------------------------------ MODULE PcBridge ------------------------------
(***************************************************************************)
(* The PC telemetry bridge: the export queue of the transmitter            *)
(* (main/telemetry/pc_telemetry_export.cpp), filled by the control task    *)
(* and emptied by the export task, the serial line, and the receiver's     *)
(* bookkeeping, TelemetryModel.accept in                                   *)
(* tools/ground_station/ground_station.py.  The flight controller numbers  *)
(* its extended packets with a nibble, from which both the transmitter     *)
(* (main/telemetry/telemetry.cpp) and the ground station count the ones    *)
(* they missed.  The transmitter may reboot and the flight controller may  *)
(* be switched off and on, or exchanged for one with another protocol, at  *)
(* any moment; neither is told of the other.                               *)
(*                                                                         *)
(* A record is what framing preserves of it: type, sequence number and     *)
(* timestamp.  The line loses records (noise fails the CRC, the cable is   *)
(* unplugged) and keeps their order.  The calls on the queue are atomic    *)
(* and interleave freely; that the export task has the lower priority on   *)
(* the same core is not used.                                              *)
(***************************************************************************)
EXTENDS Integers, Sequences

CONSTANTS
    EXPORT_QUEUE_LENGTH,
    LOCAL_STATE_PERIOD,   \* PC_TELEMETRY_LOCAL_STATE_PERIOD_US, in iterations
    SequenceModulus,      \* 2^16: the range of a sequence number
    FcModulus,            \* 2^4: the range of the flight controller's
    MaxUptime,            \* bound: iterations of the control task per boot
    MaxBoots,             \* bound: boots
    MaxPackets            \* bound: packets of the flight controller

ASSUME PcBridgeAssumption ==
    /\ EXPORT_QUEUE_LENGTH \in Nat \ {0}
    /\ LOCAL_STATE_PERIOD \in Nat \ {0}
    /\ SequenceModulus \in Nat \ {0}
    /\ FcModulus \in Nat \ {0}
    /\ MaxUptime \in Nat
    /\ MaxBoots \in Nat \ {0}
    /\ MaxPackets \in Nat

MessageType == {"RAW_BAYANG", "LOCAL_STATE"}
FcProtocol == {"Original", "ExtendedV1"}

\* A packet of the flight controller: its first byte tells the protocol; number
\* counts all its packets and start is the first since it was switched on, from
\* which the nibble follows (FcSequence).
FcPacket == [protocol: FcProtocol, number: Nat, start: Nat]

\* "packet" is the packet that a RAW_BAYANG record carries.  The last three
\* fields are history: the record's number among all records and among those
\* of its type, and the boot it was made in.
ExportItem == [type: MessageType, sequence: 0 .. SequenceModulus - 1,
               timestamp: 0 .. MaxUptime, packet: FcPacket, number: Nat,
               serial: Nat, boot: 1 .. MaxBoots]

\* What a decoder keeps of the flight controller's packets: protocol,
\* last_sequence, -1 when has_sequence is not set, and telemetryPacketsLost; as
\* history, the last packet's number and start, how many packets were missed
\* since the first, and how often the flight controller had restarted.
FcBook == [protocol: FcProtocol, last: -1 .. FcModulus - 1, counted: Nat,
           packet: Nat, start: Nat, missed: Nat, restarts: Nat]

VARIABLES
    boot,            \* history: number of the current boot
    ready,           \* export_queue # nullptr
    pc,              \* control task: where it is in its iteration
    fcNext,          \* flight controller: the packet it sends next
    decoded,         \* telemetry.cpp: its FcBook
    uptime,          \* control task: iterations since boot, its clock
    nextLocalState,  \* control task: next_local_state_us
    nextSequence,    \* next_bayang_sequence, next_local_state_sequence
    made,            \* history: records published since boot, per type
    pending,         \* the record being enqueued, as a sequence
    queue,           \* export_queue
    drops,           \* export_queue_drops
    hand,            \* export task: the record it took, as a sequence
    written,         \* history: records written to the line since boot
    lastSequence,    \* PC: _last_sequence; -1 when there is none
    lastTimestamp,   \* PC: _last_esp_timestamp; -1 when there is none
    fc,              \* PC: the FcBook of FcTelemetry
    gaps,            \* PC: type1_sequence_gaps, type2_sequence_gaps
    shown,           \* PC: boot of the data displayed, per type; 0 if none
    lastItem,        \* history: last record accepted per type, as a sequence
    lost,            \* history: records missing between accepted records
    hidden           \* history: a reboot went unnoticed

esp == <<boot, ready, uptime, nextLocalState, nextSequence, made, drops,
         decoded, fcNext>>
pcSide == <<lastSequence, lastTimestamp, fc, gaps, shown, lastItem, lost,
            hidden>>
vars == <<esp, pc, pending, queue, hand, written, pcSide>>

\* Records published since boot.
Total == made["RAW_BAYANG"] + made["LOCAL_STATE"]

None == [t \in MessageType |-> -1]
Zero == [t \in MessageType |-> 0]

-----------------------------------------------------------------------------
(* The flight controller's packets and their sequence nibble.               *)

\* telemetry_init and clear_extended_data; a new FcTelemetry, whose protocol is
\* "Never": either way no extended packet is known.
NoFcPacket == [protocol |-> "Original", last |-> -1, counted |-> 0,
               packet |-> 0, start |-> 0, missed |-> 0, restarts |-> 0]

\* The nibble of an extended packet: it restarts with the flight controller.
FcSequence(p) == (p.number - p.start) % FcModulus

\* parse_extended, and the second half of FcTelemetry.update alike:
\* (sequence - expected) & 0x0F is added for every packet but the first.
parse_extended(book, p) ==
    LET first == book.last = -1
        gap == (FcSequence(p) - (book.last + 1)) % FcModulus
    IN  [protocol |-> p.protocol,
         last |-> FcSequence(p),
         counted |-> IF first THEN 0 ELSE book.counted + gap,
         packet |-> p.number,
         start |-> p.start,
         missed |-> IF first THEN 0 ELSE book.missed + p.number - book.packet - 1,
         restarts |-> IF first THEN 0
                      ELSE book.restarts + IF p.start = book.start THEN 0 ELSE 1]

\* telemetry_parse and FcTelemetry.update: another protocol clears the book;
\* packets of the original protocol have no number.
Parsed(book, p) ==
    LET known == IF p.protocol = book.protocol THEN book
                 ELSE [NoFcPacket EXCEPT !.protocol = p.protocol]
    IN  IF p.protocol = "ExtendedV1" THEN parse_extended(known, p) ELSE known

\* The flight controller may send another packet.
Sending == fcNext.number < MaxPackets

\* The packet after p.
Following(p) == [p EXCEPT !.number = @ + 1]

\* The flight controller is switched off and on, or another one answers.  It
\* matters for its next packet only: one that has sent nothing yet need not
\* restart, and nobody looks at it but where an answer may come.
FcRestart ==
    /\ pc = "receive" /\ Sending /\ fcNext.start < fcNext.number
    /\ \E p \in FcProtocol :
          fcNext' = [fcNext EXCEPT !.protocol = p, !.start = fcNext.number]
    /\ UNCHANGED <<boot, ready, pc, uptime, nextLocalState, nextSequence, made,
                   drops, decoded, pending, queue, hand, written, pcSide>>

-----------------------------------------------------------------------------
(* Boot.                                                                    *)

\* pc_telemetry_export_init: without memory for the queue or the task the
\* export stays off.
Booted(b, r) ==
    /\ boot = b /\ ready = r
    /\ pc = "receive" /\ uptime = 0 /\ nextLocalState = 0
    /\ nextSequence = Zero /\ made = Zero /\ drops = 0
    /\ decoded = NoFcPacket
    /\ pending = <<>> /\ queue = <<>> /\ hand = <<>> /\ written = 0

Init ==
    /\ \E r \in BOOLEAN : Booted(1, r)
    /\ \E p \in FcProtocol :
          fcNext = [protocol |-> p, number |-> 0, start |-> 0]
    /\ lastSequence = None /\ lastTimestamp = -1 /\ fc = NoFcPacket
    /\ gaps = Zero /\ shown = Zero
    /\ lastItem = [t \in MessageType |-> <<>>] /\ lost = Zero
    /\ hidden = FALSE

Reboot ==
    /\ boot < MaxBoots
    /\ boot' = boot + 1
    /\ ready' \in BOOLEAN
    /\ pc' = "receive" /\ uptime' = 0 /\ nextLocalState' = 0
    /\ nextSequence' = Zero /\ made' = Zero /\ drops' = 0
    /\ decoded' = NoFcPacket
    /\ pending' = <<>> /\ queue' = <<>> /\ hand' = <<>> /\ written' = 0
    /\ UNCHANGED <<fcNext, pcSide>>

-----------------------------------------------------------------------------
(* The producer: one iteration of the control task publishes a telemetry    *)
(* packet if it received one, then the local state if it is due.            *)

\* The step of the iteration that follows a record of type t.
After(t) == IF t = "RAW_BAYANG" THEN "status" ELSE "sleep"

\* The sequence number after n, in a uint16_t.
Successor(n) == (n + 1) % SequenceModulus

\* Number a record of type t, holding packet p, and call enqueue: the first
\* xQueueSend.
Publish(t, p) ==
    LET item == [type |-> t, sequence |-> nextSequence[t],
                 timestamp |-> uptime, packet |-> p, number |-> Total,
                 serial |-> made[t], boot |-> boot]
    IN  /\ nextSequence' = [nextSequence EXCEPT ![t] = Successor(@)]
        /\ made' = [made EXCEPT ![t] = @ + 1]
        /\ \/ /\ ~ready
              /\ pc' = After(t)
              /\ UNCHANGED <<queue, pending>>
           \/ /\ ready /\ Len(queue) < EXPORT_QUEUE_LENGTH
              /\ queue' = Append(queue, item)
              /\ pc' = After(t)
              /\ UNCHANGED pending
           \/ /\ ready /\ Len(queue) = EXPORT_QUEUE_LENGTH
              /\ pending' = <<item>>
              /\ pc' = "discard"
              /\ UNCHANGED queue
        /\ UNCHANGED <<boot, ready, uptime, drops, hand, written, pcSide>>

\* The flight controller answers and the answer is received.
PublishBayang ==
    /\ pc = "receive" /\ Sending
    /\ Publish("RAW_BAYANG", fcNext)
    /\ fcNext' = Following(fcNext)
    /\ decoded' = Parsed(decoded, fcNext)
    /\ UNCHANGED nextLocalState

\* It sends no answer, or the answer is lost on the air.
NoTelemetry ==
    /\ pc = "receive"
    /\ pc' = "status"
    /\ \/ UNCHANGED fcNext
       \/ Sending /\ fcNext' = Following(fcNext)
    /\ UNCHANGED <<boot, ready, uptime, nextLocalState, nextSequence, made,
                   drops, decoded, pending, queue, hand, written, pcSide>>

\* pc_telemetry_local_state_due.
LocalStateDue == uptime >= nextLocalState

\* What a record of the local state carries of the flight controller.
NoPacket == [protocol |-> "Original", number |-> 0, start |-> 0]

PublishLocalState ==
    /\ pc = "status"
    /\ LocalStateDue
    /\ nextLocalState' = uptime + LOCAL_STATE_PERIOD
    /\ Publish("LOCAL_STATE", NoPacket)
    /\ UNCHANGED <<decoded, fcNext>>

NoLocalState ==
    /\ pc = "status"
    /\ ~LocalStateDue
    /\ pc' = "sleep"
    /\ UNCHANGED <<esp, pending, queue, hand, written, pcSide>>

Sleep ==
    /\ pc = "sleep"
    /\ uptime < MaxUptime
    /\ uptime' = uptime + 1
    /\ pc' = "receive"
    /\ UNCHANGED <<boot, ready, nextLocalState, nextSequence, made, drops,
                   decoded, fcNext, pending, queue, hand, written, pcSide>>

\* Wrong variant: the newest record of the queue is discarded.
Discarded_Newest == SubSeq(queue, 1, Len(queue) - 1)

\* The queue after enqueue has made room: its oldest record is discarded.
Discarded == Tail(queue)

\* enqueue, queue full: the xQueueReceive, which finds the queue empty if the
\* export task has taken everything meanwhile.
Discard ==
    /\ pc = "discard"
    /\ \/ /\ queue # <<>>
          /\ queue' = Discarded
          /\ drops' = drops + 1
       \/ /\ queue = <<>>
          /\ UNCHANGED <<queue, drops>>
    /\ pc' = "resend"
    /\ UNCHANGED <<boot, ready, uptime, nextLocalState, nextSequence, made,
                   decoded, fcNext, pending, hand, written, pcSide>>

\* Wrong variant: the record is not sent again.
Requeued_Forgotten == queue

\* The queue after the second xQueueSend, whose result is not looked at.
Requeued == IF Len(queue) < EXPORT_QUEUE_LENGTH
            THEN Append(queue, pending[1]) ELSE queue

\* enqueue, queue full: the second xQueueSend.
Resend ==
    /\ pc = "resend"
    /\ queue' = Requeued
    /\ pending' = <<>>
    /\ pc' = After(pending[1].type)
    /\ UNCHANGED <<esp, hand, written, pcSide>>

-----------------------------------------------------------------------------
(* The consumer.                                                            *)

ExportReceive ==
    /\ hand = <<>> /\ queue # <<>>
    /\ hand' = <<Head(queue)>>
    /\ queue' = Tail(queue)
    /\ UNCHANGED <<esp, pc, pending, written, pcSide>>

\* Wrong variant: one missing record is not counted.
Gap_OffByOne(sequence, previous) ==
    IF previous = -1 THEN 0 ELSE (sequence - previous) % SequenceModulus

\* The records skipped before this one: (sequence - previous - 1) & 0xFFFF.
Gap(sequence, previous) ==
    IF previous = -1 THEN 0 ELSE (sequence - previous - 1) % SequenceModulus

\* Wrong variant: the data of the other type stays on display.
ShownBefore_Keep(restarted) == shown

\* What is still on display when a record is accepted: on a restart both the
\* flight controller's and the transmitter's data are cleared.
ShownBefore(restarted) == IF restarted THEN Zero ELSE shown

\* TelemetryModel.accept.
Accept(item) ==
    LET t == item.type
        restarted == lastTimestamp # -1 /\ item.timestamp < lastTimestamp
        previous == IF restarted THEN None ELSE lastSequence
        before == IF restarted THEN [u \in MessageType |-> <<>>] ELSE lastItem
        known == IF restarted THEN NoFcPacket ELSE fc
    IN  /\ lastTimestamp' = item.timestamp
        /\ fc' = IF t = "RAW_BAYANG" THEN Parsed(known, item.packet) ELSE known
        /\ gaps' = [gaps EXCEPT ![t] = @ + Gap(item.sequence, previous[t])]
        /\ lastSequence' = [previous EXCEPT ![t] = item.sequence]
        /\ shown' = [ShownBefore(restarted) EXCEPT ![t] = item.boot]
        /\ lastItem' = [before EXCEPT ![t] = <<item>>]
        /\ lost' = IF before[t] = <<>> \/ before[t][1].boot # item.boot
                   THEN lost
                   ELSE [lost EXCEPT
                            ![t] = @ + item.serial - before[t][1].serial - 1]
        /\ hidden' = (hidden \/ \E u \in MessageType :
                          before[u] # <<>> /\ before[u][1].boot # item.boot)

\* export_task writes the frame; it reaches the PC intact or not at all.
ExportWrite(arrives) ==
    /\ hand # <<>>
    /\ hand' = <<>>
    /\ written' = written + 1
    /\ IF arrives THEN Accept(hand[1]) ELSE UNCHANGED pcSide
    /\ UNCHANGED <<esp, pc, pending, queue>>

-----------------------------------------------------------------------------

ControlTask == \/ PublishBayang \/ NoTelemetry
               \/ PublishLocalState \/ NoLocalState
               \/ Sleep \/ Discard \/ Resend
ExportTask == ExportReceive \/ \E arrives \in BOOLEAN : ExportWrite(arrives)

Next == ControlTask \/ ExportTask \/ Reboot \/ FcRestart

Spec == Init /\ [][Next]_vars

-----------------------------------------------------------------------------
(* Properties.                                                              *)

\* Every variable stays in its type; the queue within its length.
TypeOK ==
    /\ boot \in 1 .. MaxBoots /\ ready \in BOOLEAN
    /\ pc \in {"receive", "status", "sleep", "discard", "resend"}
    /\ uptime \in 0 .. MaxUptime /\ nextLocalState \in Nat
    /\ nextSequence \in [MessageType -> 0 .. SequenceModulus - 1]
    /\ made \in [MessageType -> Nat] /\ drops \in Nat /\ written \in Nat
    /\ pending \in Seq(ExportItem) /\ Len(pending) <= 1
    /\ queue \in Seq(ExportItem) /\ Len(queue) <= EXPORT_QUEUE_LENGTH
    /\ hand \in Seq(ExportItem) /\ Len(hand) <= 1
    /\ lastSequence \in [MessageType -> -1 .. SequenceModulus - 1]
    /\ lastTimestamp \in -1 .. MaxUptime
    /\ fcNext \in FcPacket /\ decoded \in FcBook /\ fc \in FcBook
    /\ gaps \in [MessageType -> Nat] /\ lost \in [MessageType -> Nat]
    /\ shown \in [MessageType -> 0 .. MaxBoots]
    /\ lastItem \in [MessageType -> Seq(ExportItem)]
    /\ hidden \in BOOLEAN

\* No record disappears without being counted: what the control task has
\* published is written, held by the export task, queued, being enqueued or
\* counted by export_queue_drops, whatever the two tasks interleave.
EveryLossIsCounted ==
    ready => Total = written + Len(hand) + Len(queue) + Len(pending) + drops

\* The records that wait are exactly the newest ones, in the order in which
\* they were published: "if the queue is full, the oldest entry is discarded"
\* (docs/pc-telemetry-bridge.md), also when the export task empties the queue
\* while enqueue is making room in it.
NewestRecordsWait ==
    ready => LET waiting == queue \o pending
             IN  \A i \in 1 .. Len(waiting) :
                     waiting[i].number = Total - Len(waiting) + i - 1

\* A counter never reports a loss that did not happen, and misses losses only
\* in multiples of the range of the sequence it is taken from.
CountsLosses(counter, losses, modulus) ==
    counter <= losses /\ (losses - counter) % modulus = 0

\* The gap counters of the ground station count losses, as long as no reboot
\* went unnoticed.  The counters of missed flight controller packets, the
\* transmitter's and the ground station's, count losses across every reboot of
\* the transmitter as long as the flight controller keeps running.  Its restart
\* looks to them like losses, of which each adds less than the nibble's range:
\* has_sequence is kept, and cleared by another protocol only.
GapsAreLosses ==
    /\ ~hidden => \A t \in MessageType :
                      CountsLosses(gaps[t], lost[t], SequenceModulus)
    /\ \A book \in {decoded, fc} :
           /\ book.restarts = 0 =>
                  CountsLosses(book.counted, book.missed, FcModulus)
           /\ book.counted <= book.missed + book.restarts * (FcModulus - 1)

\* After a reboot of the transmitter the ground station does not display data
\* of the previous boot next to data of the new one.
OneBootOnDisplay ==
    ~hidden => \A t, u \in MessageType :
                   shown[t] # 0 /\ shown[u] # 0 => shown[t] = shown[u]

=============================================================================
