----------------------------- MODULE RadioFrame -----------------------------
(***************************************************************************)
(* The frames of the control task on the radio: main/radio/xn297.cpp and   *)
(* main/radio/nrf24.cpp as control_radio_task in main/app_main.cpp calls   *)
(* them, one SPI command or pin change at a time, against an nRF24 chip    *)
(* that sends and receives on its own and a flight controller that answers *)
(* what it hears.                                                          *)
(*                                                                         *)
(* A packet is the number of the frame it was made in.  An answer carries  *)
(* the frame it answers and the channel it is sent on, and may be late by  *)
(* a frame; with the hardware CRC off, noise can be captured too.  The bus *)
(* may break for good: all of it, after which SPI reads return all zeros   *)
(* or all ones and writes are lost; or only the line to the chip, which    *)
(* then does not hear commands but still shifts out its status.            *)
(*                                                                         *)
(* The chip and its answers to SPI commands are external, modelled from    *)
(* the commands the driver sends.                                          *)
(***************************************************************************)
EXTENDS Integers, Sequences

CONSTANTS
    RADIO_FAILURE_LIMIT,
    BAYANG_RF_CHANNELS,
    MaxFrames             \* bound: frames

ASSUME RadioFrameAssumption ==
    /\ RADIO_FAILURE_LIMIT \in Nat \ {0}
    /\ BAYANG_RF_CHANNELS \in Nat \ {0}
    /\ MaxFrames \in Nat

\* An answer that is late by a frame is missed because the task has hopped.
ASSUME HoppingAssumption == BAYANG_RF_CHANNELS > 1

RX_FIFO_LENGTH == 3

\* What a capture holds: the answer to a frame, or noise.
Noise == 0
\* The ways the bus can break.
Broken == {"zeros", "ones", "deaf"}

Channel == 0 .. BAYANG_RF_CHANNELS - 1

VARIABLES
    frame,        \* history: number of the frame
    pc,           \* control task: what it does next
    script,       \* control task: commands left of the mode change under way
    binding,      \* control task: binding_packet
    channelIndex, \* control task: channel_index
    failures,     \* control task: consecutive_tx_failures
    chip,         \* ce, config, channel, flags, txFifo, rxFifo
    bus,          \* "ok", "zeros", "ones" or "deaf"
    answer,       \* the flight controller's answer under way, as a sequence
    onAir,        \* history: the last frame whose packet was sent
    brokeAt,      \* history: frame in which the bus broke
    taken         \* history: the last answer read and the frame of the read

task == <<frame, pc, script, binding, channelIndex, failures>>
vars == <<task, chip, bus, answer, onAir, brokeAt, taken>>

-----------------------------------------------------------------------------
(* The SPI commands and pin changes of the driver.                          *)

\* The chip after command c, if it arrives.
Effect(c) ==
    CASE c = "clear_irq_flags" -> [chip EXCEPT !.flags = {}]
      [] c = "ce_low"          -> [chip EXCEPT !.ce = FALSE]
      [] c = "ce_high"         -> [chip EXCEPT !.ce = TRUE]
      [] c = "flush_tx"        -> [chip EXCEPT !.txFifo = <<>>]
      [] c = "flush_rx"        -> [chip EXCEPT !.rxFifo = <<>>]
      [] c = "config_tx"       -> [chip EXCEPT !.config = "tx"]
      [] c = "config_rx"       -> [chip EXCEPT !.config = "rx"]
      [] c = "set_channel"     -> [chip EXCEPT !.channel = channelIndex]
      [] c = "set_bind_channel" -> [chip EXCEPT !.channel = 0]
      [] c = "write_payload"   -> [chip EXCEPT !.txFifo = <<frame>>]

\* The pins do not go over the bus.
Pins == {"ce_low", "ce_high"}

\* Wrong variant: the flags of the last packet are not cleared.
TxScript_NoClear(bind) ==
    << IF bind THEN "set_bind_channel" ELSE "set_channel",
       "ce_low", "flush_tx", "config_tx", "ce_high", "write_payload" >>

\* xn297_set_channel, then transmit_packet: xn297_set_tx_mode and
\* xn297_write_payload.  The channel changes while the chip still listens.
TxScript(bind) ==
    << IF bind THEN "set_bind_channel" ELSE "set_channel",
       "clear_irq_flags", "ce_low", "flush_tx", "config_tx", "ce_high",
       "write_payload" >>

\* Wrong variant: what the last frame captured is not flushed.
RxScript_NoFlush ==
    << "clear_irq_flags", "ce_low", "config_rx", "ce_high" >>

\* xn297_set_rx_mode.
RxScript ==
    << "clear_irq_flags", "ce_low", "flush_rx", "config_rx", "ce_high" >>

\* xn297_decode_tx_status.
TxStatus(status) ==
    IF "MAX_RT" \in status THEN "Error"
    ELSE IF "TX_DS" \in status THEN "Sent" ELSE "Pending"

\* nrf24_get_status.  Without retransmissions the chip never sets MAX_RT.
ReadStatus ==
    CASE bus \in {"ok", "deaf"} -> chip.flags
      [] bus = "zeros" -> {}
      [] bus = "ones" -> {"RX_DR", "TX_DS", "MAX_RT"}

-----------------------------------------------------------------------------

\* xn297_init: when the register test fails the radio is never used.
Init ==
    /\ frame = 0 /\ binding = FALSE /\ script = <<>>
    /\ channelIndex = 0 /\ failures = 0
    /\ chip = [ce |-> FALSE, config |-> "tx", channel |-> 0, flags |-> {},
               txFifo |-> <<>>, rxFifo |-> <<>>]
    /\ \/ bus = "ok" /\ pc = "begin"
       \/ bus \in Broken /\ pc = "radio_error"
    /\ answer = <<>> /\ onAir = 0 /\ brokeAt = 0
    /\ taken = [answer |-> 0, frame |-> 0]

\* A frame of control_radio_task begins with a bind or a data packet; the
\* hopping starts again after binding.
Begin(bind) ==
    /\ pc = "begin" /\ frame < MaxFrames
    /\ frame' = frame + 1
    /\ binding' = bind
    /\ channelIndex' = IF binding /\ ~bind THEN 0 ELSE channelIndex
    /\ script' = TxScript(bind)
    /\ pc' = "tx_script"
    /\ UNCHANGED <<failures, chip, bus, answer, onAir, brokeAt, taken>>

\* The hopping index after a data packet.
NextChannel(i) == (i + 1) % BAYANG_RF_CHANNELS

\* The next command of a script; the hopping index moves on with the channel.
Command ==
    /\ pc \in {"tx_script", "rx_script"}
    /\ chip' = IF bus = "ok" \/ Head(script) \in Pins
               THEN Effect(Head(script)) ELSE chip
    /\ script' = Tail(script)
    /\ channelIndex' = IF Head(script) = "set_channel"
                       THEN NextChannel(channelIndex)
                       ELSE channelIndex
    /\ pc' = IF script' # <<>> THEN pc
             ELSE IF pc = "tx_script" THEN "poll" ELSE "listen"
    /\ UNCHANGED <<frame, binding, failures, bus, answer, onAir, brokeAt,
                   taken>>

\* transmit_packet returns true; after a data packet the task listens.
Sent ==
    /\ pc = "poll"
    /\ TxStatus(ReadStatus) = "Sent"
    /\ failures' = 0
    /\ \/ binding /\ pc' = "begin" /\ UNCHANGED script
       \/ ~binding /\ pc' = "rx_script" /\ script' = RxScript
    /\ UNCHANGED <<frame, binding, channelIndex, chip, bus, answer, onAir,
                   brokeAt, taken>>

\* Wrong variant: one failure too many is tolerated.
AfterFailure_OneMore(n) ==
    IF n > RADIO_FAILURE_LIMIT THEN "radio_error" ELSE "begin"

\* Where the task goes on after n consecutive failures: RADIO_ERROR is one-way.
AfterFailure(n) ==
    IF n >= RADIO_FAILURE_LIMIT THEN "radio_error" ELSE "begin"

\* transmit_packet returns false: on an error, or RADIO_TX_TIMEOUT_US after
\* the payload was written.
Failed ==
    /\ pc = "poll"
    /\ TxStatus(ReadStatus) # "Sent"
    /\ failures' = failures + 1
    /\ pc' = AfterFailure(failures')
    /\ UNCHANGED <<frame, script, binding, channelIndex, chip, bus, answer,
                   onAir, brokeAt, taken>>

\* xn297_irq_asserted, on a line pulled up that the chip drives low, then
\* xn297_is_rx_ready and xn297_read_payload.  One packet ends the wait.
Read ==
    /\ pc = "listen"
    /\ chip.flags # {}
    /\ "RX_DR" \in ReadStatus
    /\ IF bus = "ok" /\ chip.rxFifo # <<>>
       THEN /\ taken' = IF Head(chip.rxFifo) = Noise THEN taken
                        ELSE [answer |-> Head(chip.rxFifo), frame |-> frame]
            /\ chip' = [chip EXCEPT !.rxFifo = Tail(@)]
       ELSE UNCHANGED <<taken, chip>>
    /\ pc' = "begin"
    /\ UNCHANGED <<frame, script, binding, channelIndex, failures, bus,
                   answer, onAir, brokeAt>>

\* TELEMETRY_RX_DEADLINE_US: nothing came in time.
Deadline ==
    /\ pc = "listen"
    /\ pc' = "begin"
    /\ UNCHANGED <<frame, script, binding, channelIndex, failures, chip, bus,
                   answer, onAir, brokeAt, taken>>

-----------------------------------------------------------------------------
(* The chip, the flight controller and the wiring.                          *)

\* With CE high and a packet in its FIFO the chip sends, well within the
\* timeout or, when it is out of order, not at all; the flight controller may
\* hear a data packet and answer on its channel.
Transmit(heard) ==
    /\ chip.ce /\ chip.config = "tx" /\ chip.txFifo # <<>>
    /\ pc = "poll" /\ Head(chip.txFifo) = frame
    /\ chip' = [chip EXCEPT !.txFifo = Tail(@), !.flags = @ \cup {"TX_DS"}]
    /\ onAir' = Head(chip.txFifo)
    /\ answer' = IF heard /\ ~binding
                 THEN <<[frame |-> Head(chip.txFifo),
                         channel |-> chip.channel]>>
                 ELSE answer
    /\ UNCHANGED <<task, bus, brokeAt, taken>>

Capture(what) ==
    /\ chip.ce /\ chip.config = "rx"
    /\ Len(chip.rxFifo) < RX_FIFO_LENGTH
    /\ chip' = [chip EXCEPT !.rxFifo = Append(@, what),
                            !.flags = @ \cup {"RX_DR"}]

\* The answer is heard if it is not later than a frame and the chip listens
\* on its channel, else it is lost.
Answer ==
    /\ answer # <<>>
    /\ answer' = <<>>
    /\ \/ /\ answer[1].channel = chip.channel
          /\ answer[1].frame >= frame - 1
          /\ Capture(answer[1].frame)
       \/ UNCHANGED chip
    /\ UNCHANGED <<task, bus, onAir, brokeAt, taken>>

HearNoise ==
    /\ Capture(Noise)
    /\ UNCHANGED <<task, bus, answer, onAir, brokeAt, taken>>

\* The bus breaks and stays broken.
Break(b) ==
    /\ bus = "ok"
    /\ bus' = b
    /\ brokeAt' = frame
    /\ UNCHANGED <<task, chip, answer, onAir, taken>>

-----------------------------------------------------------------------------

Task == \/ \E bind \in BOOLEAN : Begin(bind)
        \/ Command \/ Sent \/ Failed \/ Read \/ Deadline

Environment == \/ \E heard \in BOOLEAN : Transmit(heard)
               \/ Answer \/ HearNoise
               \/ \E b \in Broken : Break(b)

Next == Task \/ Environment

Spec == Init /\ [][Next]_vars

-----------------------------------------------------------------------------
(* Properties.                                                              *)

\* Every variable stays in its type, the FIFO of captures within its length.
TypeOK ==
    /\ frame \in 0 .. MaxFrames
    /\ pc \in {"begin", "tx_script", "poll", "rx_script", "listen",
               "radio_error"}
    /\ binding \in BOOLEAN
    /\ channelIndex \in Channel
    /\ failures \in 0 .. RADIO_FAILURE_LIMIT
    /\ chip.channel \in Channel /\ chip.flags \subseteq {"TX_DS", "RX_DR"}
    /\ Len(chip.txFifo) <= 1 /\ Len(chip.rxFifo) <= RX_FIFO_LENGTH
    /\ onAir \in 0 .. MaxFrames /\ Len(answer) <= 1

\* A telemetry packet read in a frame answers the packet sent in that frame:
\* a capture that came after the deadline, or while the channel was being
\* changed, is never taken for an answer to the next packet.  The prearm
\* check relies on it: an answer after PREARM began proves that the flight
\* controller received what was sent in PREARM.
ReplyIsFromThisFrame == taken.answer = taken.frame

\* The one fault that the driver cannot see: the clear of TX_DS is lost, so
\* that the flag of an earlier packet answers every poll.
StuckFlag == bus = "deaf" /\ "TX_DS" \in chip.flags

\* The control task takes a packet for sent only if it was on the air in this
\* frame: the flags of an earlier packet, a bus that reads zeros and one that
\* reads ones are not mistaken for it, wherever in a frame it breaks.  Only a
\* stuck flag is.
SentMeansOnAir ==
    pc \in {"rx_script", "listen"} => frame = onAir \/ StuckFlag

\* "Three consecutive transmission failures also set RADIO_ERROR": a radio
\* that is cut off is noticed within RADIO_FAILURE_LIMIT frames, whatever its
\* status reads as and in whatever step of a frame it happened, unless the
\* chip went deaf with TX_DS set.
DeadRadioIsDetected ==
    bus # "ok" => \/ pc = "radio_error"
                  \/ frame - brokeAt <= RADIO_FAILURE_LIMIT
                  \/ StuckFlag
=============================================================================
