-------------------------- MODULE RadioFrameProofs --------------------------
(***************************************************************************)
(* Proofs about RadioFrame, for any number of frames and channels and any  *)
(* limit of failures: what the driver takes for sent was on the air, a     *)
(* radio that is cut off is noticed in time and, because the task hops     *)
(* between at least two channels, no answer is taken for an answer to a    *)
(* later packet.                                                           *)
(***************************************************************************)
EXTENDS RadioFrame, SequenceTheorems, TLAPS

Commands == {"clear_irq_flags", "ce_low", "ce_high", "flush_tx", "flush_rx",
             "config_tx", "config_rx", "set_channel", "set_bind_channel",
             "write_payload"}

Chip == [ce: BOOLEAN, config: {"tx", "rx"}, channel: Channel,
         flags: SUBSET {"TX_DS", "RX_DR"}, txFifo: Seq(Nat), rxFifo: Seq(Nat)]

\* The type invariant with the shape of the records and sequences.
TypeInv ==
    /\ TypeOK
    /\ frame \in Nat /\ failures \in Nat
    /\ script \in Seq(Commands)
    /\ chip \in Chip
    /\ bus \in {"ok"} \cup Broken
    /\ answer \in Seq([frame: Nat, channel: Channel])
    /\ brokeAt \in Nat
    /\ taken \in [answer: Nat, frame: Nat]
    /\ pc # "radio_error" => failures < RADIO_FAILURE_LIMIT

\* What is left of a script is its end.
IsEndOf(left, whole) ==
    /\ Len(left) \in 1 .. Len(whole)
    /\ \A i \in 1 .. Len(left) :
          left[i] = whole[Len(whole) - Len(left) + i]

ScriptIsEnd ==
    /\ pc = "tx_script" => IsEndOf(script, TxScript(binding))
    /\ pc = "rx_script" => IsEndOf(script, RxScript)
    /\ pc \in {"rx_script", "listen"} => ~binding

\* While the bus works, TX_DS is of this frame's packet once the flags were
\* cleared.
FlagIsFresh ==
    bus = "ok" =>
        /\ pc = "tx_script" /\ Len(script) <= 5 => "TX_DS" \notin chip.flags
        /\ pc = "poll" /\ "TX_DS" \in chip.flags => onAir = frame

\* A frame that ended after the bus broke is a failure that was counted.
FailuresAreCounted ==
    bus # "ok" /\ pc # "radio_error" /\ ~StuckFlag =>
        failures >= frame - brokeAt
                        - (IF pc \in {"tx_script", "poll"} THEN 1 ELSE 0)

\* While the bus works, the hopping index is one ahead of the chip's channel
\* from the change of the channel to the packet.
IndexIsAhead ==
    (/\ bus = "ok" /\ ~binding
     /\ pc = "poll" \/ (pc = "tx_script" /\ Len(script) <= 6))
    => channelIndex = NextChannel(chip.channel)

\* An answer under way is on the channel of its packet, the next packet goes
\* out on another one.
AnswerIsBehind ==
    bus = "ok" /\ answer # <<>> =>
        /\ answer[1].frame <= frame
        /\ answer[1].frame = frame =>
              /\ pc # "tx_script" /\ ~binding
              /\ channelIndex = NextChannel(answer[1].channel)
        /\ answer[1].frame = frame - 1 /\ ~binding =>
              IF pc = "tx_script" /\ Len(script) = 7
              THEN channelIndex = NextChannel(answer[1].channel)
              ELSE chip.channel # answer[1].channel

\* While the bus works, what is captured when the task listens is of this
\* frame: the chip was off from before the flush to the change of the mode.
CapturesAreFresh ==
    bus = "ok" =>
        /\ pc = "rx_script" /\ Len(script) <= 3 => ~chip.ce
        /\ pc = "rx_script" /\ Len(script) <= 2 => chip.rxFifo = <<>>
        /\ pc = "listen" => \A i \in 1 .. Len(chip.rxFifo) :
                                chip.rxFifo[i] \in {Noise, frame}

CoreInv == /\ TypeInv /\ ScriptIsEnd /\ FlagIsFresh /\ SentMeansOnAir
           /\ FailuresAreCounted /\ IndexIsAhead

ReplyInv == AnswerIsBehind /\ CapturesAreFresh /\ ReplyIsFromThisFrame

-----------------------------------------------------------------------------
(* The operators of the model.                                              *)

\* The hopping index stays an index and, with two channels, moves.
LEMMA NextChannelType == \A i \in Channel : NextChannel(i) \in Channel
  BY RadioFrameAssumption DEF NextChannel, Channel

\* With at least two channels a hop changes the channel.
LEMMA NextChannelMoves == \A i \in Channel : NextChannel(i) # i
<1> SUFFICES ASSUME NEW i \in Channel PROVE NextChannel(i) # i
  OBVIOUS
<1>1. CASE i + 1 = BAYANG_RF_CHANNELS
  BY <1>1, RadioFrameAssumption, HoppingAssumption DEF NextChannel, Channel
<1>2. CASE i + 1 < BAYANG_RF_CHANNELS
  BY <1>2, RadioFrameAssumption DEF NextChannel, Channel
<1> QED
  BY <1>1, <1>2, RadioFrameAssumption DEF Channel

\* The commands of the two scripts, by what is left of them.
LEMMA Scripts ==
    /\ \A b \in BOOLEAN :
          /\ TxScript(b) \in Seq(Commands) /\ Len(TxScript(b)) = 7
          /\ b => TxScript(b)[1] = "set_bind_channel"
          /\ ~b => TxScript(b)[1] = "set_channel"
          /\ TxScript(b)[2] = "clear_irq_flags" /\ TxScript(b)[3] = "ce_low"
          /\ TxScript(b)[4] = "flush_tx" /\ TxScript(b)[5] = "config_tx"
          /\ TxScript(b)[6] = "ce_high" /\ TxScript(b)[7] = "write_payload"
    /\ RxScript \in Seq(Commands) /\ Len(RxScript) = 5
    /\ RxScript[1] = "clear_irq_flags" /\ RxScript[2] = "ce_low"
    /\ RxScript[3] = "flush_rx" /\ RxScript[4] = "config_rx"
    /\ RxScript[5] = "ce_high"
  BY DEF TxScript, RxScript, Commands

\* Taking a command leaves a shorter end, or nothing.
LEMMA EndOfEnd ==
    ASSUME NEW left \in Seq(Commands), NEW whole \in Seq(Commands),
           IsEndOf(left, whole)
    PROVE  /\ Head(left) = whole[Len(whole) - Len(left) + 1]
           /\ Head(left) \in Commands
           /\ Tail(left) \in Seq(Commands) /\ Len(Tail(left)) = Len(left) - 1
           /\ Tail(left) # <<>> <=> Len(left) # 1
           /\ Tail(left) # <<>> => IsEndOf(Tail(left), whole)
<1> USE DEF IsEndOf
<1>1. left # <<>> /\ Head(left) = left[1] /\ Head(left) \in Commands
  OBVIOUS
<1>2. Tail(left) \in Seq(Commands) /\ Len(Tail(left)) = Len(left) - 1
  BY <1>1
<1>3. \A i \in 1 .. Len(left) - 1 : Tail(left)[i] = left[i + 1]
  BY <1>1
<1>4. Tail(left) # <<>> <=> Len(left) # 1
  <2>1. \A s \in Seq(Commands) : s # <<>> => Len(s) # 0
    BY EmptySeq
  <2>2. Len(<<>>) = 0
    BY EmptySeq
  <2>3. CASE Len(left) = 1
    <3>1. Len(Tail(left)) = 0
      BY <1>2, <2>3
    <3> QED
      BY <1>2, <2>1, <2>3, <3>1, Zenon
  <2>4. CASE Len(left) # 1
    <3>1. Len(Tail(left)) # 0
      BY <1>2, <2>4
    <3> QED
      BY <2>2, <2>4, <3>1, Zenon
  <2> QED
    BY <2>3, <2>4
<1>5. ASSUME Tail(left) # <<>>
      PROVE  IsEndOf(Tail(left), whole)
  BY <1>2, <1>3, <1>4, <1>5, SMTT(30)
<1> QED
  BY <1>1, <1>2, <1>4, <1>5, SMTT(30)

\* Numbers of commands left.
LEMMA Left ==
    /\ \A n \in 1 .. 7 : n - 1 # 7 /\ (n # 7 => n <= 6)
    /\ \A n \in 1 .. 2 : n <= 2 /\ n # 3
  OBVIOUS

\* The command that a step of a script gives, by what is left of it.
CommandIs(c) ==
    /\ pc = "tx_script" =>
          /\ Len(script) \in 1 .. 7
          /\ Len(script) = 7 <=> c \in {"set_channel", "set_bind_channel"}
          /\ Len(script) = 7 => c = IF binding THEN "set_bind_channel"
                                                ELSE "set_channel"
          /\ Len(script) = 6 => c = "clear_irq_flags"
          /\ c \in {"flush_rx", "config_rx"} => FALSE
          /\ Len(script) < 6 => c # "clear_irq_flags"
    /\ pc = "rx_script" =>
          /\ Len(script) \in 1 .. 5
          /\ c \in {"clear_irq_flags", "ce_low", "flush_rx", "config_rx",
                    "ce_high"}
          /\ Len(script) = 4 <=> c = "ce_low"
          /\ Len(script) = 3 <=> c = "flush_rx"
          /\ Len(script) = 1 <=> c = "ce_high"

\* What one SPI command of a script does to the program counter and to the
\* rest of the script.
LEMMA CommandStep ==
    ASSUME TypeInv, ScriptIsEnd, Command
    PROVE  /\ Head(script) \in Commands /\ CommandIs(Head(script))
           /\ script' \in Seq(Commands) /\ Len(script') = Len(script) - 1
           /\ script' # <<>> <=> Len(script) # 1
           /\ pc' = "tx_script" <=> pc = "tx_script" /\ Len(script) # 1
           /\ pc' = "rx_script" <=> pc = "rx_script" /\ Len(script) # 1
           /\ pc' = "poll" <=> pc = "tx_script" /\ Len(script) = 1
           /\ pc' = "listen" <=> pc = "rx_script" /\ Len(script) = 1
           /\ pc' \in {"tx_script", "rx_script", "poll", "listen"}
           /\ ScriptIsEnd'
<1>1. CASE pc = "tx_script"
  <2> DEFINE w == TxScript(binding)
  <2>1. w \in Seq(Commands) /\ Len(w) = 7 /\ IsEndOf(script, w)
    BY <1>1, Scripts DEF TypeInv, TypeOK, ScriptIsEnd
  <2>2. /\ Head(script) = w[8 - Len(script)] /\ Len(script) \in 1 .. 7
        /\ Head(script) \in Commands
        /\ script' \in Seq(Commands) /\ Len(script') = Len(script) - 1
        /\ script' # <<>> <=> Len(script) # 1
        /\ script' # <<>> => IsEndOf(script', w)
    <3> HIDE DEF w
    <3>1. Len(script) \in 1 .. 7 /\ script \in Seq(Commands)
      BY <2>1 DEF IsEndOf, TypeInv
    <3>2. script' = Tail(script)
      BY DEF Command
    <3>3. /\ Head(script) = w[Len(w) - Len(script) + 1]
          /\ Head(script) \in Commands
          /\ script' \in Seq(Commands) /\ Len(script') = Len(script) - 1
          /\ script' # <<>> <=> Len(script) # 1
          /\ script' # <<>> => IsEndOf(script', w)
      BY ONLY <2>1, <3>1, <3>2, EndOfEnd, Zenon
    <3>4. Len(w) - Len(script) + 1 = 8 - Len(script)
      BY <2>1, <3>1
    <3> QED
      BY <3>1, <3>3, <3>4, Zenon
  <2>3. CommandIs(Head(script))
    <3>1. binding \in BOOLEAN
      BY DEF TypeInv, TypeOK
    <3>2. CASE Len(script) = 7 /\ binding
      <4>1. Head(script) = w[1]
        <5>1. Head(script) = w[8 - Len(script)] /\ Len(script) = 7
          BY <2>2, <3>2, Zenon
        <5>2. 8 - Len(script) = 1
          BY ONLY <5>1
        <5> QED
          BY ONLY <5>1, <5>2, Zenon
      <4>2. Head(script) = "set_bind_channel"
        BY <3>1, <3>2, <4>1, Scripts, Zenon
      <4> QED
        BY <1>1, <3>2, <4>2 DEF CommandIs
    <3>3. CASE Len(script) = 7 /\ ~binding
      <4>1. Head(script) = "set_channel"
        BY <2>2, <3>1, <3>3, Scripts
      <4> QED
        BY <1>1, <3>3, <4>1 DEF CommandIs
    <3>4. CASE Len(script) = 6
      <4>1. Head(script) = "clear_irq_flags"
        BY <2>2, <3>1, <3>4, Scripts
      <4> QED
        BY <1>1, <3>4, <4>1 DEF CommandIs
    <3>5. CASE Len(script) = 5
      <4>1. Head(script) = "ce_low"
        BY <2>2, <3>1, <3>5, Scripts
      <4> QED
        BY <1>1, <3>5, <4>1 DEF CommandIs
    <3>6. CASE Len(script) = 4
      <4>1. Head(script) = "flush_tx"
        BY <2>2, <3>1, <3>6, Scripts
      <4> QED
        BY <1>1, <3>6, <4>1 DEF CommandIs
    <3>7. CASE Len(script) = 3
      <4>1. Head(script) = "config_tx"
        BY <2>2, <3>1, <3>7, Scripts
      <4> QED
        BY <1>1, <3>7, <4>1 DEF CommandIs
    <3>8. CASE Len(script) = 2
      <4>1. Head(script) = "ce_high"
        BY <2>2, <3>1, <3>8, Scripts
      <4> QED
        BY <1>1, <3>8, <4>1 DEF CommandIs
    <3>9. CASE Len(script) = 1
      <4>1. Head(script) = "write_payload"
        BY <2>2, <3>1, <3>9, Scripts
      <4> QED
        BY <1>1, <3>9, <4>1 DEF CommandIs
    <3>10. Len(script) \in 1 .. 7
      BY <2>2, Zenon
    <3>11. Len(script) \in {1, 2, 3, 4, 5, 6, 7}
      BY ONLY <3>10
    <3> QED
      BY <3>1, <3>2, <3>3, <3>4, <3>5, <3>6, <3>7, <3>8, <3>9, <3>11, Zenon
  <2>4. /\ pc' = IF Len(script) # 1 THEN "tx_script" ELSE "poll"
        /\ binding' = binding
    BY <1>1, <2>2 DEF Command
  <2>5. ScriptIsEnd'
    BY <2>2, <2>4 DEF ScriptIsEnd
  <2> QED
    BY <1>1, <2>2, <2>3, <2>4, <2>5
<1>2. CASE pc = "rx_script"
  <2>1. IsEndOf(script, RxScript) /\ ~binding
    BY <1>2 DEF ScriptIsEnd
  <2>2. /\ Head(script) = RxScript[6 - Len(script)] /\ Len(script) \in 1 .. 5
        /\ Head(script) \in Commands
        /\ script' \in Seq(Commands) /\ Len(script') = Len(script) - 1
        /\ script' # <<>> <=> Len(script) # 1
        /\ script' # <<>> => IsEndOf(script', RxScript)
    <3>1. Len(script) \in 1 .. 5 /\ script \in Seq(Commands)
      BY <2>1, Scripts DEF IsEndOf, TypeInv
    <3>2. script' = Tail(script)
      BY DEF Command
    <3>3. /\ Head(script) = RxScript[Len(RxScript) - Len(script) + 1]
          /\ Head(script) \in Commands
          /\ script' \in Seq(Commands) /\ Len(script') = Len(script) - 1
          /\ script' # <<>> <=> Len(script) # 1
          /\ script' # <<>> => IsEndOf(script', RxScript)
      BY ONLY <2>1, <3>1, <3>2, Scripts, EndOfEnd, Zenon
    <3>4. Len(RxScript) - Len(script) + 1 = 6 - Len(script)
      BY <3>1, Scripts
    <3> QED
      BY <3>1, <3>3, <3>4, Zenon
  <2>3. CommandIs(Head(script))
    <3>1. CASE Len(script) = 5
      <4>1. Head(script) = "clear_irq_flags"
        BY <2>2, <3>1, Scripts
      <4> QED
        BY <1>2, <3>1, <4>1 DEF CommandIs
    <3>2. CASE Len(script) = 4
      <4>1. Head(script) = "ce_low"
        BY <2>2, <3>2, Scripts
      <4> QED
        BY <1>2, <3>2, <4>1 DEF CommandIs
    <3>3. CASE Len(script) = 3
      <4>1. Head(script) = "flush_rx"
        BY <2>2, <3>3, Scripts
      <4> QED
        BY <1>2, <3>3, <4>1 DEF CommandIs
    <3>4. CASE Len(script) = 2
      <4>1. Head(script) = "config_rx"
        BY <2>2, <3>4, Scripts
      <4> QED
        BY <1>2, <3>4, <4>1 DEF CommandIs
    <3>5. CASE Len(script) = 1
      <4>1. Head(script) = "ce_high"
        BY <2>2, <3>5, Scripts
      <4> QED
        BY <1>2, <3>5, <4>1 DEF CommandIs
    <3> QED
      BY <2>2, <3>1, <3>2, <3>3, <3>4, <3>5, SMTT(30)
  <2>4. /\ pc' = IF Len(script) # 1 THEN "rx_script" ELSE "listen"
        /\ binding' = binding
    BY <1>2, <2>2 DEF Command
  <2>5. ScriptIsEnd'
    BY <2>1, <2>2, <2>4 DEF ScriptIsEnd
  <2> QED
    BY <1>2, <2>2, <2>3, <2>4, <2>5
<1> QED
  BY <1>1, <1>2 DEF Command

\* What a command changes of the chip.
LEMMA CommandChip ==
    ASSUME TypeInv, ScriptIsEnd, Command
    PROVE  /\ chip' \in Chip
           /\ Len(chip'.txFifo) <= 1 /\ Len(chip'.rxFifo) <= RX_FIFO_LENGTH
           /\ chip'.flags = IF bus = "ok" /\ Head(script) = "clear_irq_flags"
                            THEN {} ELSE chip.flags
           /\ chip'.channel =
                 IF bus = "ok" /\ Head(script) = "set_channel"
                 THEN channelIndex
                 ELSE IF bus = "ok" /\ Head(script) = "set_bind_channel"
                 THEN 0 ELSE chip.channel
           /\ chip'.rxFifo = IF bus = "ok" /\ Head(script) = "flush_rx"
                             THEN <<>> ELSE chip.rxFifo
           /\ chip'.ce = IF Head(script) = "ce_low" THEN FALSE
                         ELSE IF Head(script) = "ce_high" THEN TRUE
                         ELSE chip.ce
<1> DEFINE c == Head(script)
<1>1. c \in Commands
  BY CommandStep
<1>2. chip' = IF bus = "ok" \/ c \in Pins THEN Effect(c) ELSE chip
  BY DEF Command
<1>3. /\ chip \in Chip /\ channelIndex \in Channel /\ frame \in Nat
      /\ 0 \in Channel
      /\ Len(chip.txFifo) <= 1 /\ Len(chip.rxFifo) <= RX_FIFO_LENGTH
  BY RadioFrameAssumption DEF TypeInv, TypeOK, Channel
<1> HIDE DEF c
<1> SUFFICES /\ chip' \in Chip
             /\ Len(chip'.txFifo) <= 1 /\ Len(chip'.rxFifo) <= RX_FIFO_LENGTH
             /\ chip'.flags = IF bus = "ok" /\ c = "clear_irq_flags"
                              THEN {} ELSE chip.flags
             /\ chip'.channel =
                   IF bus = "ok" /\ c = "set_channel" THEN channelIndex
                   ELSE IF bus = "ok" /\ c = "set_bind_channel"
                   THEN 0 ELSE chip.channel
             /\ chip'.rxFifo = IF bus = "ok" /\ c = "flush_rx"
                               THEN <<>> ELSE chip.rxFifo
             /\ chip'.ce = IF c = "ce_low" THEN FALSE
                           ELSE IF c = "ce_high" THEN TRUE ELSE chip.ce
  BY DEF c
<1>4. CASE c = "clear_irq_flags"
  BY ONLY <1>2, <1>3, <1>4 DEF Chip, Effect, Pins, RX_FIFO_LENGTH
<1>5. CASE c = "ce_low"
  BY ONLY <1>2, <1>3, <1>5 DEF Chip, Effect, Pins, RX_FIFO_LENGTH
<1>6. CASE c = "ce_high"
  BY ONLY <1>2, <1>3, <1>6 DEF Chip, Effect, Pins, RX_FIFO_LENGTH
<1>7. CASE c = "flush_tx"
  <2>1. CASE bus = "ok"
    <3> DEFINE e == <<>>
    <3>1. e \in Seq(Nat) /\ Len(e) <= 1 /\ e = <<>>
      BY <1>3
    <3>2. chip' = [chip EXCEPT !.txFifo = e]
      BY ONLY <1>2, <1>7, <2>1 DEF Effect
    <3> HIDE DEF e
    <3> QED
      BY ONLY <1>3, <1>7, <2>1, <3>1, <3>2 DEF Chip, RX_FIFO_LENGTH
  <2>2. CASE bus # "ok"
    BY ONLY <1>2, <1>3, <1>7, <2>2 DEF Pins
  <2> QED
    BY <2>1, <2>2
<1>8. CASE c = "flush_rx"
  <2>1. CASE bus = "ok"
    <3> DEFINE e == <<>>
    <3>1. e \in Seq(Nat) /\ Len(e) <= 1
      BY <1>3
    <3>2. chip' = [chip EXCEPT !.rxFifo = e]
      BY ONLY <1>2, <1>8, <2>1 DEF Effect
    <3>3. e = <<>>
      OBVIOUS
    <3> HIDE DEF e
    <3>4. chip'.rxFifo = e
      BY ONLY <1>3, <3>2 DEF Chip
    <3>5. /\ chip' \in Chip /\ Len(chip'.txFifo) <= 1
          /\ chip'.flags = chip.flags /\ chip'.channel = chip.channel
          /\ chip'.ce = chip.ce
      BY ONLY <1>3, <3>1, <3>2 DEF Chip
    <3>6. chip'.rxFifo = <<>>
      BY ONLY <3>3, <3>4, Zenon
    <3>7. Len(chip'.rxFifo) <= RX_FIFO_LENGTH
      BY ONLY <3>6 DEF RX_FIFO_LENGTH
    <3> QED
      BY ONLY <1>8, <2>1, <3>5, <3>6, <3>7
  <2>2. CASE bus # "ok"
    BY ONLY <1>2, <1>3, <1>8, <2>2 DEF Pins
  <2> QED
    BY <2>1, <2>2
<1>9. CASE c = "config_tx"
  BY ONLY <1>2, <1>3, <1>9 DEF Chip, Effect, Pins, RX_FIFO_LENGTH
<1>10. CASE c = "config_rx"
  BY ONLY <1>2, <1>3, <1>10 DEF Chip, Effect, Pins, RX_FIFO_LENGTH
<1>11. CASE c = "set_channel"
  BY ONLY <1>2, <1>3, <1>11 DEF Chip, Effect, Pins, RX_FIFO_LENGTH
<1>12. CASE c = "set_bind_channel"
  BY ONLY <1>2, <1>3, <1>12 DEF Chip, Effect, Pins, RX_FIFO_LENGTH
<1>13. CASE c = "write_payload"
  <2>1. CASE bus = "ok"
    <3> DEFINE e == <<frame>>
    <3>1. e \in Seq(Nat) /\ Len(e) <= 1
      BY <1>3
    <3>2. chip' = [chip EXCEPT !.txFifo = e]
      BY ONLY <1>2, <1>13, <2>1 DEF Effect
    <3> HIDE DEF e
    <3> QED
      BY ONLY <1>3, <1>13, <2>1, <3>1, <3>2 DEF Chip, RX_FIFO_LENGTH
  <2>2. CASE bus # "ok"
    BY ONLY <1>2, <1>3, <1>13, <2>2 DEF Pins
  <2> QED
    BY <2>1, <2>2
<1> QED
  BY ONLY <1>1, <1>4, <1>5, <1>6, <1>7, <1>8, <1>9, <1>10, <1>11, <1>12, <1>13,
          Zenon DEF Commands

\* A chip with other flags and another FIFO is a chip.
LEMMA ChipUpdate ==
    ASSUME NEW c \in Chip, NEW q \in Seq(Nat),
           NEW flags \in SUBSET {"TX_DS", "RX_DR"}
    PROVE  /\ [c EXCEPT !.rxFifo = q, !.flags = flags] \in Chip
           /\ [c EXCEPT !.txFifo = q, !.flags = flags] \in Chip
<1>1. [c EXCEPT !.rxFifo = q, !.flags = flags] \in Chip
  BY DEF Chip
<1>2. [c EXCEPT !.txFifo = q, !.flags = flags] \in Chip
  BY DEF Chip
<1> QED
  BY <1>1, <1>2

\* A capture and a packet sent change the chip's FIFOs and flags only.
LEMMA CaptureChip ==
    ASSUME TypeInv, NEW what \in Nat, Capture(what)
    PROVE  /\ chip' \in Chip
           /\ Len(chip'.txFifo) <= 1 /\ Len(chip'.rxFifo) <= RX_FIFO_LENGTH
           /\ chip'.rxFifo = Append(chip.rxFifo, what)
           /\ chip'.flags = chip.flags \cup {"RX_DR"}
           /\ chip'.channel = chip.channel /\ chip'.ce = chip.ce
<1>1. /\ chip \in Chip /\ chip.rxFifo \in Seq(Nat) /\ Len(chip.txFifo) <= 1
      /\ Len(chip.rxFifo) < RX_FIFO_LENGTH
      /\ chip' = [chip EXCEPT !.rxFifo = Append(chip.rxFifo, what),
                              !.flags = chip.flags \cup {"RX_DR"}]
  BY DEF TypeInv, TypeOK, Chip, Capture
<1> DEFINE q == Append(chip.rxFifo, what)
<1>2. q \in Seq(Nat) /\ Len(q) = Len(chip.rxFifo) + 1
  BY <1>1
<1>3. Len(q) <= RX_FIFO_LENGTH
  BY <1>1, <1>2 DEF RX_FIFO_LENGTH
<1> HIDE DEF q
<1>4. chip' = [chip EXCEPT !.rxFifo = q, !.flags = chip.flags \cup {"RX_DR"}]
  BY <1>1 DEF q
<1>5. chip' \in Chip
  <2>1. chip.flags \cup {"RX_DR"} \in SUBSET {"TX_DS", "RX_DR"}
    BY ONLY <1>1, Zenon DEF Chip
  <2>2. [chip EXCEPT !.rxFifo = q, !.flags = chip.flags \cup {"RX_DR"}] \in Chip
    BY ONLY <1>1, <1>2, <2>1, ChipUpdate
  <2> QED
    BY ONLY <1>4, <2>2
<1>6. /\ chip'.rxFifo = q /\ chip'.txFifo = chip.txFifo
      /\ chip'.flags = chip.flags \cup {"RX_DR"}
      /\ chip'.channel = chip.channel /\ chip'.ce = chip.ce
  BY ONLY <1>1, <1>4 DEF Chip
<1> QED
  BY ONLY <1>1, <1>3, <1>5, <1>6, Zenon DEF q

\* The chip after a transmission: flag set, receive FIFO as it was.
LEMMA TransmitChip ==
    ASSUME TypeInv, NEW heard \in BOOLEAN, Transmit(heard)
    PROVE  /\ chip' \in Chip
           /\ Len(chip'.txFifo) <= 1 /\ Len(chip'.rxFifo) <= RX_FIFO_LENGTH
           /\ chip'.rxFifo = chip.rxFifo
           /\ chip'.flags = chip.flags \cup {"TX_DS"}
           /\ chip'.channel = chip.channel /\ chip'.ce = chip.ce
<1>1. /\ chip \in Chip /\ chip.txFifo \in Seq(Nat) /\ chip.txFifo # <<>>
      /\ Len(chip.txFifo) <= 1 /\ Len(chip.rxFifo) <= RX_FIFO_LENGTH
      /\ chip' = [chip EXCEPT !.txFifo = Tail(chip.txFifo),
                              !.flags = chip.flags \cup {"TX_DS"}]
  BY DEF TypeInv, TypeOK, Chip, Transmit
<1> DEFINE q == Tail(chip.txFifo)
<1>2. q \in Seq(Nat) /\ Len(q) <= 1
  BY <1>1, HeadTailProperties
<1> HIDE DEF q
<1>3. chip' = [chip EXCEPT !.txFifo = q, !.flags = chip.flags \cup {"TX_DS"}]
  BY <1>1 DEF q
<1>4. chip' \in Chip
  <2>1. chip.flags \cup {"TX_DS"} \in SUBSET {"TX_DS", "RX_DR"}
    BY ONLY <1>1, Zenon DEF Chip
  <2>2. [chip EXCEPT !.txFifo = q, !.flags = chip.flags \cup {"TX_DS"}] \in Chip
    BY ONLY <1>1, <1>2, <2>1, ChipUpdate
  <2> QED
    BY ONLY <1>3, <2>2
<1>5. /\ chip'.txFifo = q /\ chip'.rxFifo = chip.rxFifo
      /\ chip'.flags = chip.flags \cup {"TX_DS"}
      /\ chip'.channel = chip.channel /\ chip'.ce = chip.ce
  BY ONLY <1>1, <1>3 DEF Chip
<1> QED
  BY ONLY <1>1, <1>2, <1>4, <1>5, Zenon

\* A read takes the oldest capture or leaves the chip alone.
LEMMA ReadChip ==
    ASSUME TypeInv, Read
    PROVE  /\ chip' \in Chip
           /\ Len(chip'.txFifo) <= 1 /\ Len(chip'.rxFifo) <= RX_FIFO_LENGTH
           /\ chip'.flags = chip.flags
           /\ chip'.channel = chip.channel /\ chip'.ce = chip.ce
           /\ taken' \in [answer: Nat, frame: Nat]
<1>1. /\ chip \in Chip /\ chip.rxFifo \in Seq(Nat)
      /\ Len(chip.txFifo) <= 1 /\ Len(chip.rxFifo) <= RX_FIFO_LENGTH
      /\ taken \in [answer: Nat, frame: Nat] /\ frame \in Nat
  BY DEF TypeInv, TypeOK, Chip
<1>2. CASE bus = "ok" /\ chip.rxFifo # <<>>
  <2> DEFINE q == Tail(chip.rxFifo)
  <2>1. /\ q \in Seq(Nat) /\ Len(q) <= RX_FIFO_LENGTH
        /\ Head(chip.rxFifo) \in Nat
    BY <1>1, <1>2, HeadTailProperties DEF RX_FIFO_LENGTH
  <2>2. /\ chip' = [chip EXCEPT !.rxFifo = q]
        /\ taken' = IF Head(chip.rxFifo) = Noise THEN taken
                    ELSE [answer |-> Head(chip.rxFifo), frame |-> frame]
    BY <1>2 DEF Read
  <2> HIDE DEF q
  <2>3. chip' \in Chip
    BY ONLY <1>1, <2>1, <2>2 DEF Chip
  <2>4. /\ chip'.rxFifo = q /\ chip'.txFifo = chip.txFifo
        /\ chip'.flags = chip.flags
        /\ chip'.channel = chip.channel /\ chip'.ce = chip.ce
    BY ONLY <1>1, <2>2 DEF Chip
  <2>5. taken' \in [answer: Nat, frame: Nat]
    BY ONLY <1>1, <2>1, <2>2
  <2> QED
    BY ONLY <1>1, <2>1, <2>3, <2>4, <2>5, Zenon
<1>3. CASE ~(bus = "ok" /\ chip.rxFifo # <<>>)
  BY <1>1, <1>3 DEF Read
<1> QED
  BY <1>2, <1>3

-----------------------------------------------------------------------------
(* Every step keeps every variable in its type and the script an end.       *)

\* The chip and the driver start with the core invariant.
LEMMA InitCore == Init => CoreInv
<1> SUFFICES ASSUME Init PROVE CoreInv
  OBVIOUS
<1> USE RadioFrameAssumption DEF Init
<1>1. TypeInv
  <2>1. chip \in Chip /\ chip.channel \in Channel
        /\ chip.flags \subseteq {"TX_DS", "RX_DR"}
        /\ Len(chip.txFifo) <= 1 /\ Len(chip.rxFifo) <= RX_FIFO_LENGTH
    BY DEF Chip, Channel, RX_FIFO_LENGTH
  <2>2. answer \in Seq([frame: Nat, channel: Channel]) /\ Len(answer) <= 1
    OBVIOUS
  <2>3. script \in Seq(Commands) /\ binding \in BOOLEAN
    <3>1. script \in Seq(Commands)
      OBVIOUS
    <3>2. binding \in BOOLEAN
      BY Zenon
    <3> QED
      BY <3>1, <3>2, Zenon
  <2>4. /\ frame \in 0 .. MaxFrames /\ channelIndex \in Channel
        /\ failures \in 0 .. RADIO_FAILURE_LIMIT /\ onAir \in 0 .. MaxFrames
        /\ frame \in Nat /\ failures \in Nat /\ brokeAt \in Nat
        /\ taken \in [answer: Nat, frame: Nat]
        /\ failures < RADIO_FAILURE_LIMIT
    BY DEF Channel
  <2>5. /\ bus \in {"ok"} \cup Broken
        /\ pc \in {"begin", "tx_script", "poll", "rx_script", "listen",
                   "radio_error"}
    BY DEF Broken
  <2> QED
    BY ONLY <2>1, <2>2, <2>3, <2>4, <2>5, Zenon DEF TypeInv, TypeOK
<1>2. /\ ScriptIsEnd /\ FlagIsFresh /\ SentMeansOnAir
      /\ FailuresAreCounted /\ IndexIsAhead
  BY DEF ScriptIsEnd, FlagIsFresh, SentMeansOnAir, FailuresAreCounted,
         IndexIsAhead, Broken
<1> QED
  BY <1>1, <1>2 DEF CoreInv

\* An answer under way has a frame and a channel.
LEMMA AnswerType ==
    ASSUME TypeInv, answer # <<>>
    PROVE  answer[1] \in [frame: Nat, channel: Channel]
<1> DEFINE R == [frame: Nat, channel: Channel]
<1>1. answer \in Seq(R)
  BY DEF TypeInv
<1> HIDE DEF R
<1>2. Len(answer) \in Nat \ {0}
  BY <1>1, EmptySeq
<1>3. answer[1] \in R
  BY <1>1, <1>2
<1> QED
  BY <1>3 DEF R

\* What the chip does on its own when it listens.
LEMMA AirChip ==
    ASSUME TypeInv, Answer \/ HearNoise
    PROVE  /\ chip'.flags \in {chip.flags, chip.flags \cup {"RX_DR"}}
           /\ chip'.channel = chip.channel /\ chip'.ce = chip.ce
<1>1. CASE UNCHANGED chip
  BY <1>1
<1>2. ASSUME NEW what \in Nat, Capture(what)
      PROVE  /\ chip'.flags \in {chip.flags, chip.flags \cup {"RX_DR"}}
             /\ chip'.channel = chip.channel /\ chip'.ce = chip.ce
  BY <1>2, CaptureChip
<1>3. CASE Answer
  <2>1. answer[1].frame \in Nat
    BY <1>3, AnswerType DEF Answer
  <2> QED
    BY <1>1, <1>2, <1>3, <2>1 DEF Answer
<1>4. CASE HearNoise
  BY <1>2, <1>4 DEF HearNoise, Noise
<1> QED
  BY <1>3, <1>4

\* Every step keeps the types.
LEMMA StepType ==
    ASSUME TypeInv, ScriptIsEnd, Next
    PROVE  TypeInv'
<1> USE RadioFrameAssumption
<1>1. ASSUME NEW bind \in BOOLEAN, Begin(bind) PROVE TypeInv'
  <2>1. TxScript(bind) \in Seq(Commands)
    BY Scripts
  <2>2. frame + 1 \in 0 .. MaxFrames /\ frame + 1 \in Nat /\ 0 \in Channel
    BY <1>1 DEF Begin, TypeInv, TypeOK, Channel
  <2>3. channelIndex' \in Channel
    BY <1>1, <2>2 DEF Begin, TypeInv, TypeOK
  <2> QED
    BY <1>1, <2>1, <2>2, <2>3 DEF Begin, TypeInv, TypeOK
<1>2. CASE Command
  <2>1. channelIndex' \in Channel
    BY <1>2, NextChannelType DEF Command, TypeInv, TypeOK
  <2>2. chip'.channel \in Channel /\ chip'.flags \subseteq {"TX_DS", "RX_DR"}
    BY <1>2, CommandChip DEF Chip
  <2>3. /\ script' \in Seq(Commands)
        /\ pc' \in {"tx_script", "rx_script", "poll", "listen"}
    BY <1>2, CommandStep
  <2>4. pc # "radio_error"
    BY <1>2 DEF Command
  <2> QED
    BY <1>2, <2>1, <2>2, <2>3, <2>4, CommandChip DEF Command, TypeInv, TypeOK
<1>3. CASE Sent
  <2>1. script' \in Seq(Commands)
    BY <1>3, Scripts DEF Sent, TypeInv
  <2> QED
    BY <1>3, <2>1 DEF Sent, TypeInv, TypeOK
<1>4. CASE Failed
  BY <1>4 DEF Failed, AfterFailure, TypeInv, TypeOK
<1>5. CASE Read
  <2>1. chip'.channel \in Channel /\ chip'.flags \subseteq {"TX_DS", "RX_DR"}
    BY <1>5, ReadChip DEF Chip
  <2> QED
    BY <1>5, <2>1, ReadChip DEF Read, TypeInv, TypeOK
<1>6. CASE Deadline
  BY <1>6 DEF Deadline, TypeInv, TypeOK
<1>7. ASSUME NEW heard \in BOOLEAN, Transmit(heard) PROVE TypeInv'
  <2>1. chip'.channel \in Channel /\ chip'.flags \subseteq {"TX_DS", "RX_DR"}
    BY <1>7, TransmitChip DEF Chip
  <2>2. [frame |-> frame, channel |-> chip.channel]
            \in [frame: Nat, channel: Channel]
    BY DEF TypeInv, TypeOK
  <2>3. /\ answer' \in Seq([frame: Nat, channel: Channel])
        /\ Len(answer') <= 1
    <3>1. CASE heard /\ ~binding
      <4> DEFINE r == [frame |-> frame, channel |-> chip.channel]
      <4>1. answer' = <<r>> /\ r \in [frame: Nat, channel: Channel]
        BY <1>7, <2>2, <3>1 DEF Transmit
      <4> HIDE DEF r
      <4> QED
        BY ONLY <4>1
    <3>2. CASE ~(heard /\ ~binding)
      BY <1>7, <3>2 DEF Transmit, TypeInv, TypeOK
    <3> QED
      BY <3>1, <3>2
  <2>4. onAir' \in 0 .. MaxFrames
    BY <1>7 DEF Transmit, TypeInv, TypeOK
  <2> QED
    BY <1>7, <2>1, <2>3, <2>4, TransmitChip
       DEF Transmit, TypeInv, TypeOK, task
<1>8. CASE Answer
  <2>1. chip' = chip \/ \E what \in Nat : Capture(what)
    <3>1. answer[1].frame \in Nat
      BY <1>8, AnswerType DEF Answer
    <3> QED
      BY <1>8, <3>1 DEF Answer
  <2>2. /\ chip' \in Chip
        /\ Len(chip'.txFifo) <= 1 /\ Len(chip'.rxFifo) <= RX_FIFO_LENGTH
    BY <2>1, CaptureChip DEF TypeInv, TypeOK
  <2>3. chip'.channel \in Channel /\ chip'.flags \subseteq {"TX_DS", "RX_DR"}
    BY <2>2 DEF Chip
  <2>4. /\ answer' \in Seq([frame: Nat, channel: Channel])
        /\ Len(answer') <= 1
    BY <1>8 DEF Answer
  <2> QED
    BY <1>8, <2>2, <2>3, <2>4 DEF Answer, TypeInv, TypeOK, task
<1>9. CASE HearNoise
  <2>1. /\ chip' \in Chip
        /\ Len(chip'.txFifo) <= 1 /\ Len(chip'.rxFifo) <= RX_FIFO_LENGTH
    BY <1>9, CaptureChip DEF HearNoise, Noise
  <2>2. chip'.channel \in Channel /\ chip'.flags \subseteq {"TX_DS", "RX_DR"}
    BY <2>1 DEF Chip
  <2> QED
    BY <1>9, <2>1, <2>2 DEF HearNoise, TypeInv, TypeOK, task
<1>10. ASSUME NEW b \in Broken, Break(b) PROVE TypeInv'
  BY <1>10 DEF Break, TypeInv, TypeOK, task
<1> QED
  BY <1>1, <1>2, <1>3, <1>4, <1>5, <1>6, <1>7, <1>8, <1>9, <1>10
     DEF Next, Task, Environment

\* What is left of a script is always its end.
LEMMA StepScript ==
    ASSUME TypeInv, ScriptIsEnd, Next
    PROVE  ScriptIsEnd'
<1> USE DEF ScriptIsEnd
<1>1. ASSUME NEW bind \in BOOLEAN, Begin(bind) PROVE ScriptIsEnd'
  <2>1. IsEndOf(TxScript(bind), TxScript(bind))
    BY Scripts DEF IsEndOf
  <2> QED
    BY <1>1, <2>1 DEF Begin
<1>2. CASE Command
  BY <1>2, CommandStep
<1>3. CASE Sent
  <2>1. IsEndOf(RxScript, RxScript)
    BY Scripts DEF IsEndOf
  <2> QED
    BY <1>3, <2>1 DEF Sent
<1>4. CASE Failed
  BY <1>4 DEF Failed, AfterFailure
<1>5. CASE Read
  BY <1>5 DEF Read
<1>6. CASE Deadline
  BY <1>6 DEF Deadline
<1>7. CASE Environment
  <2>1. UNCHANGED task
    BY <1>7 DEF Environment, Transmit, Answer, HearNoise, Break
  <2> QED
    BY <2>1 DEF task
<1> QED
  BY <1>1, <1>2, <1>3, <1>4, <1>5, <1>6, <1>7 DEF Next, Task

-----------------------------------------------------------------------------
(* Sent packets and counted failures.                                       *)

\* How a step may change the flags: only a command clears one, and only a
\* packet that is sent sets TX_DS.
LEMMA FlagsStep ==
    ASSUME TypeInv, ScriptIsEnd, Next
    PROVE  /\ "TX_DS" \in chip.flags /\ "TX_DS" \notin chip'.flags =>
                 bus = "ok" /\ Command
           /\ "TX_DS" \notin chip.flags /\ "TX_DS" \in chip'.flags =>
                 \E heard \in BOOLEAN : Transmit(heard)
<1>1. CASE \E bind \in BOOLEAN : Begin(bind)
  BY <1>1 DEF Begin
<1>2. CASE Command
  BY <1>2, CommandChip
<1>3. CASE Sent \/ Failed \/ Deadline
  BY <1>3 DEF Sent, Failed, Deadline
<1>4. CASE Read
  BY <1>4, ReadChip
<1>5. CASE \E heard \in BOOLEAN : Transmit(heard)
  BY <1>5, TransmitChip
<1>6. CASE Answer \/ HearNoise
  BY <1>6, AirChip
<1>7. CASE \E b \in Broken : Break(b)
  BY <1>7 DEF Break
<1> QED
  BY <1>1, <1>2, <1>3, <1>4, <1>5, <1>6, <1>7
     DEF Next, Task, Environment

\* A status that reads as sent has TX_DS and comes from a chip that the bus
\* still reads.
LEMMA SentStatus ==
    ASSUME TypeInv, TxStatus(ReadStatus) = "Sent"
    PROVE  "TX_DS" \in chip.flags /\ bus \in {"ok", "deaf"}
<1>1. bus \in {"ok", "zeros", "ones", "deaf"}
  BY DEF TypeInv, Broken
<1>2. bus # "zeros" /\ bus # "ones"
  BY DEF TxStatus, ReadStatus
<1> QED
  BY <1>1, <1>2 DEF TxStatus, ReadStatus

\* No step takes a stale TX_DS for that of this frame.
LEMMA StepSent ==
    ASSUME CoreInv, Next
    PROVE  FlagIsFresh' /\ SentMeansOnAir'
<1> USE DEF CoreInv, FlagIsFresh, SentMeansOnAir, StuckFlag
<1>1. ASSUME NEW bind \in BOOLEAN, Begin(bind)
      PROVE  FlagIsFresh' /\ SentMeansOnAir'
  BY <1>1, Scripts DEF Begin
<1>2. CASE Command
  <2>1. FlagIsFresh'
    <3>1. CASE bus = "ok" /\ pc = "tx_script"
      <4>1. /\ Len(script) \in 1 .. 7 /\ Len(script') = Len(script) - 1
            /\ Len(script) = 6 => Head(script) = "clear_irq_flags"
            /\ chip'.flags = IF Head(script) = "clear_irq_flags"
                             THEN {} ELSE chip.flags
        BY <1>2, <3>1, CommandStep, CommandChip DEF CommandIs
      <4>2. Len(script) <= 6 => "TX_DS" \notin chip'.flags
        BY <3>1, <4>1
      <4>3. bus' = bus /\ (pc' = "poll" => Len(script) = 1)
        BY <1>2, <3>1, CommandStep DEF Command
      <4> QED
        BY <3>1, <4>1, <4>2, <4>3
    <3>2. CASE bus # "ok" \/ pc # "tx_script"
      BY <1>2, <3>2, CommandStep DEF Command
    <3> QED
      BY <3>1, <3>2
  <2>2. SentMeansOnAir'
    <3>1. CASE pc = "rx_script" /\ StuckFlag
      <4>1. StuckFlag'
        BY <1>2, <3>1, CommandChip DEF Command
      <4> QED
        BY <4>1
    <3>2. CASE pc = "rx_script" /\ frame = onAir
      BY <1>2, <3>2 DEF Command
    <3>3. CASE pc = "tx_script"
      BY <1>2, <3>3, CommandStep
    <3> QED
      BY <1>2, <3>1, <3>2, <3>3 DEF Command
  <2> QED
    BY <2>1, <2>2
<1>3. CASE Sent
  BY <1>3, SentStatus DEF Sent
<1>4. CASE Failed
  BY <1>4 DEF Failed, AfterFailure
<1>5. CASE Read
  BY <1>5 DEF Read
<1>6. CASE Deadline
  BY <1>6 DEF Deadline
<1>7. ASSUME NEW heard \in BOOLEAN, Transmit(heard)
      PROVE  FlagIsFresh' /\ SentMeansOnAir'
  BY <1>7 DEF Transmit, task
<1>8. CASE Answer \/ HearNoise
  <2>1. UNCHANGED <<task, bus, onAir>>
    BY <1>8 DEF Answer, HearNoise
  <2>2. "TX_DS" \in chip'.flags <=> "TX_DS" \in chip.flags
    BY <1>8, AirChip
  <2> QED
    BY <2>1, <2>2 DEF task
<1>9. ASSUME NEW b \in Broken, Break(b)
      PROVE  FlagIsFresh' /\ SentMeansOnAir'
  BY <1>9 DEF Break, task, Broken
<1> QED
  BY <1>1, <1>2, <1>3, <1>4, <1>5, <1>6, <1>7, <1>8, <1>9
     DEF Next, Task, Environment

\* A stuck flag stays, and a frame on a dead bus ends in a counted failure.
LEMMA StepFailures ==
    ASSUME CoreInv, Next
    PROVE  FailuresAreCounted'
<1> USE DEF FailuresAreCounted
<1>1. TypeInv /\ ScriptIsEnd /\ FailuresAreCounted
  BY DEF CoreInv
<1>2. frame \in Nat /\ failures \in Nat /\ brokeAt \in Nat
  BY <1>1 DEF TypeInv
<1>3. CASE bus = "ok"
  <2>1. CASE \E b \in Broken : Break(b)
    BY <1>2, <2>1 DEF Break, task
  <2>2. CASE ~ \E b \in Broken : Break(b)
    <3>1. bus' = bus
      BY <2>2 DEF Next, Task, Environment, Begin, Command, Sent, Failed,
                  Read, Deadline, Transmit, Answer, HearNoise
    <3> QED
      BY <1>3, <3>1
  <2> QED
    BY <2>1, <2>2
<1>4. CASE bus # "ok" /\ StuckFlag
  <2>1. bus' = bus
    BY <1>4 DEF Next, Task, Environment, Begin, Command, Sent, Failed,
                Read, Deadline, Transmit, Answer, HearNoise, Break
  <2>2. "TX_DS" \in chip'.flags
    BY <1>1, <1>4, FlagsStep DEF StuckFlag
  <2> QED
    BY <1>4, <2>1, <2>2 DEF StuckFlag
<1>5. CASE bus # "ok" /\ ~StuckFlag
  <2>1. ASSUME NEW bind \in BOOLEAN, Begin(bind)
        PROVE  FailuresAreCounted'
    <3>1. failures >= frame - brokeAt
      BY <1>1, <1>2, <1>5, <2>1 DEF Begin
    <3> QED
      BY <1>2, <2>1, <3>1 DEF Begin
  <2>2. CASE Command
    <3>1. CASE pc = "tx_script"
      <4>1. pc' \in {"tx_script", "poll"}
        BY <1>1, <2>2, <3>1, CommandStep
      <4>2. failures >= frame - brokeAt - 1
        BY <1>1, <1>5, <3>1
      <4> QED
        BY <2>2, <4>1, <4>2 DEF Command
    <3>2. CASE pc = "rx_script"
      <4>1. pc' \in {"rx_script", "listen"}
        BY <1>1, <2>2, <3>2, CommandStep
      <4>2. failures >= frame - brokeAt
        BY <1>1, <1>2, <1>5, <3>2
      <4> QED
        BY <1>2, <2>2, <4>1, <4>2 DEF Command
    <3> QED
      BY <2>2, <3>1, <3>2 DEF Command
  <2>3. CASE Sent
    BY <1>1, <1>5, <2>3, SentStatus DEF Sent, StuckFlag
  <2>4. CASE Failed
    <3>1. failures >= frame - brokeAt - 1
      BY <1>1, <1>5, <2>4 DEF Failed
    <3> QED
      BY <1>2, <2>4, <3>1 DEF Failed, AfterFailure
  <2>5. CASE Read \/ Deadline
    <3>1. failures >= frame - brokeAt
      BY <1>1, <1>2, <1>5, <2>5 DEF Read, Deadline
    <3> QED
      BY <1>2, <2>5, <3>1 DEF Read, Deadline
  <2>6. CASE Environment
    <3>1. UNCHANGED <<task, brokeAt>>
      BY <1>5, <2>6 DEF Environment, Transmit, Answer, HearNoise, Break
    <3> QED
      BY <1>1, <1>5, <3>1 DEF task
  <2> QED
    BY <2>1, <2>2, <2>3, <2>4, <2>5, <2>6 DEF Next, Task
<1> QED
  BY <1>3, <1>4, <1>5

\* The channel index is one ahead of the channel in use.
LEMMA StepIndex ==
    ASSUME CoreInv, Next
    PROVE  IndexIsAhead'
<1> USE DEF IndexIsAhead
<1>1. TypeInv /\ ScriptIsEnd /\ IndexIsAhead
  BY DEF CoreInv
<1>2. ASSUME NEW bind \in BOOLEAN, Begin(bind) PROVE IndexIsAhead'
  BY <1>2, Scripts DEF Begin
<1>3. CASE Command
  <2>1. CASE bus = "ok" /\ ~binding /\ pc = "tx_script"
    <3>1. /\ Len(script) \in 1 .. 7
          /\ Len(script) = 7 => Head(script) = "set_channel"
          /\ Len(script) # 7 => Head(script) \notin {"set_channel",
                                                     "set_bind_channel"}
      BY <1>1, <1>3, <2>1, CommandStep DEF CommandIs
    <3>2. CASE Len(script) = 7
      BY <1>1, <1>3, <2>1, <3>1, <3>2, CommandChip DEF Command
    <3>3. CASE Len(script) # 7
      <4>1. chip'.channel = chip.channel
        BY <1>1, <1>3, <3>1, <3>3, CommandChip
      <4>2. channelIndex' = channelIndex
        BY <1>3, <3>1, <3>3 DEF Command
      <4>3. Len(script) <= 6
        BY <3>1, <3>3, Left, Zenon
      <4>4. channelIndex = NextChannel(chip.channel)
        BY <1>1, <2>1, <4>3
      <4> QED
        BY <4>1, <4>2, <4>4
    <3> QED
      BY <3>2, <3>3
  <2>2. CASE ~(bus = "ok" /\ ~binding /\ pc = "tx_script")
    BY <1>1, <1>3, <2>2, CommandStep DEF Command
  <2> QED
    BY <2>1, <2>2
<1>4. CASE Sent \/ Failed \/ Read \/ Deadline
  BY <1>4 DEF Sent, Failed, AfterFailure, Read, Deadline
<1>5. ASSUME NEW heard \in BOOLEAN, Transmit(heard) PROVE IndexIsAhead'
  BY <1>1, <1>5, TransmitChip DEF Transmit, task
<1>6. CASE Answer \/ HearNoise
  BY <1>1, <1>6, AirChip DEF Answer, HearNoise, task
<1>7. ASSUME NEW b \in Broken, Break(b) PROVE IndexIsAhead'
  BY <1>7 DEF Break, Broken
<1> QED
  BY <1>1, <1>2, <1>3, <1>4, <1>5, <1>6, <1>7 DEF Next, Task, Environment

\* The invariant of the scripts, the flags, the failures and the hopping.
THEOREM CoreInvariant == Spec => []CoreInv
<1>1. Init => CoreInv
  BY InitCore
<1>2. CoreInv /\ [Next]_vars => CoreInv'
  <2> SUFFICES ASSUME CoreInv, [Next]_vars PROVE CoreInv'
    OBVIOUS
  <2>1. CASE Next
    <3>1. TypeInv' /\ ScriptIsEnd'
      BY <2>1, StepType, StepScript DEF CoreInv
    <3> QED
      BY <2>1, <3>1, StepSent, StepFailures, StepIndex DEF CoreInv
  <2>2. CASE UNCHANGED vars
    BY <2>2 DEF vars, task, CoreInv, TypeInv, TypeOK, ScriptIsEnd,
                FlagIsFresh, SentMeansOnAir, FailuresAreCounted,
                IndexIsAhead, StuckFlag
  <2> QED
    BY <2>1, <2>2
<1> QED
  BY <1>1, <1>2, PTL DEF Spec

\* Every variable stays in its type: in particular consecutive_tx_failures
\* never passes the limit, and the FIFO of captures its length.
THEOREM TypeCorrect == Spec => []TypeOK
<1>1. CoreInv => TypeOK
  BY DEF CoreInv, TypeInv
<1> QED
  BY <1>1, CoreInvariant, PTL

\* Whatever breaks and wherever, the task listens for an answer only in a
\* frame whose packet was sent, unless the chip is deaf with TX_DS set.
THEOREM SentWasOnAir == Spec => []SentMeansOnAir
<1>1. CoreInv => SentMeansOnAir
  BY DEF CoreInv
<1> QED
  BY <1>1, CoreInvariant, PTL

\* A radio that is cut off is in RADIO_ERROR after at most
\* RADIO_FAILURE_LIMIT frames, for every limit.
THEOREM DeadRadioDetected == Spec => []DeadRadioIsDetected
<1>1. CoreInv => DeadRadioIsDetected
  <2> SUFFICES ASSUME CoreInv, bus # "ok", pc # "radio_error", ~StuckFlag
               PROVE  frame - brokeAt <= RADIO_FAILURE_LIMIT
    BY DEF DeadRadioIsDetected
  <2>1. failures >= frame - brokeAt - 1
    BY DEF CoreInv, FailuresAreCounted, TypeInv
  <2> QED
    BY <2>1, RadioFrameAssumption DEF CoreInv, TypeInv
<1> QED
  BY <1>1, CoreInvariant, PTL

-----------------------------------------------------------------------------
(* Answers.                                                                 *)

\* Nothing has been received at the start.
LEMMA InitReply == Init => ReplyInv
  BY DEF Init, ReplyInv, AnswerIsBehind, CapturesAreFresh,
         ReplyIsFromThisFrame, Broken

\* An answer late by a frame never meets the chip on its channel: the task
\* has hopped before it listens again.
LEMMA StepAnswer ==
    ASSUME CoreInv, AnswerIsBehind, Next
    PROVE  AnswerIsBehind'
<1> USE DEF AnswerIsBehind
<1>1. /\ TypeInv /\ ScriptIsEnd /\ IndexIsAhead /\ frame \in Nat
      /\ binding \in BOOLEAN
  BY DEF CoreInv, TypeInv, TypeOK
<1>2. ASSUME answer # <<>>
      PROVE  answer[1].frame \in Nat /\ answer[1].channel \in Channel
  BY <1>1, <1>2, AnswerType
<1>3. ASSUME NEW bind \in BOOLEAN, Begin(bind) PROVE AnswerIsBehind'
  <2> SUFFICES ASSUME bus = "ok", answer # <<>> PROVE AnswerIsBehind'
    BY <1>3 DEF Begin
  <2>1. /\ bus' = bus /\ answer' = answer /\ frame' = frame + 1
        /\ answer[1].frame <= frame
    BY <1>3 DEF Begin
  <2>2. CASE answer[1].frame = frame
    <3>1. channelIndex' = NextChannel(answer[1].channel)
      BY <1>3, <2>2 DEF Begin
    <3>2. pc' = "tx_script" /\ Len(script') = 7
      BY <1>3, Scripts DEF Begin
    <3> QED
      BY <1>1, <1>2, <2>1, <2>2, <3>1, <3>2
  <2>3. CASE answer[1].frame < frame
    BY <1>1, <1>2, <2>1, <2>3
  <2> QED
    BY <1>1, <1>2, <2>1, <2>2, <2>3
<1>4. CASE Command
  <2> SUFFICES ASSUME bus = "ok", answer # <<>> PROVE AnswerIsBehind'
    BY <1>4 DEF Command
  <2>1. UNCHANGED <<bus, answer, frame, binding>>
    BY <1>4 DEF Command
  <2>2. CASE Head(script) = "set_channel"
    <3>1. pc = "tx_script" /\ Len(script) = 7 /\ ~binding
      BY <1>1, <1>4, <2>2, CommandStep DEF CommandIs, Command
    <3>2. chip'.channel = channelIndex /\ Len(script') = 6
      BY <1>1, <1>4, <2>2, <3>1, CommandChip, CommandStep
    <3>3. answer[1].frame # frame
      BY <3>1
    <3>4. answer[1].frame = frame - 1 => chip'.channel # answer[1].channel
      BY <1>2, <3>1, <3>2, NextChannelMoves
    <3> QED
      BY <2>1, <3>2, <3>3, <3>4
  <2>3. CASE Head(script) # "set_channel"
    <3>1. channelIndex' = channelIndex
      BY <1>4, <2>3 DEF Command
    <3>2. ~binding => /\ chip'.channel = chip.channel
                      /\ ~(pc = "tx_script" /\ Len(script) = 7)
                      /\ ~(pc' = "tx_script" /\ Len(script') = 7)
      <4> SUFFICES ASSUME ~binding
                   PROVE  /\ chip'.channel = chip.channel
                          /\ ~(pc = "tx_script" /\ Len(script) = 7)
                          /\ ~(pc' = "tx_script" /\ Len(script') = 7)
        OBVIOUS
      <4>1. CommandIs(Head(script)) /\ pc \in {"tx_script", "rx_script"}
        BY <1>1, <1>4, CommandStep DEF Command
      <4>2. /\ ~(pc = "tx_script" /\ Len(script) = 7)
            /\ Head(script) # "set_bind_channel"
            /\ pc = "tx_script" => Len(script) \in 1 .. 7
        BY <2>3, <4>1 DEF CommandIs
      <4>3. chip'.channel = chip.channel
        BY <1>1, <1>4, <2>3, <4>2, CommandChip
      <4>4. pc' = "tx_script" => pc = "tx_script" /\ Len(script') = Len(script) - 1
        BY <1>1, <1>4, CommandStep
      <4> QED
        BY <4>2, <4>3, <4>4, Left, Zenon
    <3>3. pc' = "tx_script" => pc = "tx_script"
      BY <1>1, <1>4, CommandStep
    <3> QED
      BY <2>1, <3>1, <3>2, <3>3
  <2> QED
    BY <2>2, <2>3
<1>5. CASE Sent \/ Failed \/ Read \/ Deadline
  <2>1. UNCHANGED <<bus, answer, frame, binding, channelIndex>>
    BY <1>5 DEF Sent, Failed, Read, Deadline
  <2>2. chip'.channel = chip.channel
    BY <1>1, <1>5, ReadChip DEF Sent, Failed, Deadline
  <2>3. pc # "tx_script" /\ pc' # "tx_script"
    BY <1>5 DEF Sent, Failed, AfterFailure, Read, Deadline
  <2> QED
    BY <2>1, <2>2, <2>3
<1>6. ASSUME NEW heard \in BOOLEAN, Transmit(heard) PROVE AnswerIsBehind'
  <2>1. UNCHANGED <<bus, frame, binding, channelIndex, pc, script>>
        /\ chip'.channel = chip.channel /\ pc = "poll"
    BY <1>1, <1>6, TransmitChip DEF Transmit, task
  <2>2. CASE heard /\ ~binding
    <3>1. answer'[1] = [frame |-> frame, channel |-> chip.channel]
      BY <1>6, <2>2 DEF Transmit
    <3>2. bus = "ok" => channelIndex = NextChannel(chip.channel)
      BY <1>1, <2>1, <2>2 DEF IndexIsAhead
    <3>3. /\ answer'[1].frame = frame
          /\ answer'[1].channel = chip.channel
      BY <3>1
    <3> QED
      BY <1>1, <2>1, <2>2, <3>2, <3>3
  <2>3. CASE ~(heard /\ ~binding)
    BY <1>6, <2>1, <2>3 DEF Transmit
  <2> QED
    BY <2>2, <2>3
<1>7. CASE Answer
  BY <1>7 DEF Answer
<1>8. CASE HearNoise
  BY <1>1, <1>8, AirChip DEF HearNoise, task
<1>9. ASSUME NEW b \in Broken, Break(b) PROVE AnswerIsBehind'
  BY <1>9 DEF Break, Broken
<1> QED
  BY <1>3, <1>4, <1>5, <1>6, <1>7, <1>8, <1>9 DEF Next, Task, Environment

\* The captures since the flush: noise and answers to this frame.
LEMMA StepCaptures ==
    ASSUME CoreInv, AnswerIsBehind, CapturesAreFresh, Next
    PROVE  CapturesAreFresh'
<1> USE DEF CapturesAreFresh
<1>1. /\ TypeInv /\ ScriptIsEnd /\ frame \in Nat /\ chip \in Chip
      /\ chip.rxFifo \in Seq(Nat)
  BY DEF CoreInv, TypeInv, Chip
<1>2. CASE \E bind \in BOOLEAN : Begin(bind)
  BY <1>2 DEF Begin
<1>3. CASE Command
  <2> SUFFICES ASSUME bus = "ok" PROVE CapturesAreFresh'
    BY <1>3 DEF Command
  <2>1. CASE pc = "tx_script"
    BY <1>1, <1>3, <2>1, CommandStep
  <2>2. CASE pc = "rx_script"
    <3>1. /\ Len(script) \in 1 .. 5 /\ Len(script') = Len(script) - 1
          /\ Len(script) = 4 <=> Head(script) = "ce_low"
          /\ Len(script) = 3 <=> Head(script) = "flush_rx"
          /\ Len(script) = 1 <=> Head(script) = "ce_high"
      BY <1>1, <1>3, <2>2, CommandStep DEF CommandIs
    <3>2. Len(script) \in 2 .. 4 => ~chip'.ce
      <4>1. CASE Len(script) = 4
        BY <1>1, <1>3, <3>1, <4>1, CommandChip
      <4>2. CASE Len(script) \in 2 .. 3
        <5>1. ~chip.ce /\ Head(script) # "ce_high"
          BY <2>2, <3>1, <4>2
        <5> QED
          BY <1>1, <1>3, <5>1, CommandChip
      <4> QED
        BY <3>1, <4>1, <4>2
    <3>3. Len(script) \in 1 .. 3 => chip'.rxFifo = <<>>
      <4>1. CASE Len(script) = 3
        BY <1>1, <1>3, <2>2, <3>1, <4>1, CommandChip
      <4>2. CASE Len(script) \in 1 .. 2
        <5>1. Len(script) <= 2 /\ Len(script) # 3
          BY <4>2, Left, Zenon
        <5>2. Head(script) # "flush_rx" /\ chip.rxFifo = <<>>
          BY <2>2, <3>1, <5>1, Zenon
        <5>3. chip'.rxFifo = chip.rxFifo
          BY <1>1, <1>3, <5>2, CommandChip
        <5> QED
          BY <5>2, <5>3, Zenon
      <4> QED
        BY <3>1, <4>1, <4>2
    <3>4. /\ pc' = "rx_script" <=> Len(script) # 1
          /\ pc' = "listen" <=> Len(script) = 1
      BY <1>1, <1>3, <2>2, CommandStep
    <3>5. Len(script) = 1 => 1 .. Len(chip'.rxFifo) = {}
      <4>1. Len(<<>>) = 0
        BY EmptySeq
      <4> QED
        BY <3>1, <3>3, <4>1
    <3> QED
      BY <3>1, <3>2, <3>3, <3>4, <3>5, SMTT(30)
  <2> QED
    BY <1>3, <2>1, <2>2 DEF Command
<1>4. CASE Sent
  BY <1>4, Scripts DEF Sent
<1>5. CASE Failed \/ Read \/ Deadline
  BY <1>5 DEF Failed, AfterFailure, Read, Deadline
<1>6. CASE \E heard \in BOOLEAN : Transmit(heard)
  BY <1>6 DEF Transmit, task
<1>7. CASE Answer \/ HearNoise
  <2> SUFFICES ASSUME bus = "ok" PROVE CapturesAreFresh'
    BY <1>7 DEF Answer, HearNoise
  <2>1. UNCHANGED <<bus, pc, script, frame>>
    BY <1>7 DEF Answer, HearNoise, task
  <2>2. CASE UNCHANGED chip
    BY <2>1, <2>2
  <2>3. ASSUME NEW what \in Nat, Capture(what),
               pc = "listen" => what \in {Noise, frame}
        PROVE  CapturesAreFresh'
    <3>1. chip.ce /\ chip'.ce = chip.ce
          /\ chip'.rxFifo = Append(chip.rxFifo, what)
      BY <1>1, <2>3, CaptureChip DEF Capture
    <3>2. ~(pc = "rx_script" /\ Len(script) <= 3)
      BY <3>1
    <3>3. \A i \in 1 .. Len(chip'.rxFifo) :
             \/ chip'.rxFifo[i] = what
             \/ /\ i \in 1 .. Len(chip.rxFifo)
                /\ chip'.rxFifo[i] = chip.rxFifo[i]
      BY <1>1, <3>1
    <3>4. ~(pc' = "rx_script" /\ Len(script') <= 2)
      <4>1. pc = "rx_script" => Len(script) \in 1 .. 5
        BY <1>1, Scripts DEF ScriptIsEnd, IsEndOf
      <4> QED
        BY <2>1, <3>2, <4>1
    <3> QED
      BY <2>1, <2>3, <3>2, <3>3, <3>4
  <2>4. CASE HearNoise
    BY <2>3, <2>4 DEF HearNoise, Noise
  <2>5. CASE Answer /\ ~UNCHANGED chip
    <3>1. /\ answer # <<>> /\ Capture(answer[1].frame)
          /\ answer[1].channel = chip.channel /\ answer[1].frame >= frame - 1
      BY <2>5 DEF Answer
    <3>2. answer[1].frame \in Nat
      BY <1>1, <3>1, AnswerType
    <3>3. pc = "listen" => answer[1].frame = frame
      <4>1. pc = "listen" => ~binding
        BY <1>1 DEF ScriptIsEnd
      <4> QED
        BY <1>1, <3>1, <3>2, <4>1 DEF AnswerIsBehind
    <3> QED
      BY <2>3, <3>1, <3>2, <3>3
  <2> QED
    BY <1>7, <2>2, <2>4, <2>5
<1>8. CASE \E b \in Broken : Break(b)
  BY <1>8 DEF Break, Broken
<1> QED
  BY <1>2, <1>3, <1>4, <1>5, <1>6, <1>7, <1>8 DEF Next, Task, Environment

\* A frame that is read was received in this frame.
LEMMA StepReply ==
    ASSUME CoreInv, CapturesAreFresh, ReplyIsFromThisFrame, Next
    PROVE  ReplyIsFromThisFrame'
<1> USE DEF ReplyIsFromThisFrame
<1>1. CASE Read
  <2>1. CASE bus = "ok" /\ chip.rxFifo # <<>> /\ Head(chip.rxFifo) # Noise
    <3>1. taken' = [answer |-> Head(chip.rxFifo), frame |-> frame]
      BY <1>1, <2>1 DEF Read
    <3>2. chip.rxFifo \in Seq(Nat)
      BY DEF CoreInv, TypeInv, Chip
    <3>3. Len(chip.rxFifo) \in Nat \ {0} /\ Head(chip.rxFifo) = chip.rxFifo[1]
      BY <2>1, <3>2, EmptySeq
    <3>4. Head(chip.rxFifo) = frame
      BY <1>1, <2>1, <3>3 DEF CapturesAreFresh, Read
    <3> QED
      BY <3>1, <3>4
  <2>2. CASE ~(bus = "ok" /\ chip.rxFifo # <<>> /\ Head(chip.rxFifo) # Noise)
    BY <1>1, <2>2 DEF Read
  <2> QED
    BY <2>1, <2>2
<1>2. CASE ~Read
  <2>1. taken' = taken
    BY <1>2 DEF Next, Task, Environment, Begin, Command, Sent, Failed,
                Deadline, Transmit, Answer, HearNoise, Break
  <2> QED
    BY <2>1
<1> QED
  BY <1>1, <1>2

\* A telemetry packet read in a frame answers the packet of that frame, for
\* any number of channels above one: flush and hopping together keep late
\* answers out.
THEOREM ReplyFromThisFrame == Spec => []ReplyIsFromThisFrame
<1>1. Init => ReplyInv
  BY InitReply
<1>2. CoreInv /\ ReplyInv /\ [Next]_vars => ReplyInv'
  <2> SUFFICES ASSUME CoreInv, ReplyInv, [Next]_vars PROVE ReplyInv'
    OBVIOUS
  <2>1. CASE Next
    BY <2>1, StepAnswer, StepCaptures, StepReply DEF ReplyInv
  <2>2. CASE UNCHANGED vars
    BY <2>2 DEF vars, task, ReplyInv, AnswerIsBehind, CapturesAreFresh,
                ReplyIsFromThisFrame
  <2> QED
    BY <2>1, <2>2
<1>3. ReplyInv => ReplyIsFromThisFrame
  BY DEF ReplyInv
<1> QED
  BY <1>1, <1>2, <1>3, CoreInvariant, PTL DEF Spec
=============================================================================
