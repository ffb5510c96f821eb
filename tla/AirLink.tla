------------------------------ MODULE AirLink -------------------------------
(***************************************************************************)
(* What the ends of the link understand of each other: the identity of     *)
(* module TransmitterId together with the frames that carry it and         *)
(* everything after it.  In each period of 5 ms the transmitter sends a    *)
(* bind or a data frame, or the flight controller answers and the answer   *)
(* goes on to the ground station, between two other records of the serial  *)
(* line.  A frame may be damaged on the air and the bytes on the line.     *)
(*                                                                         *)
(* The frames are made and read byte by byte (modules Bayang and           *)
(* PcRecord).  What can be heard of a frame is a constant, a set that      *)
(* holds the outcome of every damage, and is computed once.                *)
(***************************************************************************)
EXTENDS TransmitterId, PcRecord, FiniteSets

CONSTANTS
    Sticks,         \* the positions of the sticks that are sent
    Answers,        \* the packets the flight controller answers with
    Selections,     \* saved AUX selections, as their flags
    AirDamage,      \* the bits of a frame that are inverted on the air: sets
    LineDamage      \* bits inverted and a byte lost, or 0, on the line

NoDamage == [inverted |-> {}, dropped |-> 0]

ASSUME AirLinkAssumption ==
    /\ {} \in AirDamage
    /\ NoDamage \in LineDamage

VARIABLE exchange   \* the frame of this period and what was heard of it

linkVars == <<vars, exchange>>

Quiet == [kind |-> "quiet"]

-----------------------------------------------------------------------------
(* What can be heard.                                                       *)

\* A bind frame, by a flight controller that is binding.
BindHeard ==
    [id \in Ids |->
        LET frame == xn297_write_payload(Zero, bayang_build_bind_packet(id))
        IN  {FcHears(Zero, BAYANG_BIND_A3, Inverted(frame, d)) :
                 d \in AirDamage}]

\* active_control: the channels and flags of a position of the sticks.
active_control(s) ==
    [roll |-> map_stick(s.rollRaw), pitch |-> map_stick(s.pitchRaw),
     yaw |-> map_stick(s.yawRaw),
     throttle |-> map_throttle(map_half_stick_throttle(s.axisY)),
     flags |-> s.flags]

\* A data frame of transmitter id, by a flight controller bound to fcId.
DataHeard ==
    [id \in Ids, fcId \in Ids, s \in Sticks |->
        LET frame == xn297_write_payload(id,
                         bayang_build_data_packet(id, active_control(s)))
        IN  {FcHears(fcId, BAYANG_DATA, Inverted(frame, d)) : d \in AirDamage}]

\* An answer of a flight controller bound to fcId, by transmitter id: the
\* packets that telemetry_parse accepts.
AnswerHeard ==
    [id \in Ids, fcId \in Ids, a \in Answers |->
        LET heard == {xn297_read_payload(id, Inverted(FcAnswer(fcId, a), d)) :
                          d \in AirDamage}
        IN  {p \in heard : p # Nothing /\ bayang_check_telemetry(p)}]

\* export_task: an accepted packet, with the saved selections in it when the
\* controls are locked.
Exported(packet, saved) ==
    IF saved = None THEN packet ELSE Overlaid(packet, saved)

\* The records of an accepted packet and, after it, of a local state.
LocalState == [i \in 1 .. 44 |-> (i * 37) % 5]
Records(packet, saved) ==
    <<[type |-> 1, sequence |-> 258, timestamp |-> <<0, 0, 0, 0, 0, 1, 0, 2>>,
       payload |-> Exported(packet, saved)],
      [type |-> 2, sequence |-> 7, timestamp |-> <<0, 0, 0, 0, 0, 1, 0, 3>>,
       payload |-> LocalState]>>

\* The line with damage d.
OnLine(stream, d) ==
    LET bytes == Inverted(stream, d.inverted)
    IN  IF d.dropped \in 1 .. Len(bytes) THEN RemoveAt(bytes, d.dropped)
        ELSE bytes

\* What the ground station decodes of the two records, and whether the line
\* was clean.
LineHeard ==
    [a \in Answers, saved \in Selections \cup {None} |->
        LET encoded == [i \in 1 .. 2 |->
                           LET r == Records(a, saved)[i]
                           IN  encode_message(r.type, r.sequence, r.timestamp,
                                              r.payload)]
            stream == encoded[1] \o encoded[2]
        IN  {[clean |-> d = NoDamage,
              records |-> Decoded(OnLine(stream, d))] : d \in LineDamage}]

-----------------------------------------------------------------------------

LinkInit == Init /\ exchange = Quiet

\* A step of setup, the flash or the flight controller's flash; a frame that
\* was under way is over.
IdentityStep ==
    /\ \/ PowerOn \/ NvsInit \/ Load \/ SetBlob \/ Commit \/ PowerOff
       \/ \E random \in Ids : Generate(random)
       \/ SaveGesture \/ FcRestart
    /\ exchange' = Quiet

\* STATE_BINDING: a binding flight controller learns what it hears.
BindFrame ==
    /\ pc = "running" /\ exchange = Quiet
    /\ \E packet \in BindHeard[txId] :
           /\ exchange' = [kind |-> "bind", heard |-> packet]
           /\ fcLearned' = IF packet = Nothing THEN fcLearned
                           ELSE FcBinding(packet).id
    /\ UNCHANGED <<nvs, unsure, pc, txId, fcSaved, kept, boots, faults>>

\* STATE_ACTIVE: a data frame.
DataFrame(s) ==
    /\ pc = "running" /\ exchange = Quiet /\ fcLearned # None
    /\ \E packet \in DataHeard[txId, fcLearned, s] :
           exchange' = [kind |-> "data", sticks |-> s, heard |-> packet]
    /\ UNCHANGED vars

\* The flight controller answers and the transmitter accepts the answer.
AnswerFrame(a) ==
    /\ pc = "running" /\ exchange = Quiet /\ fcLearned # None
    /\ \E packet \in AnswerHeard[txId, fcLearned, a] :
           exchange' = [kind |-> "answer", sent |-> a, heard |-> packet]
    /\ UNCHANGED vars

\* The answer goes on to the ground station.
Export(saved) ==
    /\ exchange.kind = "answer" /\ exchange.heard \in Answers
    /\ \E line \in LineHeard[exchange.heard, saved] :
           exchange' = [kind |-> "export", packet |-> exchange.heard,
                        saved |-> saved, line |-> line]
    /\ UNCHANGED vars

\* The next period.
NextPeriod == exchange # Quiet /\ exchange' = Quiet /\ UNCHANGED vars

LinkNext ==
    \/ IdentityStep \/ BindFrame \/ NextPeriod
    \/ \E s \in Sticks : DataFrame(s)
    \/ \E a \in Answers : AnswerFrame(a)
    \/ \E saved \in Selections \cup {None} : Export(saved)

LinkSpec == LinkInit /\ [][LinkNext]_linkVars

-----------------------------------------------------------------------------
(* Properties.                                                              *)

\* Bound through real frames, however damaged, a flight controller learns the
\* identity that setup stored and nothing else: every step is one that module
\* TransmitterId allows.
BindingIsImplemented == Spec

\* Both ends hop alike: a flight controller that accepts a bind frame listens
\* on the channels that the transmitter will use, all of which the radio has.
BindIsUnderstood ==
    exchange.kind = "bind" /\ exchange.heard # Nothing
        => LET channels == FcBinding(exchange.heard).channels
           IN  /\ channels = hopping_channels(txId)
               /\ \A i \in 1 .. 4 : channels[i] \in 0 .. 125

\* What a command c must be for sticks in position s: centred inside the
\* deadband, the ends reached, a stick further out never less than one
\* further in, and a throttle that is off when the stick is not pushed and
\* never above THROTTLE_MAX_PERCENT.
Steers(s, c) ==
    LET axes == {<<s.rollRaw, c.roll>>, <<s.pitchRaw, c.pitch>>,
                 <<s.yawRaw, c.yaw>>}
    IN  /\ \A a \in axes :
               /\ a[1] \in -25 .. 25 => a[2] = 512
               /\ a[1] = -512 => a[2] = 0
               /\ a[1] >= 511 => a[2] >= 1022
               /\ \A b \in axes : a[1] <= b[1] => a[2] <= b[2]
        /\ s.axisY >= 0 => c.throttle = 0
        /\ s.axisY = -512
               => c.throttle = (1023 * THROTTLE_MAX_PERCENT) \div 100
        /\ 100 * c.throttle <= 1023 * THROTTLE_MAX_PERCENT

\* A flight controller obeys only the transmitter it is bound to, and what it
\* obeys is what the pilot commands.
CommandIsUnderstood ==
    exchange.kind = "data" /\ exchange.heard # Nothing
        => /\ fcLearned = txId
           /\ FcCommand(exchange.heard) = active_control(exchange.sticks)
           /\ Steers(exchange.sticks, FcCommand(exchange.heard))

\* An answer that the transmitter accepts is the one that a flight controller
\* bound to it sent, although answers have no CRC.
AnswerIsUnderstood ==
    exchange.kind = "answer"
        => fcLearned = txId /\ exchange.heard = exchange.sent

\* Frames mean to the end that accepts them what they meant to the end that
\* sent them, whichever bits were inverted on the way: addresses, channels,
\* commands and answers.
FramesArriveIntact ==
    BindIsUnderstood /\ CommandIsUnderstood /\ AnswerIsUnderstood

\* The mode of saved selections: of the level, race and horizon flags.
SelectedMode(saved) ==
    LET on == {i \in 0 .. 2 : Bit(saved, i) = 1}
    IN  CASE on = {0} -> "Level"
          [] on = {0, 1} -> "Race"
          [] on = {0, 2} -> "Horizon"
          [] on = {0, 1, 2} -> "RaceHorizon"
          [] OTHER -> "Acro"

\* What the ground station shows of a packet while saved selections are shown
\* in it: its checksum is right, and only the mode and the PID profile of a
\* flight page differ from what the flight controller sent.
ShowsSaved(shown, packet, saved) ==
    /\ bayang_check_telemetry(shown)
    /\ SubSeq(shown, 1, 13) = SubSeq(packet, 1, 13)
    /\ IF saved # None /\ packet[1] = \h86 /\ packet[2] \div 64 = 1
       THEN /\ decode_flight_mode(shown[14]) = SelectedMode(saved)
            /\ Bit(shown[14], 6) = Bit(saved, 3)
            /\ \A i \in {0, 1, 2, 7} : Bit(shown[14], i) = Bit(packet[14], i)
       ELSE shown = packet

\* The ground station decodes the records that were written and no others: an
\* inverted bit, also one in a COBS code or a delimiter, and a lost byte cost
\* records and never change one; and a packet of the flight controller shows
\* the saved selections exactly when it was exported with them.
RecordsArriveIntact ==
    exchange.kind = "export"
        => LET sent == Records(exchange.packet, exchange.saved)
               written == {sent[1], sent[2]}
           IN  /\ exchange.line.records \subseteq written
               /\ exchange.line.clean => exchange.line.records = written
               /\ \A r \in exchange.line.records :
                      r.type = 1 => ShowsSaved(r.payload, exchange.packet,
                                               exchange.saved)
=============================================================================
