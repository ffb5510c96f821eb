------------------------- MODULE ControlTaskProofs --------------------------
(***************************************************************************)
(* Proofs about the control and RF task, for every value of the constants: *)
(* arming and disarming, the age of motor commands, hopping, the           *)
(* selections that buttons make and the flash keeps, and what the feedback *)
(* task lets the pilot hear of the changes of state.                       *)
(***************************************************************************)
EXTENDS ControlTask, Feedback, TLAPS

-----------------------------------------------------------------------------
(* What the operators return.                                               *)

\* An age stays an age when time passes.
LEMMA OlderType ==
    ASSUME NEW a \in Age, NEW d \in Nat
    PROVE  Older(a, d) \in Age
BY TelemetryAssumption DEF Older, Age

\* If one stamp is younger than another after time has passed, it was before.
LEMMA OlderOrder ==
    ASSUME NEW a \in Age, NEW b \in Age, NEW d \in Nat,
           Older(a, d) < Older(b, d)
    PROVE  a < b
BY TelemetryAssumption DEF Older, Age

\* The state machine only moves between its states.
LEMMA UpdateType ==
    ASSUME NEW s \in SystemState, NEW lost \in BOOLEAN, NEW idle \in BOOLEAN,
           NEW unlock \in BOOLEAN, NEW bind \in BOOLEAN,
           NEW disarm \in BOOLEAN, NEW age
    PROVE  failsafe_update_at(s, lost, idle, unlock, bind, disarm, age)
               \in SystemState
BY DEF failsafe_update_at, WithGamepad, WithoutGamepad, SystemState

\* A decoded packet leaves well-formed telemetry data.
LEMMA ParseType ==
    ASSUME NEW t \in TelemetryData, NEW p \in Reply
    PROVE  /\ telemetry_parse(t, p) \in TelemetryData
           /\ telemetry_parse(t, p).lastValid = 0
<1>1. 0 \in Age /\ AgeCap \in Age
  BY TelemetryAssumption DEF Age
<1>2. QED
  BY <1>1, ZenonT(60) DEF telemetry_parse, parse_extended, clear_extended_data,
              TelemetryData, Reply, TelemetryProtocol, FlightMode

\* Telemetry data stays well-formed when time passes.
LEMMA TelemetryOlderType ==
    ASSUME NEW t \in TelemetryData, NEW d \in Nat
    PROVE  /\ TelemetryOlder(t, d) \in TelemetryData
           /\ TelemetryOlder(t, d).lastValid = Older(t.lastValid, d)
           /\ TelemetryOlder(t, d).has = t.has
<1>1. Older(t.lastValid, d) \in Age /\ Older(t.lastFlightPage, d) \in Age
  BY OlderType DEF TelemetryData
<1>2. QED
  BY <1>1 DEF TelemetryOlder, TelemetryData

\* The packed selections fit the five bits of the mask.
LEMMA FlagsType ==
    ASSUME NEW on \in SUBSET AuxFlag
    PROVE  nfe_silverware_aux_flags(on) \in 0 .. 31
BY DEF nfe_silverware_aux_flags, AuxBit

\* A shortcut is always one of the gestures.
LEMMA RequestType ==
    ASSUME NEW pressed \in SUBSET Button
    PROVE  gesture_request(pressed) \in Gesture
<1> DEFINE heldSet == {i \in 1 .. 11 : ShortcutOrder[i][1] \in pressed}
<1>1. CASE "R3" \notin pressed \/ heldSet = {}
  BY <1>1 DEF gesture_request, Gesture
<1>2. CASE "R3" \in pressed /\ heldSet # {}
  <2> DEFINE first == CHOOSE i \in heldSet : \A j \in heldSet : i <= j
  <2>1. \E i \in heldSet : \A j \in heldSet : i <= j
    BY <1>2
  <2>2. first \in 1 .. 11
    BY <2>1
  <2>3. \A i \in 1 .. 11 : ShortcutOrder[i][2] \in Gesture
    BY DEF ShortcutOrder, Gesture, GestureDirections
  <2>4. QED
    BY <1>2, <2>2, <2>3 DEF gesture_request
<1>3. QED
  BY <1>1, <1>2

\* The throttle limit never exceeds the channel range.
LEMMA ThrottleType ==
    ASSUME NEW raw \in RawThrottle
    PROVE  ThrottleChannel(raw) \in RawThrottle
<1>1. raw * THROTTLE_MAX_PERCENT \in Nat
  BY ControlTaskAssumption DEF RawThrottle
<1>2. raw * THROTTLE_MAX_PERCENT <= 1023 * 100
  <2>1. \A x \in 0 .. 1023, y \in 0 .. 100 : x * y <= x * 100
    OBVIOUS
  <2>2. QED
    BY <2>1, ControlTaskAssumption DEF RawThrottle
<1>3. \A n \in Nat : n <= 102300 => n \div 100 \in 0 .. 1023
  OBVIOUS
<1>4. QED
  BY <1>1, <1>2, <1>3, SMTT(30) DEF ThrottleChannel, RawThrottle

\* While a gesture is played, its output is a stick position.
LEMMA GestureOutputType ==
    ASSUME NEW pl \in GesturePlayer, pl.command # "None",
           pl.age < GESTURE_TOTAL
    PROVE  GestureOutput(pl) \in Stick
<1> DEFINE step == (pl.age - GESTURE_IDLE) \div GESTURE_STEP
<1>1. CASE pl.age < GESTURE_IDLE \/ step % 2 = 1
  BY <1>1 DEF GestureOutput, Stick
<1>2. CASE ~(pl.age < GESTURE_IDLE \/ step % 2 = 1)
  <2> DEFINE n == pl.age - GESTURE_IDLE
  <2>1. n \in Nat /\ n < 6 * GESTURE_STEP
    BY <1>2, GestureAssumption DEF GesturePlayer, GESTURE_TOTAL
  <2>2. step \in 0 .. 5
    <3>1. \A a \in Nat, b \in Nat \ {0} : a < 6 * b => a \div b \in 0 .. 5
      OBVIOUS
    <3>2. QED
      BY <2>1, <3>1, GestureAssumption
  <2>3. step \div 2 + 1 \in 1 .. 3
    BY <2>2
  <2>4. \A c \in Gesture \ {"None"}, k \in 1 .. 3 :
            GestureDirections[c][k] \in Stick
    BY DEF Gesture, GestureDirections, Stick
  <2>5. pl.command \in Gesture \ {"None"}
    BY DEF GesturePlayer
  <2>6. QED
    BY <1>2, <2>3, <2>4, <2>5 DEF GestureOutput
<1>3. QED
  BY <1>1, <1>2

\* An update leaves a well-formed player, which plays only before the end.
LEMMA PlayerType ==
    ASSUME NEW pl \in GesturePlayer, NEW r \in Gesture
    PROVE  /\ nfe_silverware_update_gesture(pl, r) \in GesturePlayer
           /\ nfe_silverware_update_gesture(pl, r).command # "None" =>
                  nfe_silverware_update_gesture(pl, r).age < GESTURE_TOTAL
<1>1. GESTURE_TOTAL \in Nat \ {0}
  BY GestureAssumption DEF GESTURE_TOTAL
<1>2. "None" \in Gesture
  BY DEF Gesture
<1>3. QED
  BY <1>1, <1>2 DEF nfe_silverware_update_gesture, GestureStarts,
                    GesturePlayer

\* The cleared player is well-formed.
LEMMA CancelType == nfe_silverware_cancel_gesture \in GesturePlayer
<1>1. GESTURE_TOTAL \in Nat
  BY GestureAssumption DEF GESTURE_TOTAL
<1>2. QED
  BY <1>1 DEF nfe_silverware_cancel_gesture, GesturePlayer, Gesture

\* Updating the selections leaves a well-formed AUX state.
LEMMA AuxType ==
    ASSUME NEW a \in AuxState, NEW flying \in BOOLEAN, NEW pressed
    PROVE  nfe_silverware_update_aux(a, flying, pressed) \in AuxState
BY DEF nfe_silverware_update_aux, ToggleOnRisingEdge, AuxPressed, AuxState

\* So does restoring them.
LEMMA RestoreType ==
    ASSUME NEW flags
    PROVE  nfe_silverware_restore_aux(flags) \in AuxState
BY DEF nfe_silverware_restore_aux, AuxState

\* What the row of the state table for state s promises of packet p.
PacketFacts(s, hop, on, p) ==
    /\ s # "ACTIVE" => ~p.ch5 /\ p.throttle = 0
    /\ s \notin {"ACTIVE", "LOCKED"} => p.stick = "centre"
    /\ s = "ACTIVE" => p.ch5
    /\ s \notin {"ACTIVE", "PREARM_MODE"} => p.on = {}
    /\ s \in {"ACTIVE", "PREARM_MODE"} => p.on = on
    /\ s = "BINDING" => p.kind = "bind"
    /\ s \notin {"BINDING", "RADIO_ERROR"} => p.kind = "data" /\ p.hop = hop

\* Every packet the control step builds is a packet and keeps that promise.
LEMMA PacketType ==
    ASSUME NEW s \in SystemState, NEW hop \in 0 .. BAYANG_RF_CHANNELS - 1,
           NEW c \in Controls, NEW on \in SUBSET AuxFlag,
           NEW pl \in GesturePlayer,
           pl.command # "None" => pl.age < GESTURE_TOTAL
    PROVE  /\ BuildPacket(s, hop, c, on, pl) \in Packet
           /\ PacketFacts(s, hop, on, BuildPacket(s, hop, c, on, pl))
<1>1. 0 \in 0 .. BAYANG_RF_CHANNELS - 1 /\ 0 \in RawThrottle
  BY ControlTaskAssumption DEF RawThrottle
<1>2. NoPacket \in Packet /\ BindPacket \in Packet
  BY <1>1 DEF NoPacket, BindPacket, Packet, Stick
<1>3. neutral_control(hop) \in Packet
  BY <1>1 DEF neutral_control, NoPacket, Packet, Stick
<1>4. prearm_control(hop, on) \in Packet
  BY <1>1 DEF prearm_control, neutral_control, NoPacket, Packet, Stick
<1>5. active_control(hop, c, on) \in Packet
  BY ThrottleType DEF active_control, Packet, Stick, Controls
<1>6. locked_control(hop, c, pl) \in Packet
  <2>1. pl.command # "None" => GestureOutput(pl) \in Stick
    BY GestureOutputType
  <2>2. QED
    BY <1>1, <2>1 DEF locked_control, neutral_control, NoPacket, Packet,
                      Stick
<1>7. BuildPacket(s, hop, c, on, pl) \in Packet
  BY <1>2, <1>3, <1>4, <1>5, <1>6 DEF BuildPacket, SystemState
<1>8. QED
  BY <1>7 DEF PacketFacts, BuildPacket, SystemState, NoPacket, BindPacket,
              neutral_control, prearm_control, active_control, locked_control

-----------------------------------------------------------------------------
(* The inductive invariant.                                                 *)

\* While pre-arming or armed, the packet of the iteration carries the
\* selections; only the armed one carries CH5.
PacketWhilePrearming ==
    /\ mode = "PREARM_MODE" /\ pc \in {"transmit", "receive"} =>
           packet.kind = "data" /\ ~packet.ch5 /\ packet.on = aux.on
    /\ mode = "ACTIVE" /\ pc = "transmit" =>
           packet.kind = "data" /\ packet.ch5 /\ packet.on = aux.on

\* There is a packet to transmit; in the receive window, "heard" means that it
\* is the last one the flight controller received.
HeardIsReceived ==
    /\ pc = "transmit" => packet.kind # "none"
    /\ pc = "receive" =>
           /\ packet.kind = "data"
           /\ heard => fcConfig = [ch5 |-> packet.ch5, on |-> packet.on]

\* previous_buttons is what the last snapshot showed.
HeldIsSnapshot == held = controls.pressed \cap EdgeButton

\* Where the walk over the hop table stands: at the entry after the last data
\* packet, or at the first one once a bind packet has gone out.
HopPosition ==
    LET N == BAYANG_RF_CHANNELS
    IN  /\ pc = "transmit" =>
               \/ packet.kind = "bind" /\ mode = "BINDING"
               \/ /\ packet.kind = "data" /\ mode # "BINDING"
                  /\ packet.hop = (lastHop + 1) % N
                  /\ channelIndex = (packet.hop + 1) % N
        /\ pc # "transmit" /\ mode # "RADIO_ERROR" =>
               \/ mode = "BINDING" /\ lastHop = -1
               \/ mode # "BINDING" /\ channelIndex = (lastHop + 1) % N

\* Each part needs the others: the failure counter stays in its type because
\* RADIO_ERROR stops transmission, and a reply proves receipt because of what
\* was sent and who heard it.
IInv ==
    /\ TypeOK
    /\ AnnouncedState
    /\ FailureLimitStopsRadio
    /\ MotorCommandsAreFresh
    /\ PacketWhilePrearming
    /\ HeardIsReceived
    /\ PrearmReplyProvesReceipt
    /\ HeldIsSnapshot
    /\ HopPosition

\* The booted task satisfies the invariant, whatever flash and the flight
\* controller hold.
LEMMA BootType ==
    ASSUME NEW flags, NEW radioOk \in BOOLEAN, NEW readOk \in BOOLEAN,
           NEW m, NEW a, BootState(radioOk, readOk, flags, m, a)
    PROVE  m \in {"WAIT_GAMEPAD", "RADIO_ERROR"} /\ a \in AuxState
BY RestoreType DEF BootState, failsafe_init, failsafe_report_radio_error

\* The constants of the initial state are in their types.
LEMMA BootConstants ==
    /\ NoController \in Controls
    /\ telemetry_init \in TelemetryData
    /\ NoPacket \in Packet
    /\ AgeCap \in Age
    /\ 0 \in Age
    /\ 0 \in 0 .. BAYANG_RF_CHANNELS - 1
    /\ -1 \in -1 .. BAYANG_RF_CHANNELS - 1
    /\ 0 \in 0 .. RADIO_FAILURE_LIMIT
    /\ RADIO_FAILURE_LIMIT # 0
<1>1. AgeCap \in Age /\ 0 \in Age
  BY TelemetryAssumption DEF Age
<1>2. 0 \in 0 .. BAYANG_RF_CHANNELS - 1 /\ 0 \in RawThrottle
  BY ControlTaskAssumption DEF RawThrottle
<1>3. NoController \in Controls
  BY <1>2 DEF NoController, Controls
<1>4. telemetry_init \in TelemetryData
  BY <1>1 DEF telemetry_init, TelemetryData, TelemetryProtocol, FlightMode
<1>5. NoPacket \in Packet
  BY <1>2 DEF NoPacket, Packet, Stick
<1>6. QED
  BY <1>1, <1>2, <1>3, <1>4, <1>5, ControlTaskAssumption

\* After a bind or a boot the walk starts at entry 0.
LEMMA FirstHop == (-1 + 1) % BAYANG_RF_CHANNELS = 0
BY ControlTaskAssumption

\* The invariant holds initially.
LEMMA InitIInv == Init => IInv
<1> SUFFICES ASSUME Init PROVE IInv
  OBVIOUS
<1> USE DEF Init
<1>1. mode \in {"WAIT_GAMEPAD", "RADIO_ERROR"} /\ aux \in AuxState
      /\ unsaved \in BOOLEAN
  BY BootType
<1>2. TypeOK
  BY <1>1, BootConstants, CancelType, ControlTaskAssumption
  DEF TypeOK, SystemState
<1>3. HeldIsSnapshot /\ HopPosition
  BY <1>1, FirstHop DEF HeldIsSnapshot, HopPosition, NoController
<1>4. QED
  BY <1>1, <1>2, <1>3, BootConstants
  DEF IInv, AnnouncedState, FailureLimitStopsRadio, MotorCommandsAreFresh,
      PacketWhilePrearming, HeardIsReceived, PrearmReplyProvesReceipt

\* A power cycle re-establishes the invariant.
LEMMA PowerCycleIInv ==
    ASSUME IInv, PowerCycle
    PROVE  IInv'
<1> USE DEF PowerCycle
<1>1. mode' \in {"WAIT_GAMEPAD", "RADIO_ERROR"} /\ aux' \in AuxState
      /\ unsaved' \in BOOLEAN
  BY BootType
<1>2. nvs' \in 0 .. 31 /\ fcConfig' \in [ch5: BOOLEAN, on: SUBSET AuxFlag]
  BY DEF IInv, TypeOK
<1>3. TypeOK'
  BY <1>1, <1>2, BootConstants, CancelType DEF TypeOK, SystemState
<1>4. HeldIsSnapshot' /\ HopPosition'
  BY <1>1, FirstHop DEF HeldIsSnapshot, HopPosition, NoController
<1>5. QED
  BY <1>1, <1>3, <1>4, BootConstants
  DEF IInv, AnnouncedState, FailureLimitStopsRadio, MotorCommandsAreFresh,
      PacketWhilePrearming, HeardIsReceived, PrearmReplyProvesReceipt

\* Time keeps the stamps in their types, and a reply that is younger than the
\* pre-arm stamp afterwards was younger before.
LEMMA ElapseIInv ==
    ASSUME TypeOK, NEW d \in Nat, Elapse(d)
    PROVE  /\ bindAge' \in Age /\ prearmAge' \in Age /\ gamepadAge' \in Age
           /\ tel' \in TelemetryData
           /\ player' \in GesturePlayer
           /\ tel'.has = tel.has
           /\ tel'.lastValid < prearmAge' => tel.lastValid < prearmAge
<1> USE DEF Elapse, TypeOK
<1>1. bindAge' \in Age /\ prearmAge' \in Age /\ gamepadAge' \in Age
  BY OlderType
<1>2. tel' \in TelemetryData /\ tel'.has = tel.has
      /\ tel'.lastValid = Older(tel.lastValid, d)
  BY TelemetryOlderType
<1>3. player' \in GesturePlayer
  <2>1. GESTURE_TOTAL \in Nat
    BY GestureAssumption DEF GESTURE_TOTAL
  <2>2. QED
    BY <2>1 DEF GesturePlayer
<1>4. tel.lastValid \in Age
  BY DEF TelemetryData
<1>5. QED
  BY <1>1, <1>2, <1>3, <1>4, OlderOrder

-----------------------------------------------------------------------------
(* The control step.                                                        *)

\* What the state machine and the pre-arm decision can return.
LEMMA AfterPrearmFacts ==
    ASSUME IInv, NEW c \in Controls, NEW g \in Age
    PROVE  /\ AfterPrearm(c, g) \in SystemState
           /\ mode = "RADIO_ERROR" => AfterPrearm(c, g) = "RADIO_ERROR"
           /\ AfterPrearm(c, g) = "RADIO_ERROR" => mode = "RADIO_ERROR"
           /\ AfterPrearm(c, g) \in {"ACTIVE", "PREARM_MODE"} =>
                  c.connected /\ g <= GAMEPAD_TIMEOUT
           /\ AfterPrearm(c, g) = "ACTIVE" =>
                  mode \in {"ACTIVE", "PREARM_MODE"}
           /\ mode = "PREARM_MODE" /\ AfterPrearm(c, g) = "ACTIVE" =>
                  tel.has /\ tel.lastValid < prearmAge
           /\ AfterPrearm(c, g) = "PREARM_MODE" =>
                  IF mode = "PREARM_MODE" THEN PrearmAge(c, g) = prearmAge
                  ELSE PrearmAge(c, g) = 0
           /\ PrearmAge(c, g) \in Age
<1> USE DEF IInv, TypeOK
<1> DEFINE lost == gamepad_timeout(c.connected, g)
           idle == c.throttleRaw <= ARM_THROTTLE_MAX
           unlock == "Start" \in Clicked(c)
           bind == "View" \in Clicked(c)
           disarm == DisarmClicked(c)
           u == Updated(c, g)
<1>1. lost \in BOOLEAN /\ idle \in BOOLEAN /\ unlock \in BOOLEAN
      /\ bind \in BOOLEAN /\ disarm \in BOOLEAN
  BY DEF gamepad_timeout, DisarmClicked, Controls
<1>2. u = failsafe_update_at(mode, lost, idle, unlock, bind, disarm, bindAge)
  BY DEF Updated
<1> HIDE DEF idle, unlock, bind, disarm, u
<1>3. u \in SystemState
  BY <1>1, <1>2, UpdateType, SMTT(30)
<1>4. /\ mode = "RADIO_ERROR" <=> u = "RADIO_ERROR"
      /\ u \in {"ACTIVE", "PREARM_MODE"} => ~lost
      /\ u = "ACTIVE" => mode = "ACTIVE"
      /\ u = "PREARM_MODE" => mode \in {"LOCKED", "PREARM_MODE"}
  BY <1>1, <1>2
  DEF failsafe_update_at, WithGamepad, WithoutGamepad, SystemState
<1>5. ~lost => c.connected /\ g <= GAMEPAD_TIMEOUT
  BY FailsafeAssumption DEF gamepad_timeout, Age, Controls
<1>6. PrearmAge(c, g) \in Age
      /\ (u = "PREARM_MODE" => IF mode = "PREARM_MODE"
                               THEN PrearmAge(c, g) = prearmAge
                               ELSE PrearmAge(c, g) = 0)
  BY BootConstants DEF PrearmAge, u
<1>7. AfterPrearm(c, g) =
          IF u # "PREARM_MODE" THEN u
          ELSE IF prearm_configuration_confirmed(tel, aux.on,
                                                 PrearmAge(c, g))
          THEN "ACTIVE"
          ELSE IF PrearmAge(c, g) >= PREARM_MODE_TIMEOUT THEN "LOCKED"
          ELSE "PREARM_MODE"
  BY DEF AfterPrearm, u, failsafe_complete_prearm, failsafe_cancel_prearm
<1>8. prearm_configuration_confirmed(tel, aux.on, PrearmAge(c, g)) =>
          tel.has /\ tel.lastValid < PrearmAge(c, g)
  BY DEF prearm_configuration_confirmed, telemetry_get_snapshot
<1>9. tel.lastValid \in Nat
  BY DEF TelemetryData, Age
<1>10. u = "PREARM_MODE" /\ mode # "PREARM_MODE" =>
          ~prearm_configuration_confirmed(tel, aux.on, PrearmAge(c, g))
  BY <1>6, <1>8, <1>9
<1> HIDE DEF lost
<1>11. AfterPrearm(c, g) \in SystemState
  BY <1>3, <1>7 DEF SystemState
<1>12. AfterPrearm(c, g) = "ACTIVE" =>
                  mode \in {"ACTIVE", "PREARM_MODE"}
  BY <1>4, <1>7, <1>10
<1>13. AfterPrearm(c, g) \in {"ACTIVE", "PREARM_MODE"} => ~lost
  BY <1>4, <1>7
<1>14. mode = "PREARM_MODE" /\ AfterPrearm(c, g) = "ACTIVE" =>
           tel.has /\ tel.lastValid < prearmAge
  BY <1>4, <1>6, <1>7, <1>8
<1>15. AfterPrearm(c, g) = "RADIO_ERROR" <=> mode = "RADIO_ERROR"
  BY <1>4, <1>7
<1>16. AfterPrearm(c, g) = "PREARM_MODE" => u = "PREARM_MODE"
  BY <1>7
<1>17. QED
  BY <1>5, <1>6, <1>11, <1>12, <1>13, <1>14, <1>15, <1>16

\* The control step preserves the invariant, for every snapshot.
LEMMA ControlStepIInv ==
    ASSUME IInv, NEW c \in Controls, NEW g \in Age, ControlStep(c, g)
    PROVE  IInv'
<1> DEFINE after == AfterPrearm(c, g)
           hop == HopIndex(after)
           newAux == nfe_silverware_update_aux(aux, after = "ACTIVE",
                                               c.pressed)
           request == gesture_request(c.pressed)
           newPlayer == IF after = "LOCKED"
                        THEN nfe_silverware_update_gesture(player, request)
                        ELSE nfe_silverware_cancel_gesture
<1> USE DEF IInv, TypeOK
<1>1. /\ after \in SystemState
      /\ after = "RADIO_ERROR" <=> mode = "RADIO_ERROR"
      /\ after \in {"ACTIVE", "PREARM_MODE"} =>
             c.connected /\ g <= GAMEPAD_TIMEOUT
      /\ after = "PREARM_MODE" =>
             IF mode = "PREARM_MODE" THEN PrearmAge(c, g) = prearmAge
             ELSE PrearmAge(c, g) = 0
      /\ PrearmAge(c, g) \in Age
  BY AfterPrearmFacts
<1>2. /\ pc = "control"
      /\ pc' = IF after = "RADIO_ERROR" THEN "publish" ELSE "transmit"
      /\ mode' = after /\ previousState' = after
      /\ bindAge' = BindAge(c, g)
      /\ prearmAge' = PrearmAge(c, g)
      /\ controls' = c /\ gamepadAge' = g
      /\ held' = c.pressed \cap EdgeButton
      /\ aux' = newAux
      /\ SaveAux(newAux.on)
      /\ latched' = (latched \cap AuxPressed(c.pressed))
                    \cup (newAux.on \ aux.on) \cup (aux.on \ newAux.on)
      /\ player' = newPlayer
      /\ packet' = BuildPacket(after, hop, c, newAux.on, newPlayer)
      /\ channelIndex' = NextHop(after, hop)
      /\ failures' = failures /\ lastHop' = lastHop /\ tel' = tel
      /\ heard' = heard /\ fcConfig' = fcConfig
  BY DEF ControlStep, link
<1> HIDE DEF after, hop, newAux, request, newPlayer
<1>3. hop \in 0 .. BAYANG_RF_CHANNELS - 1
  BY BootConstants DEF hop, HopIndex
<1>4. newAux \in AuxState /\ newAux.on \in SUBSET AuxFlag
      /\ (after # "ACTIVE" => newAux = aux)
  <2>1. newAux \in AuxState
    BY AuxType DEF newAux
  <2>2. QED
    BY <2>1 DEF newAux, AuxState, nfe_silverware_update_aux
<1>5. newPlayer \in GesturePlayer
      /\ (newPlayer.command # "None" => newPlayer.age < GESTURE_TOTAL)
  <2>1. request \in Gesture
    BY RequestType DEF request, Controls
  <2>2. nfe_silverware_cancel_gesture.command = "None"
    BY DEF nfe_silverware_cancel_gesture
  <2>3. QED
    BY <2>1, <2>2, PlayerType, CancelType DEF newPlayer
<1>6. packet' \in Packet /\ PacketFacts(after, hop, newAux.on, packet')
  BY <1>1, <1>2, <1>3, <1>4, <1>5, PacketType
<1>7. channelIndex' \in 0 .. BAYANG_RF_CHANNELS - 1
  <2>1. (hop + 1) % BAYANG_RF_CHANNELS \in 0 .. BAYANG_RF_CHANNELS - 1
    BY <1>3, ControlTaskAssumption
  <2>2. QED
    BY <1>2, <1>3, <2>1 DEF NextHop
<1>8. nvs' \in 0 .. 31 /\ unsaved' \in BOOLEAN
  BY <1>2, <1>4, FlagsType DEF SaveAux
<1>9. bindAge' \in Age
  BY <1>2, BootConstants DEF BindAge
<1>10. latched' \in SUBSET AuxFlag
  BY <1>2, <1>4 DEF AuxState
<1>11. TypeOK'
  BY <1>1, <1>2, <1>4, <1>5, <1>6, <1>7, <1>8, <1>9, <1>10
<1>12. AnnouncedState' /\ FailureLimitStopsRadio'
  BY <1>1, <1>2 DEF AnnouncedState, FailureLimitStopsRadio
<1>13. MotorCommandsAreFresh'
  BY <1>1, <1>2, <1>6 DEF MotorCommandsAreFresh, PacketFacts
<1>14. PacketWhilePrearming' /\ HeardIsReceived'
  BY <1>1, <1>2, <1>4, <1>6
  DEF PacketWhilePrearming, HeardIsReceived, PacketFacts
<1>15. PrearmReplyProvesReceipt'
  <2>1. tel.lastValid \in Nat
    BY DEF TelemetryData, Age
  <2>2. QED
    BY <1>1, <1>2, <1>4, <2>1 DEF PrearmReplyProvesReceipt
<1>16. HeldIsSnapshot'
  BY <1>2 DEF HeldIsSnapshot
<1>17. HopPosition'
  <2>1. /\ after = "BINDING" => packet'.kind = "bind"
        /\ after \notin {"BINDING", "RADIO_ERROR"} =>
               packet'.kind = "data" /\ packet'.hop = hop
    BY <1>6 DEF PacketFacts
  <2>2. after \notin {"BINDING", "RADIO_ERROR"} =>
            /\ hop = (lastHop + 1) % BAYANG_RF_CHANNELS
            /\ channelIndex' = (hop + 1) % BAYANG_RF_CHANNELS
    BY <1>1, <1>2, FirstHop
    DEF HopPosition, hop, HopIndex, NextHop, AnnouncedState
  <2>3. QED
    BY <1>1, <1>2, <2>1, <2>2 DEF HopPosition
<1>18. QED
  BY <1>11, <1>12, <1>13, <1>14, <1>15, <1>16, <1>17

-----------------------------------------------------------------------------
(* The other steps.                                                         *)

\* Whatever the radio does to a pre-arm packet, a flight controller that had
\* received one before has then received one.
LEMMA FcReceivesPrearm ==
    ASSUME IInv, pc = "transmit", mode = "PREARM_MODE",
           NEW reaches \in BOOLEAN, FcReceives(reaches),
           fcConfig = [ch5 |-> FALSE, on |-> aux.on]
    PROVE  fcConfig' = [ch5 |-> FALSE, on |-> aux.on]
<1>1. packet.ch5 = FALSE /\ packet.on = aux.on
  BY DEF IInv, TypeOK, PacketWhilePrearming, Packet
<1>2. QED
  BY <1>1 DEF FcReceives

\* A transmission reported as sent preserves the invariant.
LEMMA TransmitSentIInv ==
    ASSUME IInv, NEW reaches \in BOOLEAN, TransmitSent(reaches)
    PROVE  IInv'
<1> USE DEF IInv, TypeOK, TransmitSent
<1>1. /\ bindAge' \in Age /\ prearmAge' \in Age /\ gamepadAge' \in Age
      /\ tel' \in TelemetryData /\ player' \in GesturePlayer
      /\ tel'.has = tel.has
      /\ tel'.lastValid < prearmAge' => tel.lastValid < prearmAge
  BY ElapseIInv
<1>2. /\ fcConfig' \in [ch5: BOOLEAN, on: SUBSET AuxFlag]
      /\ lastHop' \in -1 .. BAYANG_RF_CHANNELS - 1
  BY BootConstants, ControlTaskAssumption DEF FcReceives, PacketGone, Packet
<1>3. TypeOK'
  BY <1>1, <1>2, BootConstants
<1>4. AnnouncedState' /\ FailureLimitStopsRadio' /\ MotorCommandsAreFresh'
  BY BootConstants
  DEF AnnouncedState, FailureLimitStopsRadio, MotorCommandsAreFresh
<1>5. PacketWhilePrearming' /\ HeardIsReceived'
  BY DEF PacketWhilePrearming, HeardIsReceived, FcReceives, Packet
<1>6. PrearmReplyProvesReceipt'
  BY <1>1, FcReceivesPrearm, mode' = mode, aux' = aux
  DEF PrearmReplyProvesReceipt
<1>7. HeldIsSnapshot' /\ HopPosition'
  BY DEF HeldIsSnapshot, HopPosition, PacketGone
<1>8. QED
  BY <1>3, <1>4, <1>5, <1>6, <1>7

\* A transmission reported as failed preserves the invariant; the counter
\* stays in range because RADIO_ERROR does not transmit.
LEMMA TransmitFailedIInv ==
    ASSUME IInv, NEW reaches \in BOOLEAN, TransmitFailed(reaches)
    PROVE  IInv'
<1> USE DEF IInv, TypeOK, TransmitFailed
<1>1. /\ bindAge' \in Age /\ prearmAge' \in Age /\ gamepadAge' \in Age
      /\ tel' \in TelemetryData /\ player' \in GesturePlayer
      /\ tel'.has = tel.has
      /\ tel'.lastValid < prearmAge' => tel.lastValid < prearmAge
  BY ElapseIInv
<1>2. /\ fcConfig' \in [ch5: BOOLEAN, on: SUBSET AuxFlag]
      /\ lastHop' \in -1 .. BAYANG_RF_CHANNELS - 1
  BY BootConstants, ControlTaskAssumption DEF FcReceives, PacketGone, Packet
<1>3. failures < RADIO_FAILURE_LIMIT
  BY ControlTaskAssumption DEF FailureLimitStopsRadio
<1>4. /\ mode' \in {mode, "RADIO_ERROR"} /\ previousState' = mode'
      /\ failures + 1 >= RADIO_FAILURE_LIMIT => mode' = "RADIO_ERROR"
  BY DEF AnnouncedState, ReportFailure, FailureState,
         failsafe_report_radio_error
<1>5. failures' \in 0 .. RADIO_FAILURE_LIMIT
  BY <1>3, ControlTaskAssumption
<1>6. TypeOK'
  BY <1>1, <1>2, <1>4, <1>5 DEF SystemState
<1>7. AnnouncedState' /\ FailureLimitStopsRadio' /\ MotorCommandsAreFresh'
  BY <1>4, <1>3, ControlTaskAssumption
  DEF AnnouncedState, FailureLimitStopsRadio, MotorCommandsAreFresh
<1>8. PacketWhilePrearming' /\ HeardIsReceived'
  BY DEF PacketWhilePrearming, HeardIsReceived
<1>9. PrearmReplyProvesReceipt'
  BY <1>1, <1>4, FcReceivesPrearm, aux' = aux DEF PrearmReplyProvesReceipt
<1>10. HeldIsSnapshot' /\ HopPosition'
  BY <1>4 DEF HeldIsSnapshot, HopPosition, PacketGone
<1>11. QED
  BY <1>6, <1>7, <1>8, <1>9, <1>10

\* Receiving a packet preserves the invariant: accepted telemetry answers the
\* packet that was heard.
LEMMA ReceivePacketIInv ==
    ASSUME IInv, NEW p \in Replies, ReceivePacket(p)
    PROVE  IInv'
<1> USE DEF IInv, TypeOK, ReceivePacket, safety, input, profile, radio
<1>1. tel' \in TelemetryData
  BY ParseType, ControlTaskAssumption
<1>2. TypeOK'
  BY <1>1
<1>3. AnnouncedState' /\ FailureLimitStopsRadio' /\ MotorCommandsAreFresh'
  BY DEF AnnouncedState, FailureLimitStopsRadio, MotorCommandsAreFresh
<1>4. PacketWhilePrearming' /\ HeardIsReceived'
  BY DEF PacketWhilePrearming, HeardIsReceived
<1>5. PrearmReplyProvesReceipt'
  <2>1. CASE p.valid
    <3>1. fcConfig = [ch5 |-> packet.ch5, on |-> packet.on]
      BY <2>1 DEF HeardIsReceived
    <3>2. mode = "PREARM_MODE" => packet.ch5 = FALSE /\ packet.on = aux.on
      BY DEF PacketWhilePrearming, Packet
    <3>3. QED
      BY <3>1, <3>2 DEF PrearmReplyProvesReceipt
  <2>2. CASE ~p.valid
    BY <2>2 DEF PrearmReplyProvesReceipt
  <2>3. QED
    BY <2>1, <2>2
<1>6. HeldIsSnapshot' /\ HopPosition'
  BY DEF HeldIsSnapshot, HopPosition
<1>7. QED
  BY <1>2, <1>3, <1>4, <1>5, <1>6

\* So does a window in which nothing arrives.
LEMMA ReceiveDeadlineIInv ==
    ASSUME IInv, ReceiveDeadline
    PROVE  IInv'
<1> USE DEF IInv, ReceiveDeadline, safety, input, profile, radio, link
<1>1. TypeOK'
  BY DEF TypeOK
<1>2. QED
  BY <1>1 DEF AnnouncedState, FailureLimitStopsRadio, MotorCommandsAreFresh,
              PacketWhilePrearming, HeardIsReceived,
              PrearmReplyProvesReceipt, HeldIsSnapshot, HopPosition

\* The end of the iteration preserves the invariant.
LEMMA PublishIInv ==
    ASSUME IInv, NEW d \in 1 .. MaxStall, Publish(d)
    PROVE  IInv'
<1> USE DEF IInv, TypeOK, Publish
<1>1. d \in Nat
  BY ControlTaskAssumption
<1>2. /\ bindAge' \in Age /\ prearmAge' \in Age /\ gamepadAge' \in Age
      /\ tel' \in TelemetryData /\ player' \in GesturePlayer
      /\ tel'.has = tel.has
      /\ tel'.lastValid < prearmAge' => tel.lastValid < prearmAge
  BY <1>1, ElapseIInv
<1>3. TypeOK'
  BY <1>2, BootConstants
<1>4. AnnouncedState' /\ FailureLimitStopsRadio' /\ MotorCommandsAreFresh'
  BY DEF AnnouncedState, FailureLimitStopsRadio, MotorCommandsAreFresh
<1>5. PacketWhilePrearming' /\ HeardIsReceived'
  BY DEF PacketWhilePrearming, HeardIsReceived
<1>6. PrearmReplyProvesReceipt'
  BY <1>2 DEF PrearmReplyProvesReceipt
<1>7. HeldIsSnapshot' /\ HopPosition'
  BY DEF HeldIsSnapshot, HopPosition
<1>8. QED
  BY <1>3, <1>4, <1>5, <1>6, <1>7

\* Every snapshot the gamepad can leave is well-formed.
LEMMA SnapshotType ==
    /\ NoController \in Controls
    /\ \A r \in Reports : [connected |-> TRUE, pressed |-> r.pressed,
                           throttleRaw |-> r.throttleRaw] \in Controls
BY BootConstants, ControlTaskAssumption DEF Report, Controls

\* The invariant is inductive.
LEMMA NextIInv ==
    ASSUME IInv, [Next]_vars
    PROVE  IInv'
<1>1. CASE GamepadAbsent
  BY <1>1, ControlStepIInv, SnapshotType, BootConstants DEF GamepadAbsent
<1>2. CASE GamepadSilent
  BY <1>2, ControlStepIInv DEF GamepadSilent, IInv, TypeOK
<1>3. CASE GamepadReport
  BY <1>3, ControlStepIInv, SnapshotType, BootConstants DEF GamepadReport
<1>4. CASE \E reaches \in BOOLEAN : TransmitSent(reaches)
  BY <1>4, TransmitSentIInv
<1>5. CASE \E reaches \in BOOLEAN : TransmitFailed(reaches)
  BY <1>5, TransmitFailedIInv
<1>6. CASE \E p \in Replies : ReceivePacket(p)
  BY <1>6, ReceivePacketIInv
<1>7. CASE ReceiveDeadline
  BY <1>7, ReceiveDeadlineIInv
<1>8. CASE \E d \in 1 .. MaxStall : Publish(d)
  BY <1>8, PublishIInv
<1>9. CASE PowerCycle
  BY <1>9, PowerCycleIInv
<1>10. CASE UNCHANGED vars
  <2> USE <1>10 DEF vars, safety, input, profile, radio, link
  <2>1. TypeOK'
    BY DEF IInv, TypeOK
  <2>2. QED
    BY <2>1 DEF IInv, AnnouncedState, FailureLimitStopsRadio,
                MotorCommandsAreFresh, PacketWhilePrearming,
                HeardIsReceived, PrearmReplyProvesReceipt,
                HeldIsSnapshot, HopPosition
<1>11. QED
  BY <1>1, <1>2, <1>3, <1>4, <1>5, <1>6, <1>7, <1>8, <1>9, <1>10
  DEF Next, TaskStep

-----------------------------------------------------------------------------
(* The theorems.                                                            *)

\* The inductive invariant holds in every reachable state.
THEOREM Invariance == Spec => []IInv
<1>1. Init => IInv
  BY InitIInv
<1>2. IInv /\ [Next]_vars => IInv'
  BY NextIInv
<1>3. QED
  BY <1>1, <1>2, PTL DEF Spec

\* The task is type-correct.
THEOREM TypeCorrect == Spec => []TypeOK
<1>1. IInv => TypeOK
  BY DEF IInv
<1>2. QED
  BY <1>1, Invariance, PTL

\* No packet commands the motors on behalf of a gamepad that is silent.
THEOREM CommandsAreFresh == Spec => []MotorCommandsAreFresh
<1>1. IInv => MotorCommandsAreFresh
  BY DEF IInv
<1>2. QED
  BY <1>1, Invariance, PTL

\* Telemetry newer than the start of pre-arming proves that the flight
\* controller received a pre-arm packet with the selections in use.
THEOREM ReplyProvesReceipt == Spec => []PrearmReplyProvesReceipt
<1>1. IInv => PrearmReplyProvesReceipt
  BY DEF IInv
<1>2. QED
  BY <1>1, Invariance, PTL

\* RADIO_FAILURE_LIMIT failures in a row silence the radio.
THEOREM FailureLimit == Spec => []FailureLimitStopsRadio
<1>1. IInv => FailureLimitStopsRadio
  BY DEF IInv
<1>2. QED
  BY <1>1, Invariance, PTL

\* The state that was announced last is the state of the task.
THEOREM StateIsAnnounced == Spec => []AnnouncedState
<1>1. IInv => AnnouncedState
  BY DEF IInv
<1>2. QED
  BY <1>1, Invariance, PTL

\* The data packets walk the hop table in order, restarting after a bind.
THEOREM HoppingInOrder == Spec => []HopsInOrder
<1>1. IInv => HopsInOrder
  BY DEF IInv, HopPosition, HopsInOrder
<1>2. QED
  BY <1>1, Invariance, PTL

\* A step that changes the state of the task to ACTIVE is a control step.
LEMMA ActivatedByControl ==
    ASSUME IInv, [Next]_vars, mode' # mode,
           mode' \in {"ACTIVE", "PREARM_MODE"}
    PROVE  \E c \in Controls, g \in Age : ControlStep(c, g)
<1>1. CASE GamepadAbsent
  BY <1>1, SnapshotType, BootConstants DEF GamepadAbsent
<1>2. CASE GamepadSilent
  BY <1>2 DEF GamepadSilent, IInv, TypeOK
<1>3. CASE GamepadReport
  BY <1>3, SnapshotType, BootConstants DEF GamepadReport
<1>4. CASE \E reaches \in BOOLEAN : TransmitSent(reaches)
  BY <1>4 DEF TransmitSent
<1>5. CASE \E reaches \in BOOLEAN : TransmitFailed(reaches)
  BY <1>5 DEF TransmitFailed, ReportFailure, FailureState,
              failsafe_report_radio_error
<1>6. CASE \E p \in Replies : ReceivePacket(p)
  BY <1>6 DEF ReceivePacket, safety
<1>7. CASE ReceiveDeadline
  BY <1>7 DEF ReceiveDeadline, safety
<1>8. CASE \E d \in 1 .. MaxStall : Publish(d)
  BY <1>8 DEF Publish
<1>9. CASE PowerCycle
  <2>1. mode' \in {"WAIT_GAMEPAD", "RADIO_ERROR"}
    BY <1>9, BootType DEF PowerCycle
  <2>2. QED
    BY <2>1
<1>10. CASE UNCHANGED vars
  BY <1>10 DEF vars, safety
<1>11. QED
  BY <1>1, <1>2, <1>3, <1>4, <1>5, <1>6, <1>7, <1>8, <1>9, <1>10
  DEF Next, TaskStep

\* The transmitter arms only with what the flight controller has received:
\* CH5 comes on for the first time after the flight controller has received,
\* as its last packet, a CH5-off packet with the same selections.
THEOREM ArmingIsAnswered == Spec => ArmsOnlyWhatFcReceived
<1>1. ASSUME IInv, [Next]_vars
      PROVE  mode # "ACTIVE" /\ mode' = "ACTIVE" =>
                 fcConfig = [ch5 |-> FALSE, on |-> aux.on]
  <2> SUFFICES ASSUME mode # "ACTIVE", mode' = "ACTIVE"
               PROVE  fcConfig = [ch5 |-> FALSE, on |-> aux.on]
    OBVIOUS
  <2>1. PICK c \in Controls, g \in Age : ControlStep(c, g)
    BY <1>1, ActivatedByControl
  <2>2. AfterPrearm(c, g) = "ACTIVE"
    BY <2>1 DEF ControlStep
  <2>3. mode = "PREARM_MODE" /\ tel.has /\ tel.lastValid < prearmAge
    BY <1>1, <2>2, AfterPrearmFacts
  <2>4. QED
    BY <1>1, <2>3 DEF IInv, PrearmReplyProvesReceipt
<1>2. IInv /\ [Next]_vars =>
          [mode # "ACTIVE" /\ mode' = "ACTIVE" =>
              fcConfig = [ch5 |-> FALSE, on |-> aux.on]]_vars
  BY <1>1
<1>3. QED
  BY <1>2, Invariance, PTL DEF Spec, ArmsOnlyWhatFcReceived

-----------------------------------------------------------------------------
(* The task implements the arming protocol.                                 *)

\* How the state machine gets to PREARM_MODE and to ACTIVE.
LEMMA ArmingPath ==
    ASSUME IInv, NEW c \in Controls, NEW g \in Age
    PROVE  /\ AfterPrearm(c, g) = "PREARM_MODE" /\ mode # "PREARM_MODE" =>
                  /\ mode = "LOCKED" /\ "Start" \in Clicked(c)
                  /\ c.throttleRaw <= ARM_THROTTLE_MAX
           /\ AfterPrearm(c, g) \in {"PREARM_MODE", "ACTIVE"}
              /\ mode \in {"PREARM_MODE", "ACTIVE"} => ~DisarmClicked(c)
           /\ AfterPrearm(c, g) \in {"PREARM_MODE", "ACTIVE"}
              /\ mode = "PREARM_MODE" => c.throttleRaw <= ARM_THROTTLE_MAX
           /\ AfterPrearm(c, g) = "PREARM_MODE" => mode # "ACTIVE"
<1> USE DEF IInv, TypeOK
<1>1. AfterPrearm(c, g) = "PREARM_MODE" => Updated(c, g) = "PREARM_MODE"
  BY DEF AfterPrearm, failsafe_complete_prearm, failsafe_cancel_prearm
<1>2. AfterPrearm(c, g) = "ACTIVE" =>
          Updated(c, g) \in {"PREARM_MODE", "ACTIVE"}
  BY DEF AfterPrearm, failsafe_complete_prearm, failsafe_cancel_prearm
<1>3. /\ Updated(c, g) = "PREARM_MODE" =>
             /\ mode \in {"LOCKED", "PREARM_MODE"}
             /\ c.throttleRaw <= ARM_THROTTLE_MAX
             /\ mode = "LOCKED" => "Start" \in Clicked(c)
             /\ mode = "PREARM_MODE" => ~DisarmClicked(c)
      /\ Updated(c, g) = "ACTIVE" => mode = "ACTIVE" /\ ~DisarmClicked(c)
  BY DEF Updated, failsafe_update_at, WithGamepad, WithoutGamepad,
         SystemState
<1>4. QED
  BY <1>1, <1>2, <1>3

\* The edges of the code are the edges between two snapshots.
LEMMA EdgesAreNew ==
    ASSUME IInv, NEW c \in Controls, controls' = c
    PROVE  /\ "Start" \in Clicked(c) <=> Arming!Newly("start")
           /\ mode \in {"PREARM_MODE", "ACTIVE"} /\ ~DisarmClicked(c) =>
                  ~Arming!TakenBack
<1>1. \A b \in {"Start", "B"} :
          b \in Clicked(c) <=> b \in c.pressed /\ b \notin controls.pressed
  BY DEF IInv, HeldIsSnapshot, Clicked, EdgeButton
<1>2. /\ Arming!Newly("start") <=> "Start" \in Clicked(c)
      /\ Arming!Newly("stop") <=> "B" \in Clicked(c)
  BY <1>1 DEF Arming!Newly
<1>3. QED
  BY <1>2 DEF DisarmClicked, Arming!TakenBack

\* A control step asks, keeps asking, arms, flies or stands.
LEMMA ControlStepRefines ==
    ASSUME IInv, NEW c \in Controls, NEW g \in Age, ControlStep(c, g)
    PROVE  Arming!Next
<1> DEFINE after == AfterPrearm(c, g)
<1>1. /\ mode' = after /\ controls' = c /\ fcConfig' = fcConfig
      /\ aux' = nfe_silverware_update_aux(aux, after = "ACTIVE", c.pressed)
  BY DEF ControlStep, link
<1>2. /\ aux'.on \in SUBSET AuxFlag
      /\ after # "ACTIVE" => aux' = aux
  <2>1. aux' \in AuxState
    BY <1>1, AuxType DEF IInv, TypeOK
  <2>2. QED
    BY <1>1, <2>1 DEF AuxState, nfe_silverware_update_aux
<1>3. /\ after = "ACTIVE" => mode \in {"ACTIVE", "PREARM_MODE"}
      /\ mode = "PREARM_MODE" /\ after = "ACTIVE" =>
             fcConfig = [ch5 |-> FALSE, on |-> aux.on]
  BY AfterPrearmFacts DEF IInv, PrearmReplyProvesReceipt
<1> HIDE DEF after
<1>4. CASE after \notin {"PREARM_MODE", "ACTIVE"}
  BY <1>1, <1>2, <1>4 DEF Arming!Stand, Arming!Next
<1>5. CASE after = "PREARM_MODE" /\ mode # "PREARM_MODE"
  <2>1. /\ mode = "LOCKED" /\ "Start" \in Clicked(c)
        /\ c.throttleRaw <= ARM_THROTTLE_MAX
    BY <1>5, ArmingPath DEF after
  <2>2. Arming!Newly("start")
    BY <1>1, <2>1, EdgesAreNew
  <2>3. QED
    BY <1>1, <1>2, <1>5, <2>1, <2>2 DEF Arming!Ask, Arming!Next
<1>6. CASE after = "PREARM_MODE" /\ mode = "PREARM_MODE"
  <2>1. ~DisarmClicked(c) /\ c.throttleRaw <= ARM_THROTTLE_MAX
    BY <1>6, ArmingPath DEF after
  <2>2. ~Arming!TakenBack
    BY <1>1, <1>6, <2>1, EdgesAreNew
  <2>3. QED
    BY <1>1, <1>2, <1>6, <2>1, <2>2 DEF Arming!KeepAsking, Arming!Next
<1>7. CASE after = "ACTIVE" /\ mode = "PREARM_MODE"
  <2>1. ~DisarmClicked(c) /\ c.throttleRaw <= ARM_THROTTLE_MAX
    BY <1>7, ArmingPath DEF after
  <2>2. ~Arming!TakenBack
    BY <1>1, <1>7, <2>1, EdgesAreNew
  <2>3. QED
    BY <1>1, <1>2, <1>3, <1>7, <2>1, <2>2 DEF Arming!Arm, Arming!Next
<1>8. CASE after = "ACTIVE" /\ mode = "ACTIVE"
  <2>1. ~DisarmClicked(c)
    BY <1>8, ArmingPath DEF after
  <2>2. ~Arming!TakenBack
    BY <1>1, <1>8, <2>1, EdgesAreNew
  <2>3. QED
    BY <1>1, <1>2, <1>8, <2>2 DEF Arming!Fly, Arming!Next
<1>9. QED
  BY <1>3, <1>4, <1>5, <1>6, <1>7, <1>8

\* A transmission sends the command of the phase or loses it.
LEMMA TransmitRefines ==
    ASSUME IInv, NEW reaches \in BOOLEAN,
           TransmitSent(reaches) \/ TransmitFailed(reaches)
    PROVE  Arming!Next
<1>1. /\ pc = "transmit" /\ FcReceives(reaches)
      /\ controls' = controls /\ aux' = aux
      /\ mode' = mode \/ mode' = "RADIO_ERROR"
  BY DEF TransmitSent, TransmitFailed, ReportFailure, FailureState,
         failsafe_report_radio_error
<1>2. packet.kind = "data" =>
          [ch5 |-> packet.ch5, on |-> packet.on] = Arming!Command
  <2>1. packet.ch5 \in BOOLEAN
    BY DEF IInv, TypeOK, Packet
  <2>2. mode \notin {"ACTIVE", "PREARM_MODE"} => ~packet.ch5 /\ packet.on = {}
    BY <1>1 DEF IInv, MotorCommandsAreFresh
  <2>3. /\ mode = "PREARM_MODE" => ~packet.ch5 /\ packet.on = aux.on
        /\ mode = "ACTIVE" => packet.ch5 /\ packet.on = aux.on
    BY <1>1 DEF IInv, PacketWhilePrearming
  <2>4. QED
    BY <2>1, <2>2, <2>3 DEF Arming!Command
<1>3. fcConfig' \in {fcConfig, Arming!Command}
  BY <1>1, <1>2 DEF FcReceives
<1>4. QED
  BY <1>1, <1>3 DEF Arming!Send, Arming!Next

\* No controller is a pilot who presses nothing.
LEMMA NobodyPresses ==
    [start |-> "Start" \in NoController.pressed,
     stop |-> "B" \in NoController.pressed,
     idle |-> NoController.throttleRaw <= ARM_THROTTLE_MAX] = Arming!Off
<1>1. ("Start" \in NoController.pressed) = FALSE
  BY DEF NoController
<1>2. ("B" \in NoController.pressed) = FALSE
  BY DEF NoController
<1>3. (NoController.throttleRaw <= ARM_THROTTLE_MAX) = TRUE
  BY ControlTaskAssumption DEF RawThrottle, NoController
<1>4. QED
  BY <1>1, <1>2, <1>3, Zenon DEF Arming!Off

\* A power cycle restarts the protocol.
LEMMA PowerCycleRefines ==
    ASSUME IInv, PowerCycle
    PROVE  Arming!Next
<1>1. mode' \in {"WAIT_GAMEPAD", "RADIO_ERROR"} /\ aux' \in AuxState
  BY BootType DEF PowerCycle, IInv, TypeOK
<1>2. controls' = NoController /\ fcConfig' = fcConfig
  BY DEF PowerCycle
<1>3. Arming!Restart
  BY <1>1, <1>2, NobodyPresses DEF Arming!Restart, AuxState
<1>4. QED
  BY <1>3 DEF Arming!Next

\* The control task implements the arming protocol: every step of the task is
\* a step of the protocol or leaves what the protocol talks about alone.
THEOREM ArmingRefinement == Spec => ArmingIsImplemented
<1>1. Init => Arming!Init
  <2> SUFFICES ASSUME Init PROVE Arming!Init
    OBVIOUS
  <2>1. mode \in {"WAIT_GAMEPAD", "RADIO_ERROR"} /\ aux \in AuxState
    BY BootType, ControlTaskAssumption DEF Init
  <2>2. QED
    BY <2>1, NobodyPresses DEF Init, Arming!Init, AuxState
<1>2. ASSUME IInv, [Next]_vars
      PROVE  Arming!Next \/ UNCHANGED Arming!vars
  <2>1. CASE GamepadAbsent
    BY <1>2, <2>1, ControlStepRefines, SnapshotType, BootConstants
    DEF GamepadAbsent
  <2>2. CASE GamepadSilent
    BY <1>2, <2>2, ControlStepRefines DEF GamepadSilent, IInv, TypeOK
  <2>3. CASE GamepadReport
    BY <1>2, <2>3, ControlStepRefines, SnapshotType, BootConstants
    DEF GamepadReport
  <2>4. CASE \E reaches \in BOOLEAN : TransmitSent(reaches)
    BY <1>2, <2>4, TransmitRefines
  <2>5. CASE \E reaches \in BOOLEAN : TransmitFailed(reaches)
    BY <1>2, <2>5, TransmitRefines
  <2>6. CASE \E p \in Replies : ReceivePacket(p)
    BY <2>6 DEF ReceivePacket, safety, input, profile, Arming!vars
  <2>7. CASE ReceiveDeadline
    BY <2>7 DEF ReceiveDeadline, safety, input, profile, link, Arming!vars
  <2>8. CASE \E d \in 1 .. MaxStall : Publish(d)
    BY <2>8 DEF Publish, Arming!vars
  <2>9. CASE PowerCycle
    BY <1>2, <2>9, PowerCycleRefines
  <2>10. CASE UNCHANGED vars
    BY <2>10 DEF vars, safety, input, profile, link, Arming!vars
  <2>11. QED
    BY <1>2, <2>1, <2>2, <2>3, <2>4, <2>5, <2>6, <2>7, <2>8, <2>9, <2>10
    DEF Next, TaskStep
<1>3. IInv /\ [Next]_vars => [Arming!Next]_(Arming!vars)
  BY <1>2
<1>4. QED
  BY <1>1, <1>3, Invariance, PTL
  DEF Spec, ArmingIsImplemented, Arming!Spec
-----------------------------------------------------------------------------
(* The profile: selections in flash, buttons and shortcuts held down.       *)

\* Bit k of a sum of distinct powers of two is the k-th digit.
LEMMA FiveBits ==
    ASSUME NEW a \in 0 .. 1, NEW b \in 0 .. 1, NEW c \in 0 .. 1,
           NEW d \in 0 .. 1, NEW e \in 0 .. 1, NEW n,
           n = a + 2 * b + 4 * c + 8 * d + 16 * e
    PROVE  /\ (n \div 1) % 2 = a
           /\ (n \div 2) % 2 = b
           /\ (n \div 4) % 2 = c
           /\ (n \div 8) % 2 = d
           /\ (n \div 16) % 2 = e
OBVIOUS

\* The stored byte is unpacked to the selections it was packed from.
LEMMA RestoreInvertsFlags ==
    ASSUME NEW on \in SUBSET AuxFlag
    PROVE  nfe_silverware_restore_aux(nfe_silverware_aux_flags(on)).on = on
<1> DEFINE digit(f) == IF f \in on THEN 1 ELSE 0
           n == nfe_silverware_aux_flags(on)
<1>1. n = digit("levelMode") + 2 * digit("raceMode")
          + 4 * digit("horizonMode") + 8 * digit("pidProfile")
          + 16 * digit("leds")
  BY DEF nfe_silverware_aux_flags, AuxBit
<1>2. \A f \in AuxFlag : digit(f) \in 0 .. 1
  OBVIOUS
<1>3. \A f \in AuxFlag : digit(f) = 1 <=> f \in on
  OBVIOUS
<1> HIDE DEF digit, n
<1>4. /\ (n \div 1) % 2 = digit("levelMode")
      /\ (n \div 2) % 2 = digit("raceMode")
      /\ (n \div 4) % 2 = digit("horizonMode")
      /\ (n \div 8) % 2 = digit("pidProfile")
      /\ (n \div 16) % 2 = digit("leds")
  <2> DEFINE a == digit("levelMode")
             b == digit("raceMode")
             c == digit("horizonMode")
             d == digit("pidProfile")
             e == digit("leds")
  <2>1. /\ a \in 0 .. 1 /\ b \in 0 .. 1 /\ c \in 0 .. 1
        /\ d \in 0 .. 1 /\ e \in 0 .. 1
    BY <1>2 DEF AuxFlag
  <2>2. n = a + 2 * b + 4 * c + 8 * d + 16 * e
    BY <1>1
  <2> HIDE DEF a, b, c, d, e
  <2>3. /\ (n \div 1) % 2 = a
        /\ (n \div 2) % 2 = b
        /\ (n \div 4) % 2 = c
        /\ (n \div 8) % 2 = d
        /\ (n \div 16) % 2 = e
    BY <2>1, <2>2, FiveBits
  <2>4. QED
    BY <2>3 DEF a, b, c, d, e
<1>5. \A f \in AuxFlag : (n \div AuxBit[f]) % 2 = digit(f)
  BY <1>4 DEF AuxFlag, AuxBit
<1>6. {f \in AuxFlag : (n \div AuxBit[f]) % 2 = 1} = on
  BY <1>3, <1>5
<1>7. QED
  BY <1>6 DEF nfe_silverware_restore_aux, n

\* A toggled selection whose button has stayed down is among the buttons the
\* AUX state remembers, also while it is not updated.
LatchedIsRemembered == latched \subseteq aux.previous

\* While LOCKED the player remembers the request of the last snapshot.
RequestIsRemembered ==
    mode = "LOCKED" =>
        player.previousRequest = gesture_request(controls.pressed)

\* What the profile keeps about the past, with the byte in flash.
ProfileInv ==
    /\ SelectionsSurvivePowerLoss
    /\ LatchedIsRemembered
    /\ RequestIsRemembered

\* Every step is a control step, a power cycle, or leaves the profile and the
\* snapshot alone, except that time passes for the player and that the radio
\* may be given up.
LEMMA ThreeKindsOfStep ==
    ASSUME IInv, [Next]_vars
    PROVE  \/ \E c \in Controls, g \in Age : ControlStep(c, g)
           \/ PowerCycle
           \/ /\ UNCHANGED <<aux, nvs, unsaved, latched, controls>>
              /\ mode' = mode \/ mode' = "RADIO_ERROR"
              /\ player'.command = player.command
              /\ player'.previousRequest = player.previousRequest
              /\ pc = "control" => pc' = "control"
<1>1. CASE GamepadAbsent
  BY <1>1, SnapshotType, BootConstants DEF GamepadAbsent
<1>2. CASE GamepadSilent
  BY <1>2 DEF GamepadSilent, IInv, TypeOK
<1>3. CASE GamepadReport
  BY <1>3, SnapshotType, BootConstants DEF GamepadReport
<1>4. ASSUME NEW d, Elapse(d)
      PROVE  /\ player'.command = player.command
             /\ player'.previousRequest = player.previousRequest
  BY <1>4 DEF Elapse, IInv, TypeOK, GesturePlayer
<1>5. CASE \E reaches \in BOOLEAN : TransmitSent(reaches)
  BY <1>4, <1>5 DEF TransmitSent
<1>6. CASE \E reaches \in BOOLEAN : TransmitFailed(reaches)
  BY <1>4, <1>6 DEF TransmitFailed, ReportFailure, FailureState,
                    failsafe_report_radio_error
<1>7. CASE \E p \in Replies : ReceivePacket(p)
  BY <1>7 DEF ReceivePacket, safety, input, profile
<1>8. CASE ReceiveDeadline
  BY <1>8 DEF ReceiveDeadline, safety, input, profile
<1>9. CASE \E d \in 1 .. MaxStall : Publish(d)
  BY <1>4, <1>9 DEF Publish
<1>10. CASE UNCHANGED vars
  BY <1>10 DEF vars, safety, input, profile
<1>11. QED
  BY <1>1, <1>2, <1>3, <1>5, <1>6, <1>7, <1>8, <1>9, <1>10
  DEF Next, TaskStep

\* With no button down there is no request.
LEMMA NobodyRequests == gesture_request(NoController.pressed) = "None"
BY DEF gesture_request, NoController

\* A booted task has what flash holds, and remembers nothing.
LEMMA BootProfile ==
    ASSUME NEW flags, NEW radioOk \in BOOLEAN, NEW readOk \in BOOLEAN,
           NEW m, NEW a, BootState(radioOk, readOk, flags, m, a)
    PROVE  readOk => nfe_silverware_restore_aux(flags).on = a.on
BY DEF BootState

\* The profile's invariant holds initially.
LEMMA InitProfile == Init => ProfileInv
<1> SUFFICES ASSUME Init PROVE ProfileInv
  OBVIOUS
<1>1. mode \in {"WAIT_GAMEPAD", "RADIO_ERROR"}
  BY BootType DEF Init
<1>2. SelectionsSurvivePowerLoss
  BY BootProfile DEF Init, SelectionsSurvivePowerLoss
<1>3. QED
  BY <1>1, <1>2 DEF Init, ProfileInv, LatchedIsRemembered,
                    RequestIsRemembered

\* What a control step does to the profile.
LEMMA ControlStepProfile ==
    ASSUME IInv, LatchedIsRemembered, NEW c \in Controls, NEW g \in Age,
           ControlStep(c, g)
    PROVE  LET toggled == (aux'.on \ aux.on) \cup (aux.on \ aux'.on)
           IN  /\ aux'.on \in SUBSET AuxFlag
               /\ SaveAux(aux'.on)
               /\ controls' = c
               /\ latched' = (latched \cap AuxPressed(c.pressed)) \cup toggled
               /\ latched' \subseteq aux'.previous
               /\ toggled \cap latched = {}
<1> DEFINE flying == AfterPrearm(c, g) = "ACTIVE"
<1>1. /\ aux' = nfe_silverware_update_aux(aux, flying, c.pressed)
      /\ SaveAux(aux'.on)
      /\ controls' = c
      /\ latched' = (latched \cap AuxPressed(c.pressed))
                    \cup (aux'.on \ aux.on) \cup (aux.on \ aux'.on)
  BY DEF ControlStep
<1>2. aux \in AuxState /\ aux' \in AuxState
  BY <1>1, AuxType DEF IInv, TypeOK
<1> HIDE DEF flying
<1>3. CASE flying
  <2> DEFINE down == AuxPressed(c.pressed)
             rising == down \ aux.previous
  <2>1. /\ aux'.on = (aux.on \ rising) \cup (rising \ aux.on)
        /\ aux'.previous = down
    BY <1>1, <1>3 DEF nfe_silverware_update_aux, ToggleOnRisingEdge
  <2>2. (aux'.on \ aux.on) \cup (aux.on \ aux'.on) = rising
    BY <2>1
  <2>3. QED
    BY <1>1, <1>2, <2>1, <2>2 DEF LatchedIsRemembered, AuxState
<1>4. CASE ~flying
  <2>1. aux' = aux
    BY <1>1, <1>4 DEF nfe_silverware_update_aux
  <2>2. QED
    BY <1>1, <1>2, <2>1 DEF LatchedIsRemembered, AuxState
<1>5. QED
  BY <1>3, <1>4

\* What a control step leaves in the gesture player.
LEMMA ControlStepPlayer ==
    ASSUME IInv, NEW c \in Controls, NEW g \in Age, ControlStep(c, g),
           mode' = "LOCKED"
    PROVE  /\ player'.previousRequest = gesture_request(c.pressed)
           /\ player.command = "None" /\ player'.command # "None" =>
                  player.previousRequest = "None"
<1>1. player' = nfe_silverware_update_gesture(player,
                                              gesture_request(c.pressed))
  BY DEF ControlStep
<1>2. QED
  BY <1>1 DEF nfe_silverware_update_gesture, GestureStarts, IInv, TypeOK,
              GesturePlayer

\* The profile's invariant is kept by every step.
LEMMA NextProfile ==
    ASSUME IInv, ProfileInv, [Next]_vars
    PROVE  ProfileInv'
<1>1. ASSUME NEW c \in Controls, NEW g \in Age, ControlStep(c, g)
      PROVE  ProfileInv'
  <2>1. /\ aux'.on \in SUBSET AuxFlag /\ SaveAux(aux'.on) /\ controls' = c
        /\ latched' \subseteq aux'.previous
    BY <1>1, ControlStepProfile DEF ProfileInv
  <2>2. SelectionsSurvivePowerLoss'
    <3>1. CASE aux'.on = aux.on
      BY <2>1, <3>1
      DEF SaveAux, ProfileInv, SelectionsSurvivePowerLoss
    <3>2. CASE aux'.on # aux.on
      BY <2>1, <3>2, RestoreInvertsFlags
      DEF SaveAux, SelectionsSurvivePowerLoss
    <3>3. QED
      BY <3>1, <3>2
  <2>3. RequestIsRemembered'
    BY <1>1, <2>1, ControlStepPlayer DEF RequestIsRemembered
  <2>4. QED
    BY <2>1, <2>2, <2>3 DEF ProfileInv, LatchedIsRemembered
<1>2. CASE PowerCycle
  <2>1. mode' \in {"WAIT_GAMEPAD", "RADIO_ERROR"}
    BY <1>2, BootType DEF PowerCycle
  <2>2. SelectionsSurvivePowerLoss'
    BY <1>2, BootProfile DEF PowerCycle, SelectionsSurvivePowerLoss
  <2>3. QED
    BY <1>2, <2>1, <2>2 DEF PowerCycle, ProfileInv, LatchedIsRemembered,
                            RequestIsRemembered
<1>3. CASE /\ UNCHANGED <<aux, nvs, unsaved, latched, controls>>
           /\ mode' = mode \/ mode' = "RADIO_ERROR"
           /\ player'.previousRequest = player.previousRequest
  BY <1>3 DEF ProfileInv, SelectionsSurvivePowerLoss, LatchedIsRemembered,
              RequestIsRemembered
<1>4. QED
  BY <1>1, <1>2, <1>3, ThreeKindsOfStep

\* The profile's invariant holds in every reachable state.
LEMMA ProfileInvariance == Spec => []ProfileInv
<1>1. IInv /\ ProfileInv /\ [Next]_vars => ProfileInv'
  BY NextProfile
<1>2. QED
  BY <1>1, InitProfile, Invariance, PTL DEF Spec

\* Unless a flash access failed, a power cycle at any point of the iteration
\* restores the selections in use: packing and unpacking are inverse, and the
\* byte is written in the step that changes the selections.
THEOREM SelectionsSurvive == Spec => []SelectionsSurvivePowerLoss
<1>1. ProfileInv => SelectionsSurvivePowerLoss
  BY DEF ProfileInv
<1>2. QED
  BY <1>1, ProfileInvariance, PTL

\* A button held through a disarm and a new arming does not toggle its
\* selection a second time, because nfe_silverware_update_aux keeps the
\* remembered buttons while the task is not ACTIVE.
THEOREM HeldButtonIsOneToggle == Spec => HeldButtonTogglesOnce
<1>1. ASSUME IInv, ProfileInv, [Next]_vars, pc = "control", pc' = "transmit"
      PROVE  latched \cap AuxPressed(controls'.pressed) \cap aux'.on
                 = latched \cap AuxPressed(controls'.pressed) \cap aux.on
  <2>1. PICK c \in Controls, g \in Age : ControlStep(c, g)
    BY <1>1, ThreeKindsOfStep DEF PowerCycle
  <2>2. ((aux'.on \ aux.on) \cup (aux.on \ aux'.on)) \cap latched = {}
    BY <1>1, <2>1, ControlStepProfile DEF ProfileInv
  <2>3. QED
    BY <2>2
<1>2. IInv /\ ProfileInv /\ [Next]_vars =>
          [pc = "control" /\ pc' = "transmit" =>
               latched \cap AuxPressed(controls'.pressed) \cap aux'.on
                   = latched \cap AuxPressed(controls'.pressed)
                         \cap aux.on]_vars
  BY <1>1
<1>3. QED
  BY <1>2, Invariance, ProfileInvariance, PTL
  DEF Spec, HeldButtonTogglesOnce

\* A shortcut held down while the task stays LOCKED plays its gesture once,
\* because the player's memory of the request is the request of the snapshot.
THEOREM HeldShortcutIsOneGesture == Spec => HeldShortcutPlaysOnce
<1>1. ASSUME IInv, ProfileInv, [Next]_vars,
             mode = "LOCKED", mode' = "LOCKED",
             player.command = "None", player'.command # "None"
      PROVE  gesture_request(controls.pressed) = "None"
  <2>1. PICK c \in Controls, g \in Age : ControlStep(c, g)
    <3>1. ~PowerCycle
      BY <1>1 DEF PowerCycle, nfe_silverware_cancel_gesture
    <3>2. QED
      BY <1>1, <3>1, ThreeKindsOfStep
  <2>2. player.previousRequest = "None"
    BY <1>1, <2>1, ControlStepPlayer
  <2>3. QED
    BY <1>1, <2>2 DEF ProfileInv, RequestIsRemembered
<1>2. IInv /\ ProfileInv /\ [Next]_vars =>
          [/\ mode = "LOCKED" /\ mode' = "LOCKED"
           /\ player.command = "None" /\ player'.command # "None"
           => gesture_request(controls.pressed) = "None"]_vars
  BY <1>1
<1>3. QED
  BY <1>2, Invariance, ProfileInvariance, PTL
  DEF Spec, HeldShortcutPlaysOnce

-----------------------------------------------------------------------------
(* What the pilot hears: the feedback task shows the state that the control *)
(* task announced last.                                                     *)

\* What the feedback task is told of, from state s.
LEMMA SuccessorFacts ==
    ASSUME NEW s
    PROVE  /\ \A lost, idle, unlock, bind, disarm \in BOOLEAN :
              \A age \in {0, BIND_DURATION + 1} :
                  failsafe_update_at(s, lost, idle, unlock, bind, disarm, age)
                      \in {s} \cup Successors(s)
           /\ failsafe_complete_prearm(s) \in {s} \cup Successors(s)
           /\ failsafe_cancel_prearm(s) \in {s} \cup Successors(s)
           /\ "RADIO_ERROR" \in {s} \cup Successors(s)
<1>1. ASSUME NEW lost \in BOOLEAN, NEW idle \in BOOLEAN,
             NEW unlock \in BOOLEAN, NEW bind \in BOOLEAN,
             NEW disarm \in BOOLEAN, NEW age \in {0, BIND_DURATION + 1}
      PROVE  failsafe_update_at(s, lost, idle, unlock, bind, disarm, age)
                 \in {s} \cup Successors(s)
  <2> DEFINE f(l, i, u, b, d, a) ==
                 failsafe_update_at(s, l, i, u, b, d, a)
             x == f(lost, idle, unlock, bind, disarm, age)
  <2>1. x \in {f(l, i, u, b, d, a) : l, i, u, b, d \in BOOLEAN,
                                     a \in {0, BIND_DURATION + 1}}
    OBVIOUS
  <2>2. x # s => x \in Successors(s)
    BY <2>1, SMTT(60) DEF Successors
  <2> QED
    BY <2>2
<1>2. /\ failsafe_complete_prearm(s)
             \in {s} \cup Successors(s)
      /\ failsafe_cancel_prearm(s) \in {s} \cup Successors(s)
      /\ failsafe_report_radio_error
             \in {s} \cup Successors(s)
  BY DEF Successors
<1> QED
  BY <1>1, <1>2 DEF failsafe_report_radio_error

\* In one iteration the control task may update the state, confirm and cancel
\* pre-arming and give up the radio, and announces the net change: without a
\* power cycle it is always one of the changes that the feedback task is
\* modelled with.
THEOREM AnnouncementsAreSuccessors ==
    Spec => [][\/ PowerCycle \/ previousState' = previousState
               \/ previousState' \in Successors(previousState)]_vars
<1> DEFINE Told == \/ PowerCycle \/ previousState' = previousState
                   \/ previousState' \in Successors(previousState)
<1>1. ASSUME NEW c \in Controls, NEW g \in Age, IInv
      PROVE  AfterPrearm(c, g) \in {mode} \cup Successors(mode)
  <2> DEFINE lost == gamepad_timeout(c.connected, g)
             idle == c.throttleRaw <= ARM_THROTTLE_MAX
             unlock == "Start" \in Clicked(c)
             bind == "View" \in Clicked(c)
             disarm == DisarmClicked(c)
             age == IF bindAge > BIND_DURATION THEN BIND_DURATION + 1 ELSE 0
             u == Updated(c, g)
  <2>1. lost \in BOOLEAN /\ idle \in BOOLEAN /\ unlock \in BOOLEAN
        /\ bind \in BOOLEAN /\ disarm \in BOOLEAN
    BY DEF gamepad_timeout, DisarmClicked, Controls
  <2>2. age \in {0, BIND_DURATION + 1}
        /\ (age > BIND_DURATION <=> bindAge > BIND_DURATION)
    BY FailsafeAssumption
  <2>3. u = failsafe_update_at(mode, lost, idle, unlock, bind, disarm, bindAge)
    BY DEF Updated
  <2> HIDE DEF lost, idle, unlock, bind, disarm, age
  <2>4. u = failsafe_update_at(mode, lost, idle, unlock, bind, disarm, age)
    BY <2>2, <2>3 DEF failsafe_update_at, WithGamepad
  <2> HIDE DEF u
  <2>5. u \in {mode} \cup Successors(mode)
    BY <2>1, <2>2, <2>4, SuccessorFacts
  <2>6. mode # "PREARM_MODE" => AfterPrearm(c, g) = u
    <3>1. SUFFICES ASSUME mode # "PREARM_MODE", u = "PREARM_MODE"
                   PROVE  AfterPrearm(c, g) = u
      BY DEF AfterPrearm, u
    <3>2. PrearmAge(c, g) = 0
      BY <3>1 DEF PrearmAge, u
    <3>3. ~prearm_configuration_confirmed(tel, aux.on, 0)
      <4>1. tel.lastValid \in Nat
        BY <1>1 DEF IInv, TypeOK, TelemetryData, Age
      <4> QED
        BY <4>1 DEF prearm_configuration_confirmed
    <3>4. ~(0 >= PREARM_MODE_TIMEOUT)
      BY FailsafeAssumption
    <3> QED
      BY <3>2, <3>3, <3>4 DEF AfterPrearm, u
  <2>7. mode = "PREARM_MODE" =>
            AfterPrearm(c, g) \in {u, mode, failsafe_complete_prearm(mode),
                                   failsafe_cancel_prearm(mode)}
    BY DEF AfterPrearm, u
  <2>8. {failsafe_complete_prearm(mode), failsafe_cancel_prearm(mode)}
            \subseteq {mode} \cup Successors(mode)
    BY SuccessorFacts
  <2> QED
    BY <2>5, <2>6, <2>7, <2>8
<1>2. ASSUME IInv, IInv', [Next]_vars PROVE Told
  <2>1. previousState = mode /\ previousState' = mode'
    BY <1>2 DEF IInv, AnnouncedState
  <2>2. CASE \E c \in Controls, g \in Age : ControlStep(c, g)
    BY <1>1, <1>2, <2>1, <2>2 DEF ControlStep
  <2>3. CASE mode' = mode \/ mode' = "RADIO_ERROR"
    BY <2>1, <2>3, SuccessorFacts
  <2> QED
    BY <1>2, <2>2, <2>3, ThreeKindsOfStep
<1>3. IInv /\ IInv' /\ [Next]_vars => [Told]_vars
  BY <1>2
<1> QED
  BY <1>3, Invariance, PTL DEF Spec

Alarms == {"GAMEPAD_FAILSAFE", "RADIO_ERROR"}

Transition == (SystemState \cup {"BOOT"}) \X SystemState

\* The type of the feedback task's time depends on the state that it shows.
TimeInCycle == elapsed \in 0 .. 2 * Cycle(active[2]) - 1

\* Every variable of the feedback task stays in its type.
THEOREM FeedbackTypeCorrect == FeedbackSpec => []FeedbackTypeOK
<1> USE DEF FeedbackTypeOK
<1>1. \A s : Cycle(s) \in {100, 120}
  BY DEF Cycle
<1>2. FeedbackInit => FeedbackTypeOK /\ TimeInCycle
  BY <1>1 DEF FeedbackInit, failsafe_init, SystemState, TimeInCycle
<1>3. ASSUME FeedbackTypeOK, TimeInCycle, [FeedbackNext]_feedbackVars
      PROVE  FeedbackTypeOK' /\ TimeInCycle'
  <2>1. CASE Update
    <3>1. active' = requested /\ requested' = requested /\ state' = state
          /\ ready' = ready
      BY <2>1 DEF Update, Received
    <3>2. led' \in BOOLEAN
      <4>1. active'[2] \in SystemState
        BY <1>3, <3>1
      <4>2. \A s \in SystemState : LedOn(s, elapsed') \in BOOLEAN
        <5>1. \A t, n, m : /\ pulse(t, n, m) \in BOOLEAN
                           /\ in_window(t, n, m) \in BOOLEAN
          BY DEF pulse, in_window
        <5>2. \A t : LET phase == t % 100
                     IN  (in_window(phase, 0, 10) \/ in_window(phase, 20, 30))
                             \in BOOLEAN
          BY <5>1
        <5> QED
          BY <5>1, <5>2, Zenon DEF LedOn, SystemState
      <4> QED
        BY <2>1, <4>1, <4>2 DEF Update
    <3>3. buzzer' \in BOOLEAN
      BY <2>1 DEF Update, BuzzerOn
    <3>4. TimeInCycle'
      <4>1. CASE requested # active
        BY <1>1, <2>1, <4>1 DEF Update, Received, Restarted, TimeInCycle
      <4>2. CASE requested = active
        <5>1. elapsed' = IF elapsed + 1 = 2 * Cycle(active[2])
                         THEN Cycle(active[2]) ELSE elapsed + 1
          BY <2>1, <4>2 DEF Update, Received, Later
        <5>2. active' = active
          BY <3>1, <4>2
        <5> QED
          BY <1>1, <1>3, <5>1, <5>2 DEF TimeInCycle
      <4> QED
        BY <4>1, <4>2
    <3>5. elapsed' \in 0 .. 239
      BY <1>1, <3>4 DEF TimeInCycle
    <3>6. chirps' \in 0 .. 4
      <4>1. PICK before \in {0, chirps} :
                chirps' \in {before} \cup (IF before < 4 THEN {before + 1}
                                          ELSE {})
        BY <2>1 DEF Update
      <4> QED
        BY <1>3, <4>1
    <3> QED
      BY <1>3, <3>1, <3>2, <3>3, <3>4, <3>5, <3>6
  <2>2. ASSUME NEW s \in SystemState, Announce(s)
        PROVE  FeedbackTypeOK' /\ TimeInCycle'
    BY <1>3, <2>2 DEF Announce, pack_transition, TimeInCycle
  <2>3. CASE UNCHANGED feedbackVars
    BY <1>3, <2>3 DEF feedbackVars, TimeInCycle
  <2> QED
    BY <1>3, <2>1, <2>2, <2>3 DEF FeedbackNext
<1> HIDE DEF FeedbackTypeOK
<1>4. FeedbackTypeOK /\ TimeInCycle /\ [FeedbackNext]_feedbackVars
          => FeedbackTypeOK' /\ TimeInCycle'
  BY <1>3
<1>5. FeedbackSpec => FeedbackInit /\ [][FeedbackNext]_feedbackVars
  BY PTL DEF FeedbackSpec
<1> QED
  BY <1>2, <1>4, <1>5, PTL

\* The tones that have begun t periods after a transition, unless it is to one
\* of the two alarms.
TonesBegun(transition, t) ==
    IF transition[2] = "BINDING" \/ transition = <<"ACTIVE", "LOCKED">>
    THEN IF t >= 14 THEN 2 ELSE 1
    ELSE IF transition = <<"BINDING", "LOCKED">>
    THEN IF t >= 24 THEN 3 ELSE IF t >= 12 THEN 2 ELSE 1
    ELSE 1

\* While a cue lasts, the buzzer sounds in its windows and has sounded in
\* those before.
CueFollowed ==
    /\ requested \in Transition /\ active \in Transition
    /\ ready => /\ elapsed \in 0 .. 2 * Cycle(active[2]) - 1
                /\ active[2] \notin Alarms =>
                       /\ buzzer = BuzzerOn(active[1], active[2],
                                                     elapsed)
                       /\ chirps = TonesBegun(active, elapsed)

\* The windows of the tones that are not alarms, written out.
LEMMA Tones ==
    ASSUME NEW p, NEW s \in SystemState \ Alarms, NEW t \in Nat
    PROVE  LET on == BuzzerOn(p, s, t)
           IN  /\ s \in {"WAIT_GAMEPAD", "PREARM_MODE"} => (on <=> t < 8)
               /\ s = "BINDING" => (on <=> t < 7 \/ (t >= 14 /\ t < 21))
               /\ s = "ACTIVE" => (on <=> t < 20)
               /\ s = "LOCKED" /\ p = "BINDING" =>
                      (on <=> \/ t < 6
                              \/ (t >= 12 /\ t < 18)
                              \/ (t >= 24 /\ t < 30))
               /\ s = "LOCKED" /\ p = "ACTIVE" =>
                      (on <=> t < 7 \/ (t >= 14 /\ t < 21))
               /\ s = "LOCKED" /\ p \notin {"BINDING", "ACTIVE"} =>
                      (on <=> t < 12)
<1> DEFINE on == BuzzerOn(p, s, t)
<1>1. CueTime(s, t) = t
  BY DEF CueTime, Alarms
<1>2. on <=> \E w \in ToneWindows(p, s) : t >= w[1] /\ t < w[2]
  BY <1>1 DEF BuzzerOn, in_window
<1> HIDE DEF on
<1>3. CASE s \in {"WAIT_GAMEPAD", "PREARM_MODE"}
  <2>1. ToneWindows(p, s) = {<<0, 8>>}
    BY <1>3 DEF ToneWindows
  <2>2. on <=> t < 8
    BY <1>2, <2>1
  <2> QED
    BY <1>3, <2>2 DEF on
<1>4. CASE s = "BINDING"
  <2>1. ToneWindows(p, s) = {<<0, 7>>, <<14, 21>>}
    BY <1>4 DEF ToneWindows
  <2>2. on <=> t < 7 \/ (t >= 14 /\ t < 21)
    BY <1>2, <2>1
  <2> QED
    BY <1>4, <2>2 DEF on
<1>5. CASE s = "ACTIVE"
  <2>1. ToneWindows(p, s) = {<<0, 20>>}
    BY <1>5 DEF ToneWindows
  <2>2. on <=> t < 20
    BY <1>2, <2>1
  <2> QED
    BY <1>5, <2>2 DEF on
<1>6. CASE s = "LOCKED" /\ p = "BINDING"
  <2>1. ToneWindows(p, s) = {<<0, 6>>, <<12, 18>>, <<24, 30>>}
    BY <1>6 DEF ToneWindows
  <2>2. on <=> t < 6 \/ (t >= 12 /\ t < 18) \/ (t >= 24 /\ t < 30)
    BY <1>2, <2>1
  <2> QED
    BY <1>6, <2>2 DEF on
<1>7. CASE s = "LOCKED" /\ p = "ACTIVE"
  <2>1. ToneWindows(p, s) = {<<0, 7>>, <<14, 21>>}
    BY <1>7 DEF ToneWindows
  <2>2. on <=> t < 7 \/ (t >= 14 /\ t < 21)
    BY <1>2, <2>1
  <2> QED
    BY <1>7, <2>2 DEF on
<1>8. CASE s = "LOCKED" /\ p \notin {"ACTIVE", "BINDING"}
  <2>1. ToneWindows(p, s) = {<<0, 12>>}
    BY <1>8 DEF ToneWindows
  <2>2. on <=> t < 12
    BY <1>2, <2>1
  <2> QED
    BY <1>8, <2>2 DEF on
<1> QED
  BY <1>3, <1>4, <1>5, <1>6, <1>7, <1>8 DEF SystemState, Alarms, on

\* An iteration of the feedback task follows the cue.
LEMMA UpdateFollowsCue ==
    ASSUME CueFollowed, Update
    PROVE  CueFollowed'
<1> DEFINE p == active'[1]
           s == active'[2]
           e == elapsed'
<1>1. /\ ready /\ ready' = ready /\ requested' = requested
      /\ active' = requested
      /\ buzzer' = BuzzerOn(p, s, e)
      /\ e = IF requested # active THEN 0 ELSE Later(elapsed)
      /\ chirps' = LET before == IF requested # active THEN 0 ELSE chirps
                       silent == requested # active \/ ~buzzer
                   IN  IF buzzer' /\ silent /\ before < 4 THEN before + 1
                       ELSE before
  BY DEF Update, Received, Restarted
<1>2. /\ active' \in Transition /\ requested' \in Transition
      /\ s \in SystemState /\ active' = <<p, s>>
  BY <1>1 DEF CueFollowed, Transition
<1>3. \A x \in SystemState : Cycle(x) \in {100, 120}
      /\ (x \notin Alarms => Cycle(x) = 100)
  BY DEF Cycle, Alarms
<1>4. e \in 0 .. 2 * Cycle(s) - 1
  <2>1. CASE requested # active
    BY <1>1, <1>2, <1>3, <2>1
  <2>2. CASE requested = active
    <3>1. elapsed \in 0 .. 2 * Cycle(s) - 1
      BY <1>1, <2>2 DEF CueFollowed
    <3>2. e = IF elapsed + 1 = 2 * Cycle(s) THEN Cycle(s)
              ELSE elapsed + 1
      BY <1>1, <2>2 DEF Later
    <3> QED
      BY <1>2, <1>3, <3>1, <3>2
  <2> QED
    BY <2>1, <2>2
<1>5. ASSUME s \notin Alarms PROVE chirps' = TonesBegun(active', e)
  <2>1. e \in Nat /\ s \in SystemState \ Alarms /\ Cycle(s) = 100
    BY <1>2, <1>3, <1>4, <1>5
  <2>2. CASE requested # active
    <3>1. BuzzerOn(p, s, 0)
      BY <2>1, Tones DEF SystemState, Alarms
    <3> QED
      BY <1>1, <2>2, <3>1 DEF TonesBegun
  <2>3. CASE requested = active
    <3>1. /\ elapsed \in 0 .. 199 /\ active = <<p, s>>
          /\ buzzer = BuzzerOn(p, s, elapsed)
          /\ chirps = TonesBegun(<<p, s>>, elapsed)
      BY <1>1, <1>2, <1>5, <2>1, <2>3 DEF CueFollowed
    <3>2. e = IF elapsed + 1 = 200 THEN 100 ELSE elapsed + 1
      BY <1>1, <2>1, <2>3 DEF Later
    <3>3. chirps' = IF /\ BuzzerOn(p, s, e)
                       /\ ~BuzzerOn(p, s, elapsed)
                       /\ chirps < 4
                    THEN chirps + 1 ELSE chirps
      BY <1>1, <2>3, <3>1
    <3> HIDE DEF p, s, e
    <3>4. CASE s \in {"WAIT_GAMEPAD", "PREARM_MODE"}
      BY <1>2, <2>1, <3>1, <3>2, <3>3, <3>4, Tones DEF TonesBegun
    <3>5. CASE s = "BINDING"
      BY <1>2, <2>1, <3>1, <3>2, <3>3, <3>5, Tones DEF TonesBegun
    <3>6. CASE s = "ACTIVE"
      BY <1>2, <2>1, <3>1, <3>2, <3>3, <3>6, Tones DEF TonesBegun
    <3>7. CASE s = "LOCKED" /\ p = "BINDING"
      BY <1>2, <2>1, <3>1, <3>2, <3>3, <3>7, Tones DEF TonesBegun
    <3>8. CASE s = "LOCKED" /\ p = "ACTIVE"
      BY <1>2, <2>1, <3>1, <3>2, <3>3, <3>8, Tones DEF TonesBegun
    <3>9. CASE s = "LOCKED" /\ p \notin {"ACTIVE", "BINDING"}
      BY <1>2, <2>1, <3>1, <3>2, <3>3, <3>9, Tones DEF TonesBegun
    <3> QED
      BY <2>1, <3>4, <3>5, <3>6, <3>7, <3>8, <3>9 DEF SystemState, Alarms
  <2> QED
    BY <2>2, <2>3
<1> QED
  BY <1>1, <1>2, <1>4, <1>5 DEF CueFollowed

\* Whatever changes of state follow each other, and however fast: when a state
\* has lasted as long as its cue, the pilot has heard the documented tones of
\* the last transition, and no more.
THEOREM PilotHearsCue == FeedbackSpec => []CueIsComplete
<1>1. FeedbackInit => CueFollowed
  <2> SUFFICES ASSUME FeedbackInit PROVE CueFollowed
    OBVIOUS
  <2>1. /\ requested = <<"BOOT", "WAIT_GAMEPAD">> /\ active = requested
        /\ elapsed = 0 /\ (ready => buzzer = TRUE /\ chirps = 1)
    BY DEF FeedbackInit, failsafe_init
  <2>2. requested \in Transition /\ "WAIT_GAMEPAD" \in SystemState \ Alarms
    BY <2>1 DEF Transition, SystemState, Alarms
  <2>3. BuzzerOn("BOOT", "WAIT_GAMEPAD", 0)
    BY <2>2, Tones
  <2>4. active \in Transition /\ active[2] = "WAIT_GAMEPAD"
        /\ active[1] = "BOOT"
    BY <2>1, <2>2
  <2>5. Cycle(active[2]) = 100 /\ TonesBegun(active, 0) = 1
    BY <2>1, <2>4 DEF TonesBegun, Cycle
  <2>6. ready => /\ elapsed \in 0 .. 2 * Cycle(active[2]) - 1
                 /\ buzzer = BuzzerOn(active[1], active[2], elapsed)
                 /\ chirps = TonesBegun(active, elapsed)
    <3>1. SUFFICES ASSUME ready
                   PROVE  /\ elapsed = 0 /\ chirps = 1 /\ buzzer = TRUE
                          /\ elapsed \in 0 .. 2 * 100 - 1
      BY <2>1, <2>3, <2>4, <2>5
    <3> QED
      BY <2>1, <3>1
  <2> QED
    BY <2>1, <2>2, <2>4, <2>6 DEF CueFollowed
<1> DEFINE Known == state \in SystemState
<1>2. ASSUME CueFollowed, Known, [FeedbackNext]_feedbackVars
      PROVE  CueFollowed' /\ Known'
  <2>1. CASE Update
    BY <1>2, <2>1, UpdateFollowsCue DEF Update
  <2>2. ASSUME NEW s \in SystemState, Announce(s)
        PROVE  CueFollowed' /\ Known'
    <3>1. /\ state' = s /\ requested' = <<state, s>>
          /\ UNCHANGED <<ready, active, elapsed, buzzer, chirps>>
      BY <2>2 DEF Announce, pack_transition
    <3> QED
      BY <1>2, <3>1 DEF CueFollowed, Transition
  <2>3. CASE UNCHANGED feedbackVars
    BY <1>2, <2>3 DEF feedbackVars, CueFollowed
  <2> QED
    BY <1>2, <2>1, <2>2, <2>3 DEF FeedbackNext
<1>3. FeedbackInit => Known
  BY DEF FeedbackInit, failsafe_init, SystemState
<1>4. CueFollowed => CueIsComplete
  <2> SUFFICES ASSUME CueFollowed, ready, elapsed >= 30,
                      active[2] \notin Alarms
               PROVE  chirps = DocumentedChirps(active) /\ ~buzzer
    BY DEF CueIsComplete, Alarms
  <2>1. /\ active[2] \in SystemState \ Alarms /\ elapsed \in Nat
        /\ active = <<active[1], active[2]>>
    BY DEF CueFollowed, Transition, Cycle
  <2>2. ~BuzzerOn(active[1], active[2], elapsed)
    BY <2>1, Tones DEF SystemState, Alarms
  <2> QED
    BY <2>1, <2>2
    DEF CueFollowed, TonesBegun, DocumentedChirps
<1> HIDE DEF Known
<1>5. CueFollowed /\ Known /\ [FeedbackNext]_feedbackVars
          => CueFollowed' /\ Known'
  BY <1>2
<1>6. FeedbackSpec => FeedbackInit /\ [][FeedbackNext]_feedbackVars
  BY PTL DEF FeedbackSpec
<1> QED
  BY <1>1, <1>3, <1>4, <1>5, <1>6, PTL
=============================================================================
