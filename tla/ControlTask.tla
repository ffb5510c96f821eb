---------------------------- MODULE ControlTask -----------------------------
(***************************************************************************)
(* The control and RF task of the transmitter, control_radio_task in       *)
(* main/app_main.cpp: one iteration reads the gamepad snapshot, runs the   *)
(* safety state machine, builds one Bayang packet, transmits it, listens   *)
(* for one telemetry packet and publishes its status.                      *)
(*                                                                         *)
(* The iteration is split where the rest of the world can act in between:  *)
(*                                                                         *)
(*     control --> transmit --> receive --> publish --> control ...        *)
(*                                                                         *)
(* Time is measured from stamp to stamp: every stamp of the code is an age *)
(* that grows in Transmit and Publish.  MaxStall bounds how late the next  *)
(* iteration may start (a flash write or a catch-up of vTaskDelayUntil).   *)
(***************************************************************************)
EXTENDS Failsafe, PrearmGuard

CONSTANTS
    Reports,               \* the gamepad reports that may arrive
    Replies,               \* the telemetry packets that may be received
    StoredFlags,           \* the AUX bytes flash may hold at first boot
    ARM_THROTTLE_MAX,      \* largest raw throttle that counts as idle
    THROTTLE_MAX_PERCENT,
    RADIO_FAILURE_LIMIT,
    BAYANG_RF_CHANNELS,
    MaxStall               \* bound: longest time between two iterations

RawThrottle == 0 .. 1023
Report == [pressed: SUBSET Button, throttleRaw: RawThrottle]
Controls == [connected: BOOLEAN, pressed: SUBSET Button,
             throttleRaw: RawThrottle]

ASSUME ControlTaskAssumption ==
    /\ Reports \subseteq Report
    /\ Replies \subseteq Reply
    /\ StoredFlags \subseteq 0 .. 31
    /\ ARM_THROTTLE_MAX \in RawThrottle
    /\ THROTTLE_MAX_PERCENT \in 0 .. 100
    /\ RADIO_FAILURE_LIMIT \in Nat \ {0}
    /\ BAYANG_RF_CHANNELS \in Nat \ {0}
    /\ MaxStall \in Nat \ {0}
    /\ AgeCap > GAMEPAD_TIMEOUT
    /\ AgeCap > BIND_DURATION
    /\ AgeCap > PREARM_MODE_TIMEOUT + MaxStall + 1

VARIABLES
    pc,              \* the next step of the iteration
    mode,            \* current_state of failsafe.cpp
    previousState,   \* previous_state: the state last announced
    bindAge,         \* now - bind_start
    prearmAge,       \* now - prearm_started_us
    controls,        \* the gamepad snapshot
    gamepadAge,      \* now - controls.lastUpdateUs
    held,            \* previous_buttons: Start, View, B at the last iteration
    aux,             \* aux_state
    player,          \* gesture_player
    tel,             \* current_telemetry
    channelIndex,    \* channel_index
    failures,        \* consecutive_tx_failures
    packet,          \* the packet of this iteration
    nvs,             \* the AUX byte in flash
    heard,           \* the FC received the packet of this iteration
    fcConfig,        \* external: CH5 and selections the FC received last
    unsaved,         \* history: the last change of the selections, or the
                     \*   load at boot, failed
    lastHop,         \* history: hop of the previous data packet, -1 after a
                     \*   bind packet or a boot
    latched          \* history: selections toggled by a button that every
                     \*   snapshot since has shown down

safety == <<mode, previousState, bindAge, prearmAge>>
input == <<controls, gamepadAge, held>>
profile == <<aux, player, nvs, unsaved, latched>>
radio == <<channelIndex, failures, packet, lastHop>>
link == <<tel, heard, fcConfig>>
vars == <<pc, safety, input, profile, radio, link>>

-----------------------------------------------------------------------------
(* Packets.                                                                 *)

Packet == [kind: {"none", "bind", "data"}, hop: 0 .. BAYANG_RF_CHANNELS - 1,
           ch5: BOOLEAN, throttle: RawThrottle, stick: Stick,
           on: SUBSET AuxFlag]

NoPacket == [kind |-> "none", hop |-> 0, ch5 |-> FALSE, throttle |-> 0,
             stick |-> "centre", on |-> {}]

BindPacket == [NoPacket EXCEPT !.kind = "bind"]

neutral_control(hop) == [NoPacket EXCEPT !.kind = "data", !.hop = hop]

\* map_bayang_channel for throttle; exact in single precision for 0 .. 1023.
ThrottleChannel(raw) == (raw * THROTTLE_MAX_PERCENT) \div 100

\* All AUX channels stay off; the right stick plays a gesture or follows the
\* pilot while L3 is held.
locked_control(hop, c, pl) ==
    [neutral_control(hop) EXCEPT
        !.stick = IF pl.command # "None" THEN GestureOutput(pl)
                  ELSE IF c.connected /\ "L3" \in c.pressed THEN "pilot"
                  ELSE "centre"]

\* Wrong variant: the saved selections are not sent while pre-arming.
prearm_control_NoAux(hop, on) == neutral_control(hop)

prearm_control(hop, on) == [neutral_control(hop) EXCEPT !.on = on]

active_control(hop, c, on) ==
    [kind |-> "data", hop |-> hop, ch5 |-> TRUE,
     throttle |-> ThrottleChannel(c.throttleRaw), stick |-> "pilot",
     on |-> on]

BuildPacket(state, hop, c, on, pl) ==
    CASE state = "RADIO_ERROR" -> NoPacket
      [] state = "BINDING" -> BindPacket
      [] state = "ACTIVE" -> active_control(hop, c, on)
      [] state = "PREARM_MODE" -> prearm_control(hop, on)
      [] state = "LOCKED" -> locked_control(hop, c, pl)
      [] OTHER -> neutral_control(hop)

-----------------------------------------------------------------------------
(* Boot: setup() and the lines of control_radio_task before its loop.       *)

NoController == [connected |-> FALSE, pressed |-> {}, throttleRaw |-> 0]

\* The task with the AUX byte "flags" in flash.  The radio initialises or
\* not; the byte is read or not (a failed read leaves every selection off).
BootState(radioOk, readOk, flags, m, a) ==
    /\ m = IF radioOk THEN failsafe_init ELSE failsafe_report_radio_error
    /\ a = nfe_silverware_restore_aux(IF readOk THEN flags ELSE 0)

Init ==
    /\ nvs \in StoredFlags
    /\ fcConfig = [ch5 |-> FALSE, on |-> {}]
    /\ pc = "control"
    /\ \E radioOk, readOk \in BOOLEAN :
           /\ BootState(radioOk, readOk, nvs, mode, aux)
           /\ unsaved = ~readOk
    /\ previousState = mode
    /\ bindAge = AgeCap /\ prearmAge = AgeCap
    /\ controls = NoController /\ gamepadAge = AgeCap /\ held = {}
    /\ player = nfe_silverware_cancel_gesture
    /\ tel = telemetry_init
    /\ channelIndex = 0 /\ failures = 0
    /\ packet = NoPacket /\ heard = FALSE
    /\ lastHop = -1 /\ latched = {}

\* Power is lost at any point and the transmitter boots again.  Flash and
\* the flight controller keep what they have.
PowerCycle ==
    /\ UNCHANGED <<nvs, fcConfig>>
    /\ pc' = "control"
    /\ \E radioOk, readOk \in BOOLEAN :
           /\ BootState(radioOk, readOk, nvs, mode', aux')
           /\ unsaved' = ~readOk
    /\ previousState' = mode'
    /\ bindAge' = AgeCap /\ prearmAge' = AgeCap
    /\ controls' = NoController /\ gamepadAge' = AgeCap /\ held' = {}
    /\ player' = nfe_silverware_cancel_gesture
    /\ tel' = telemetry_init
    /\ channelIndex' = 0 /\ failures' = 0
    /\ packet' = NoPacket /\ heard' = FALSE
    /\ lastHop' = -1 /\ latched' = {}

-----------------------------------------------------------------------------
(* The passage of time: every stamp is d units older.                       *)

Elapse(d) ==
    /\ bindAge' = Older(bindAge, d)
    /\ prearmAge' = Older(prearmAge, d)
    /\ gamepadAge' = Older(gamepadAge, d)
    /\ tel' = TelemetryOlder(tel, d)
    /\ player' = IF player.command = "None" THEN player
                 ELSE [player EXCEPT !.age =
                           IF @ + d > GESTURE_TOTAL THEN GESTURE_TOTAL
                           ELSE @ + d]

-----------------------------------------------------------------------------
(* The control step: snapshot, state machine, selections, gesture, packet.  *)

EdgeButton == {"Start", "View", "B"}

\* Wrong variant: a button that is down counts as clicked.
Clicked_Level(c) == c.pressed \cap EdgeButton

\* detect_button_edges: the buttons that went down since the last iteration.
Clicked(c) == (c.pressed \cap EdgeButton) \ held

\* Wrong variant: B disarms only what is already ACTIVE.
DisarmClicked_ActiveOnly(c) ==
    /\ mode = "ACTIVE"
    /\ "B" \in Clicked(c) \/ "Start" \in Clicked(c)

DisarmClicked(c) ==
    \/ "B" \in Clicked(c)
    \/ "Start" \in Clicked(c) /\ mode \in {"ACTIVE", "PREARM_MODE"}

\* The state after failsafe_update_at, for snapshot c of age g.
Updated(c, g) ==
    failsafe_update_at(mode, gamepad_timeout(c.connected, g),
                       c.throttleRaw <= ARM_THROTTLE_MAX,
                       "Start" \in Clicked(c), "View" \in Clicked(c),
                       DisarmClicked(c), bindAge)

\* bind_start is taken when BINDING is entered.
BindAge(c, g) ==
    IF mode = "LOCKED" /\ Updated(c, g) = "BINDING" THEN 0 ELSE bindAge

\* Wrong variant: the stamp is taken in every iteration spent pre-arming.
PrearmAge_Restart(c, g) ==
    IF Updated(c, g) = "PREARM_MODE" THEN 0 ELSE prearmAge

\* prearm_started_us is taken when PREARM_MODE is entered.
PrearmAge(c, g) ==
    IF mode # "PREARM_MODE" /\ Updated(c, g) = "PREARM_MODE" THEN 0
    ELSE prearmAge

\* The pre-arm decision: confirmed, timed out, or still waiting.
AfterPrearm(c, g) ==
    LET state == Updated(c, g)
    IN  IF state # "PREARM_MODE" THEN state
        ELSE IF prearm_configuration_confirmed(tel, aux.on, PrearmAge(c, g))
        THEN failsafe_complete_prearm(state)
        ELSE IF PrearmAge(c, g) >= PREARM_MODE_TIMEOUT
        THEN failsafe_cancel_prearm(state)
        ELSE state

\* save_aux_flags runs when the selections changed; a failed save may leave
\* the old byte or the new one, and is not retried.
SaveAux(on) ==
    IF on = aux.on THEN UNCHANGED <<nvs, unsaved>>
    ELSE \/ nvs' = nfe_silverware_aux_flags(on) /\ unsaved' = FALSE
         \/ nvs' \in {nvs, nfe_silverware_aux_flags(on)} /\ unsaved' = TRUE

\* Wrong variant: the walk goes on where it was before the bind.
HopIndex_NoReset(state) == channelIndex

\* channel_index for this iteration: back to 0 on leaving BINDING.
HopIndex(state) ==
    IF previousState = "BINDING" /\ state # "BINDING" THEN 0
    ELSE channelIndex

\* channel_index after it: only a data packet moves it on.
NextHop(state, hop) ==
    IF state \in {"BINDING", "RADIO_ERROR"} THEN hop
    ELSE (hop + 1) % BAYANG_RF_CHANNELS

ControlStep(c, g) ==
    LET state == AfterPrearm(c, g)
        hop == HopIndex(state)
        newAux == nfe_silverware_update_aux(aux, state = "ACTIVE", c.pressed)
        newPlayer == IF state = "LOCKED"
                     THEN nfe_silverware_update_gesture(player,
                                                gesture_request(c.pressed))
                     ELSE nfe_silverware_cancel_gesture
    IN  /\ pc = "control"
        /\ pc' = IF state = "RADIO_ERROR" THEN "publish" ELSE "transmit"
        /\ mode' = state /\ previousState' = state
        /\ bindAge' = BindAge(c, g)
        /\ prearmAge' = PrearmAge(c, g)
        /\ controls' = c /\ gamepadAge' = g
        /\ held' = c.pressed \cap EdgeButton
        /\ aux' = newAux
        /\ SaveAux(newAux.on)
        /\ latched' = (latched \cap AuxPressed(c.pressed))
                      \cup (newAux.on \ aux.on) \cup (aux.on \ newAux.on)
        /\ player' = newPlayer
        /\ packet' = BuildPacket(state, hop, c, newAux.on, newPlayer)
        /\ channelIndex' = NextHop(state, hop)
        /\ UNCHANGED <<failures, lastHop, link>>

\* gamepad_update finds no controller and clears the snapshot.
GamepadAbsent == ControlStep(NoController, AgeCap)

\* gamepad_update finds no new data: the snapshot stays as it was.
GamepadSilent == ControlStep(controls, gamepadAge)

\* gamepad_update copies a new report and stamps it.
GamepadReport ==
    \E r \in Reports :
        ControlStep([connected |-> TRUE, pressed |-> r.pressed,
                     throttleRaw |-> r.throttleRaw], 0)

-----------------------------------------------------------------------------
(* Transmission.  Whether the FC receives the packet is not known to the    *)
(* driver: a packet reported as failed may have gone out.                   *)

FcReceives(reaches) ==
    fcConfig' = IF reaches /\ packet.kind = "data"
                THEN [ch5 |-> packet.ch5, on |-> packet.on] ELSE fcConfig

PacketGone ==
    lastHop' = IF packet.kind = "data" THEN packet.hop ELSE -1

TransmitSent(reaches) ==
    /\ pc = "transmit"
    /\ Elapse(1)
    /\ FcReceives(reaches) /\ PacketGone
    /\ heard' = reaches
    /\ failures' = 0
    /\ pc' = IF packet.kind = "bind" THEN "publish" ELSE "receive"
    /\ UNCHANGED <<mode, previousState, controls, held, aux, nvs, unsaved,
                   latched, channelIndex, packet>>

\* The state after the n-th failure in a row.
FailureState(n) ==
    IF n >= RADIO_FAILURE_LIMIT THEN failsafe_report_radio_error ELSE mode

\* One failure too many is announced.
ReportFailure(n) ==
    /\ mode' = FailureState(n)
    /\ previousState' = IF n >= RADIO_FAILURE_LIMIT THEN mode'
                        ELSE previousState

TransmitFailed(reaches) ==
    /\ pc = "transmit"
    /\ Elapse(1)
    /\ FcReceives(reaches) /\ PacketGone
    /\ failures' = failures + 1
    /\ ReportFailure(failures + 1)
    /\ pc' = "publish"
    /\ UNCHANGED <<controls, held, aux, nvs, unsaved, latched, channelIndex,
                   packet, heard>>

-----------------------------------------------------------------------------
(* The receive window: at most one packet is read.                          *)

\* The radio delivers packet p.  The receive FIFO was flushed when the window
\* opened, so a valid telemetry packet answers the packet just sent; noise
\* that fails the header or checksum test may arrive at any time.
ReceivePacket(p) ==
    /\ pc = "receive"
    /\ p.valid => heard
    /\ tel' = IF p.valid THEN telemetry_parse(tel, p) ELSE tel
    /\ pc' = "publish"
    /\ UNCHANGED <<safety, input, profile, radio, heard, fcConfig>>

ReceiveDeadline ==
    /\ pc = "receive"
    /\ pc' = "publish"
    /\ UNCHANGED <<safety, input, profile, radio, link>>

-----------------------------------------------------------------------------
(* The end of the iteration: status is published and the task sleeps.       *)

Publish(d) ==
    /\ pc = "publish"
    /\ Elapse(d)
    /\ packet' = NoPacket /\ heard' = FALSE
    /\ pc' = "control"
    /\ UNCHANGED <<mode, previousState, controls, held, aux, nvs, unsaved,
                   latched, channelIndex, failures, lastHop, fcConfig>>

-----------------------------------------------------------------------------

TaskStep ==
    \/ GamepadAbsent
    \/ GamepadSilent
    \/ GamepadReport
    \/ \E reaches \in BOOLEAN : TransmitSent(reaches)
    \/ \E reaches \in BOOLEAN : TransmitFailed(reaches)
    \/ \E p \in Replies : ReceivePacket(p)
    \/ ReceiveDeadline
    \/ \E d \in 1 .. MaxStall : Publish(d)

Next == TaskStep \/ PowerCycle

Spec == Init /\ [][Next]_vars

\* The task has a core of its own and the highest priority on it, no call of
\* its loop blocks without a time limit, and vTaskDelayUntil always returns.
FairSpec == Spec /\ WF_vars(TaskStep)

-----------------------------------------------------------------------------
(* Properties.                                                              *)

\* Every variable stays in its type; in particular the hop index and the
\* failure counter, which the code keeps in uint8_t, stay in range.
TypeOK ==
    /\ pc \in {"control", "transmit", "receive", "publish"}
    /\ mode \in SystemState
    /\ previousState \in SystemState
    /\ bindAge \in Age
    /\ prearmAge \in Age
    /\ controls \in Controls
    /\ gamepadAge \in Age
    /\ held \in SUBSET EdgeButton
    /\ aux \in AuxState
    /\ player \in GesturePlayer
    /\ tel \in TelemetryData
    /\ channelIndex \in 0 .. BAYANG_RF_CHANNELS - 1
    /\ failures \in 0 .. RADIO_FAILURE_LIMIT
    /\ packet \in Packet
    /\ nvs \in 0 .. 31
    /\ heard \in BOOLEAN
    /\ fcConfig \in [ch5: BOOLEAN, on: SUBSET AuxFlag]
    /\ unsaved \in BOOLEAN
    /\ lastHop \in -1 .. BAYANG_RF_CHANNELS - 1
    /\ latched \in SUBSET AuxFlag

\* No packet carries CH5, throttle or a selection that is in effect in flight
\* unless the task is ACTIVE with a connected gamepad whose last report is
\* within GAMEPAD_TIMEOUT; gestures move the sticks only while LOCKED.
MotorCommandsAreFresh ==
    pc = "transmit" =>
        /\ packet.ch5 \/ packet.throttle > 0 =>
               /\ mode = "ACTIVE"
               /\ controls.connected
               /\ gamepadAge <= GAMEPAD_TIMEOUT
        /\ packet.stick # "centre" => packet.ch5 \/ mode = "LOCKED"
        /\ packet.on # {} => mode \in {"ACTIVE", "PREARM_MODE"}

\* Telemetry newer than the start of pre-arming is an answer to a pre-arm
\* packet: the last packet the flight controller received had CH5 off and the
\* selections that are about to be armed.
PrearmReplyProvesReceipt ==
    mode = "PREARM_MODE" /\ tel.has /\ tel.lastValid < prearmAge =>
        fcConfig = [ch5 |-> FALSE, on |-> aux.on]

\* When the task turns ACTIVE, the last packet the flight controller received
\* had CH5 off and carried exactly the selections of the transmitter: "a
\* legacy response proves that the FC received a pre-arm control packet"
\* (prearm_guard.cpp), and so does an extended flight page.
ArmsOnlyWhatFcReceived ==
    [][mode # "ACTIVE" /\ mode' = "ACTIVE" =>
           fcConfig = [ch5 |-> FALSE, on |-> aux.on]]_vars

\* The refinement mapping onto ArmingProtocol.
Arming == INSTANCE ArmingProtocol WITH
    Selection <- SUBSET AuxFlag,
    phase <- CASE mode = "ACTIVE" -> "armed"
               [] mode = "PREARM_MODE" -> "asking"
               [] OTHER -> "safe",
    pilot <- [start |-> "Start" \in controls.pressed,
              stop |-> "B" \in controls.pressed,
              idle |-> controls.throttleRaw <= ARM_THROTTLE_MAX],
    chosen <- aux.on,
    fc <- fcConfig

\* The task implements the arming protocol.  Arming begins LOCKED, on a press
\* of Start that the previous snapshot did not show, at idle throttle; it is
\* completed only when the last packet the flight controller received had CH5
\* off and the selections about to be armed; a press of B, or a second press
\* of Start, is obeyed in the packet of the same iteration, also in the one
\* that would have armed; packets carry CH5 only while armed, and selections
\* only while asking or armed.
ArmingIsImplemented == Arming!Spec

\* The task never sends in RADIO_ERROR, and is in RADIO_ERROR as soon as
\* RADIO_FAILURE_LIMIT transmissions in a row have failed.
FailureLimitStopsRadio ==
    /\ failures = RADIO_FAILURE_LIMIT => mode = "RADIO_ERROR"
    /\ mode = "RADIO_ERROR" => pc \in {"control", "publish"}

\* Between iterations the state last announced to the buzzer, the LED and the
\* console is the state of the task, on every path including radio failure.
AnnouncedState == previousState = mode

\* The data packets walk the hop table in order, and start at its first entry
\* after a bind and after a boot, where a bound receiver waits for them.
HopsInOrder ==
    pc = "transmit" /\ packet.kind = "data" =>
        packet.hop = (lastHop + 1) % BAYANG_RF_CHANNELS

\* Unless a flash access failed, a power cycle restores the selections in use.
SelectionsSurvivePowerLoss ==
    ~unsaved => nfe_silverware_restore_aux(nvs).on = aux.on

\* A selection toggled by a button changes again only after some snapshot has
\* shown the button up: "a button held during a disarm cannot toggle its
\* selection again on re-arm" (nfe_silverware_profile.cpp).
HeldButtonTogglesOnce ==
    [][pc = "control" /\ pc' = "transmit" =>
           latched \cap AuxPressed(controls'.pressed) \cap aux'.on
               = latched \cap AuxPressed(controls'.pressed) \cap aux.on]_vars

\* While the task stays LOCKED, a gesture starts only when the previous
\* snapshot showed no shortcut: holding a shortcut plays it once.
HeldShortcutPlaysOnce ==
    [][/\ mode = "LOCKED" /\ mode' = "LOCKED"
       /\ player.command = "None" /\ player'.command # "None"
       => gesture_request(controls.pressed) = "None"]_vars

\* The three timed states end, whatever the pilot holds down: a gesture leaves
\* the sticks to the pilot, pre-arming is confirmed, cancelled or times out,
\* and binding gives the channel table back.
TimedStatesEnd ==
    /\ player.command # "None" ~> player.command = "None"
    /\ mode = "PREARM_MODE" ~> mode # "PREARM_MODE"
    /\ mode = "BINDING" ~> mode # "BINDING"

\* The task is ACTIVE for ever only if reports keep arriving: a gamepad that
\* falls silent without disconnecting stops the motors.
SilenceDisarms ==
    []<>(mode = "ACTIVE") => []<>(gamepadAge = 0)

-----------------------------------------------------------------------------
(* What the documents promise and the code does not keep.                   *)

\* "The TX does not enable CH5 or pass through stick controls until a fresh
\* extended flight telemetry page confirms the saved flight mode and PID
\* profile" (docs/how-it-works.md): the first CH5 packet asks for the mode and
\* the profile that the page reported.
FirstArmedPacketIsConfirmed ==
    [][mode # "ACTIVE" /\ mode' = "ACTIVE" /\ tel.protocol = "ExtendedV1" =>
           /\ tel.flightMode = selected_flight_mode(packet'.on)
           /\ tel.pidProfile = ("pidProfile" \in packet'.on)]_vars

=============================================================================
