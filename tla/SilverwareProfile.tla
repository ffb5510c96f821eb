------------------------- MODULE SilverwareProfile --------------------------
(***************************************************************************)
(* The NFE Silverware profile, main/radio/nfe_silverware_profile.cpp: the  *)
(* AUX selections (flight mode, PID profile, LEDs), their packing into the *)
(* stored byte, and the player that turns a button shortcut into a timed   *)
(* sequence of stick movements.                                            *)
(*                                                                         *)
(* An AUX state is a record of two sets: the selections that are on, and   *)
(* the buttons that were down the last time the state was updated.         *)
(***************************************************************************)
EXTENDS Integers

CONSTANTS GESTURE_IDLE, GESTURE_STEP   \* GESTURE_IDLE_US, GESTURE_STEP_US

ASSUME GestureAssumption ==
    /\ GESTURE_IDLE \in Nat \ {0}
    /\ GESTURE_STEP \in Nat \ {0}

Button == {"Start", "View", "A", "B", "X", "Y", "LB", "RB", "L3", "R3",
           "DPadUp", "DPadDown", "DPadLeft", "DPadRight"}

-----------------------------------------------------------------------------
(* AUX selections.                                                          *)

AuxFlag == {"levelMode", "raceMode", "horizonMode", "pidProfile", "leds"}

AuxState == [on: SUBSET AuxFlag, previous: SUBSET AuxFlag]

\* The button that toggles each selection.
AuxButton == [levelMode |-> "A", raceMode |-> "X", horizonMode |-> "Y",
              pidProfile |-> "RB", leds |-> "LB"]

\* NfeSilverwareAuxFlag: the bit of each selection in the stored byte.
AuxBit == [levelMode |-> 1, raceMode |-> 2, horizonMode |-> 4,
           pidProfile |-> 8, leds |-> 16]

\* Wrong variant: the PID profile is not packed.
nfe_silverware_aux_flags_NoProfile(on) ==
    LET bit(f) == IF f \in on THEN AuxBit[f] ELSE 0
    IN  bit("levelMode") + bit("raceMode") + bit("horizonMode") + bit("leds")

nfe_silverware_aux_flags(on) ==
    LET bit(f) == IF f \in on THEN AuxBit[f] ELSE 0
    IN  bit("levelMode") + bit("raceMode") + bit("horizonMode")
        + bit("pidProfile") + bit("leds")

nfe_silverware_restore_aux(flags) ==
    [on |-> {f \in AuxFlag : (flags \div AuxBit[f]) % 2 = 1},
     previous |-> {}]

AuxPressed(pressed) == {f \in AuxFlag : AuxButton[f] \in pressed}

\* toggle_on_rising_edge applied to the five selections.
ToggleOnRisingEdge(aux, pressed) ==
    LET down == AuxPressed(pressed)
        rising == down \ aux.previous
    IN  [on |-> (aux.on \ rising) \cup (rising \ aux.on), previous |-> down]

\* Wrong variant: the remembered buttons are forgotten while locked.
nfe_silverware_update_aux_Forget(aux, active, pressed) ==
    IF active THEN ToggleOnRisingEdge(aux, pressed)
              ELSE [aux EXCEPT !.previous = {}]

\* Outside ACTIVE neither the selections nor the remembered buttons change.
nfe_silverware_update_aux(aux, active, pressed) ==
    IF active THEN ToggleOnRisingEdge(aux, pressed) ELSE aux

-----------------------------------------------------------------------------
(* Gestures.  A stick position is centred or deflected along one axis.      *)

Stick == {"centre", "left", "right", "up", "down", "pilot"}

\* The three deflections of each gesture: in gesture_directions -1 and 1 are
\* roll low and high, -2 and 2 pitch low and high.
GestureDirections ==
    [Save                    |-> <<"down", "down", "down">>,
     ToggleBindStorage       |-> <<"up", "up", "up">>,
     StickTravelOff          |-> <<"left", "left", "down">>,
     StickTravelOn           |-> <<"right", "right", "down">>,
     NextPidTerm             |-> <<"up", "down", "up">>,
     NextPidAxis             |-> <<"up", "down", "down">>,
     IncreasePid             |-> <<"up", "down", "right">>,
     DecreasePid             |-> <<"up", "down", "left">>,
     ToggleFeature1          |-> <<"right", "right", "right">>,
     ToggleLowVoltageLanding |-> <<"left", "left", "left">>,
     TogglePropsDirection    |-> <<"down", "up", "down">>]

Gesture == DOMAIN GestureDirections \cup {"None"}

\* gesture_request: the first matching shortcut, in the order of the code.
ShortcutOrder ==
    <<<<"DPadDown", "Save">>, <<"DPadUp", "ToggleBindStorage">>,
      <<"DPadLeft", "ToggleLowVoltageLanding">>,
      <<"DPadRight", "ToggleFeature1">>, <<"A", "TogglePropsDirection">>,
      <<"B", "StickTravelOff">>, <<"X", "StickTravelOn">>,
      <<"Y", "NextPidTerm">>, <<"L3", "NextPidAxis">>,
      <<"RB", "IncreasePid">>, <<"LB", "DecreasePid">>>>

gesture_request(pressed) ==
    LET held == {i \in 1 .. 11 : ShortcutOrder[i][1] \in pressed}
    IN  IF "R3" \notin pressed \/ held = {} THEN "None"
        ELSE ShortcutOrder[CHOOSE i \in held : \A j \in held : i <= j][2]

nfe_silverware_cancel_gesture ==
    [command |-> "None", previousRequest |-> "None", age |-> 0]

GESTURE_TOTAL == GESTURE_IDLE + 6 * GESTURE_STEP

\* The player: the gesture being played, the request of the last update and
\* the time since the gesture started (kept at 0 while nothing is played, and
\* not counted beyond the end of the gesture).
GesturePlayer ==
    [command: Gesture, previousRequest: Gesture, age: 0 .. GESTURE_TOTAL]

\* Wrong variant: a held shortcut starts the gesture again.
GestureStarts_Held(player, request) ==
    player.command = "None" /\ request # "None"

\* A gesture starts on a request that follows an update without one.
GestureStarts(player, request) ==
    /\ player.command = "None"
    /\ request # "None"
    /\ player.previousRequest = "None"

\* The player after nfe_silverware_update_gesture.
nfe_silverware_update_gesture(player, request) ==
    LET started == IF GestureStarts(player, request)
                   THEN [player EXCEPT !.command = request, !.age = 0]
                   ELSE player
        finished == started.age >= GESTURE_TOTAL
    IN  [command |-> IF finished THEN "None" ELSE started.command,
         previousRequest |-> request,
         age |-> IF finished THEN 0 ELSE started.age]

\* The output of the update, for the player as the update leaves it: the
\* stick is centred while idle and on every odd step.
GestureOutput(player) ==
    LET step == (player.age - GESTURE_IDLE) \div GESTURE_STEP
    IN  IF player.age < GESTURE_IDLE \/ step % 2 = 1 THEN "centre"
        ELSE GestureDirections[player.command][step \div 2 + 1]
=============================================================================
