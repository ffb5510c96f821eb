------------------------------ MODULE Failsafe ------------------------------
(***************************************************************************)
(* The safety state machine of the transmitter, main/safety/failsafe.cpp.  *)
(*                                                                         *)
(* The module has no state of its own: current_state and bind_start belong *)
(* to the control task (module ControlTask), which is their only caller.   *)
(* A time stamp is represented by its age, the time elapsed since it was   *)
(* taken, so that a comparison "now - stamp > limit" is "age > limit".     *)
(***************************************************************************)
EXTENDS Integers

CONSTANTS
    GAMEPAD_TIMEOUT,      \* GAMEPAD_TIMEOUT_MS, in units of model time
    BIND_DURATION,        \* BIND_DURATION_US
    PREARM_MODE_TIMEOUT   \* PREARM_MODE_TIMEOUT_US

ASSUME FailsafeAssumption ==
    /\ GAMEPAD_TIMEOUT \in Nat \ {0}
    /\ BIND_DURATION \in Nat \ {0}
    /\ PREARM_MODE_TIMEOUT \in Nat \ {0}

\* STATE_BOOT is the value of current_state before failsafe_init(); the
\* control task is created after failsafe_init(), so it never observes it.
SystemState == {"WAIT_GAMEPAD", "BINDING", "LOCKED", "ACTIVE",
                "GAMEPAD_FAILSAFE", "RADIO_ERROR", "PREARM_MODE"}

failsafe_init == "WAIT_GAMEPAD"

\* Wrong variant: the age of the last report is not looked at.
gamepad_timeout_NoAge(connected, age) == ~connected

\* The gamepad is lost when it is disconnected or when its last report was
\* consumed more than the timeout ago.
gamepad_timeout(connected, age) == ~connected \/ age > GAMEPAD_TIMEOUT

\* The switch of failsafe_update_at when the gamepad is lost.
WithoutGamepad(state) ==
    CASE state \in {"WAIT_GAMEPAD", "LOCKED", "BINDING"} -> "WAIT_GAMEPAD"
      [] state \in {"PREARM_MODE", "ACTIVE", "GAMEPAD_FAILSAFE"} ->
             "GAMEPAD_FAILSAFE"
      [] state = "RADIO_ERROR" -> "RADIO_ERROR"

\* The switch when the gamepad is present.  Binding has priority over arming.
WithGamepad(state, idle, unlock, bind, disarm, bindAge) ==
    CASE state \in {"WAIT_GAMEPAD", "GAMEPAD_FAILSAFE"} -> "LOCKED"
      [] state = "LOCKED" ->
             IF bind /\ idle THEN "BINDING"
             ELSE IF unlock /\ idle THEN "PREARM_MODE" ELSE "LOCKED"
      [] state = "PREARM_MODE" ->
             IF disarm \/ ~idle THEN "LOCKED" ELSE "PREARM_MODE"
      [] state = "BINDING" ->
             IF bindAge > BIND_DURATION THEN "LOCKED" ELSE "BINDING"
      [] state = "ACTIVE" -> IF disarm THEN "LOCKED" ELSE "ACTIVE"
      [] state = "RADIO_ERROR" -> "RADIO_ERROR"

\* The state after one update; "lost" is gamepad_timeout, the others are the
\* parameters of the function.
failsafe_update_at(state, lost, idle, unlock, bind, disarm, bindAge) ==
    IF lost THEN WithoutGamepad(state)
    ELSE WithGamepad(state, idle, unlock, bind, disarm, bindAge)

failsafe_report_radio_error == "RADIO_ERROR"

failsafe_complete_prearm(state) ==
    IF state = "PREARM_MODE" THEN "ACTIVE" ELSE state

failsafe_cancel_prearm(state) ==
    IF state = "PREARM_MODE" THEN "LOCKED" ELSE state
=============================================================================
