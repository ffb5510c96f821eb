---------------------------- MODULE PrearmGuard -----------------------------
(***************************************************************************)
(* The arming guard, main/safety/prearm_guard.cpp: what the flight         *)
(* controller must have answered before the transmitter turns CH5 on.      *)
(***************************************************************************)
EXTENDS Telemetry, SilverwareProfile

\* The FC applies race and horizon only in level mode.
selected_flight_mode(on) ==
    IF "levelMode" \notin on THEN "Acro"
    ELSE IF {"raceMode", "horizonMode"} \subseteq on THEN "RaceHorizon"
    ELSE IF "horizonMode" \in on THEN "Horizon"
    ELSE IF "raceMode" \in on THEN "Race"
    ELSE "Level"

\* Stamps compare in the order opposite to their ages: received after the
\* pre-arm start is "younger than the pre-arm start".
prearm_configuration_confirmed(t, on, prearmAge) ==
    /\ telemetry_get_snapshot(t) = "Fresh"
    /\ t.lastValid < prearmAge
    /\ \/ t.protocol = "Original"
       \/ /\ t.lastFlightPage < prearmAge
          /\ ~t.armed
          /\ t.flightMode = selected_flight_mode(on)
          /\ t.pidProfile = ("pidProfile" \in on)
=============================================================================
