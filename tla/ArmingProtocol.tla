--------------------------- MODULE ArmingProtocol ---------------------------
(***************************************************************************)
(* What arming promises, without radio, timers or telemetry pages: motors  *)
(* run only after a new press of Start at idle throttle has been answered  *)
(* by a flight controller that holds the selections about to be armed, and *)
(* a press of B or a second press of Start takes the promise back at once. *)
(* ControlTask implements this specification.                              *)
(***************************************************************************)

CONSTANT Selection       \* the sets of selections (modes, profile, LEDs)

VARIABLES
    phase,     \* "safe", "asking" or "armed"
    pilot,     \* the last snapshot: Start down, B down, throttle idle
    chosen,    \* the selections of the transmitter
    fc         \* CH5 and selections of the last packet the FC received

vars == <<phase, pilot, chosen, fc>>

Off == [start |-> FALSE, stop |-> FALSE, idle |-> TRUE]

Init ==
    /\ phase = "safe" /\ pilot = Off
    /\ chosen \in Selection
    /\ fc = [ch5 |-> FALSE, on |-> {}]

\* A button that the new snapshot shows down and the last one up.
Newly(button) == pilot'[button] /\ ~pilot[button]

\* The pilot takes the request or the armed state back.
TakenBack == Newly("stop") \/ Newly("start")

\* What a packet sent in this phase tells the flight controller.
Command == [ch5 |-> phase = "armed",
            on |-> IF phase = "safe" THEN {} ELSE chosen]

Ask ==
    /\ phase = "safe" /\ phase' = "asking"
    /\ Newly("start") /\ pilot'.idle
    /\ UNCHANGED <<chosen, fc>>

KeepAsking ==
    /\ phase = "asking" /\ phase' = "asking"
    /\ ~TakenBack /\ pilot'.idle
    /\ UNCHANGED <<chosen, fc>>

\* The first armed snapshot may already toggle a selection.
Arm ==
    /\ phase = "asking" /\ phase' = "armed"
    /\ ~TakenBack /\ pilot'.idle
    /\ fc = [ch5 |-> FALSE, on |-> chosen]
    /\ chosen' \in Selection
    /\ UNCHANGED fc

Fly ==
    /\ phase = "armed" /\ phase' = "armed"
    /\ ~TakenBack
    /\ chosen' \in Selection
    /\ UNCHANGED fc

Stand ==
    /\ phase' = "safe"
    /\ UNCHANGED <<chosen, fc>>

\* A packet is sent and received or not; a broken radio ends the request.
Send ==
    /\ fc' \in {fc, Command}
    /\ phase' \in {phase, "safe"}
    /\ UNCHANGED <<pilot, chosen>>

\* The transmitter restarts with the selections of its flash.
Restart ==
    /\ phase' = "safe" /\ pilot' = Off
    /\ chosen' \in Selection
    /\ UNCHANGED fc

Next == Ask \/ KeepAsking \/ Arm \/ Fly \/ Stand \/ Send \/ Restart

Spec == Init /\ [][Next]_vars
=============================================================================
