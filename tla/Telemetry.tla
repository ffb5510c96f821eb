----------------------------- MODULE Telemetry ------------------------------
(***************************************************************************)
(* The telemetry decoder, main/telemetry/telemetry.cpp, as far as the rest *)
(* of the transmitter depends on it: which packets are accepted, which     *)
(* fields a page updates, what a protocol change clears, and freshness.    *)
(* Measurements (attitude, voltages, loop times) are displayed and never   *)
(* tested, so they are left out; the counter of lost sequence nibbles is   *)
(* part of module PcBridge.                                                *)
(***************************************************************************)
EXTENDS Integers

CONSTANTS
    TELEMETRY_TIMEOUT,    \* TELEMETRY_TIMEOUT_MS, in units of model time
    AgeCap                \* bound: an age is not counted beyond this value

ASSUME TelemetryAssumption ==
    /\ TELEMETRY_TIMEOUT \in Nat \ {0}
    /\ AgeCap \in Nat
    /\ AgeCap > TELEMETRY_TIMEOUT

-----------------------------------------------------------------------------
(* Ages: time elapsed since a stamp, counted up to AgeCap.                  *)

Age == 0 .. AgeCap

\* The age of a stamp d units later.
Older(age, d) == IF age + d > AgeCap THEN AgeCap ELSE age + d
-----------------------------------------------------------------------------

TelemetryProtocol == {"Original", "ExtendedV1"}
FlightMode == {"Unknown", "Acro", "Level", "Race", "Horizon", "RaceHorizon"}
Page == {"Control", "Flight", "Power", "System"}

\* A packet read from the radio: whether bayang_check_telemetry accepts its
\* header and checksum, and the fields the decoder keeps.
Reply == [valid: BOOLEAN, protocol: TelemetryProtocol, page: Page,
          armed: BOOLEAN, flightMode: FlightMode, pidProfile: BOOLEAN]

TelemetryData == [has: BOOLEAN, protocol: TelemetryProtocol,
                  armed: BOOLEAN, flightMode: FlightMode,
                  pidProfile: BOOLEAN, lastValid: Age, lastFlightPage: Age]

\* A stamp of 0 is older than anything the control task compares it with.
telemetry_init ==
    [has |-> FALSE, protocol |-> "Original", armed |-> FALSE,
     flightMode |-> "Unknown", pidProfile |-> FALSE,
     lastValid |-> AgeCap, lastFlightPage |-> AgeCap]

clear_extended_data(t) ==
    [t EXCEPT !.armed = FALSE, !.flightMode = "Unknown",
              !.pidProfile = FALSE, !.lastFlightPage = AgeCap]

\* The common byte updates "armed" on every page, the flight page the mode.
parse_extended(t, p) ==
    IF p.page = "Flight"
    THEN [t EXCEPT !.armed = p.armed, !.flightMode = p.flightMode,
                   !.pidProfile = p.pidProfile, !.lastFlightPage = 0]
    ELSE [t EXCEPT !.armed = p.armed]

\* The data after an accepted packet, received now.
telemetry_parse(t, p) ==
    LET base == IF t.protocol # p.protocol
                THEN [clear_extended_data(t) EXCEPT !.protocol = p.protocol]
                ELSE t
        read == IF p.protocol = "ExtendedV1" THEN parse_extended(base, p)
                ELSE base
    IN  [read EXCEPT !.lastValid = 0, !.has = TRUE]

telemetry_get_snapshot(t) ==
    IF ~t.has THEN "Never"
    ELSE IF t.lastValid <= TELEMETRY_TIMEOUT THEN "Fresh" ELSE "Stale"

\* Time passes for the two stamps the data holds.
TelemetryOlder(t, d) ==
    [t EXCEPT !.lastValid = Older(@, d), !.lastFlightPage = Older(@, d)]
=============================================================================
