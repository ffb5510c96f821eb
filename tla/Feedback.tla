------------------------------ MODULE Feedback ------------------------------
(***************************************************************************)
(* The onboard LED and the buzzer: main/feedback/feedback.cpp, whose task  *)
(* looks every 10 ms at a mailbox that the control task overwrites with    *)
(* each change of state, and main/feedback/feedback_pattern.cpp.           *)
(*                                                                         *)
(* Time is counted in the task's periods of 10 ms; every constant of the   *)
(* patterns is a multiple of it.  Changes of state are those of            *)
(* main/safety/failsafe.cpp and may come at any time.                      *)
(***************************************************************************)
EXTENDS Integers, Failsafe

\* At 2 * Cycle(s) the time in state s jumps back to Cycle(s): every one-time
\* cue is over by then, and what repeats does so with a divisor of Cycle(s).
Cycle(s) == IF s = "GAMEPAD_FAILSAFE" THEN 120 ELSE 100

VARIABLES
    ready,      \* feedback_init succeeded: the task exists
    state,      \* the system state of the control task
    requested,  \* requested_transition, <<previous, current>>
    active,     \* feedback_task: active_transition
    elapsed,    \* feedback_task: periods since the transition began
    led,        \* the LED is on
    buzzer,     \* feedback_task: buzzer_on
    chirps      \* history: tones begun in this transition, up to 4

feedbackVars ==
    <<ready, state, requested, active, elapsed, led, buzzer, chirps>>

-----------------------------------------------------------------------------
(* feedback_pattern.                                                        *)

pulse(t, period, on) == (t % period) < on

in_window(t, start, end) == t >= start /\ t < end

LedOn(s, t) ==
    CASE s = "WAIT_GAMEPAD" -> pulse(t, 100, 8)
      [] s \in {"BINDING", "PREARM_MODE", "GAMEPAD_FAILSAFE"} ->
             pulse(t, 20, 10)
      [] s = "LOCKED" -> pulse(t, 100, 50)
      [] s = "ACTIVE" -> TRUE
      [] s = "RADIO_ERROR" ->
             LET phase == t % 100
             IN  in_window(phase, 0, 10) \/ in_window(phase, 20, 30)

\* The windows of the tone in one run of the cue for a transition.
ToneWindows(previous, s) ==
    CASE s \in {"WAIT_GAMEPAD", "PREARM_MODE"} -> {<<0, 8>>}
      [] s = "BINDING" -> {<<0, 7>>, <<14, 21>>}
      [] s = "LOCKED" ->
             IF previous = "BINDING" THEN {<<0, 6>>, <<12, 18>>, <<24, 30>>}
             ELSE IF previous = "ACTIVE" THEN {<<0, 7>>, <<14, 21>>}
             ELSE {<<0, 12>>}
      [] s = "ACTIVE" -> {<<0, 20>>}
      [] s = "GAMEPAD_FAILSAFE" -> {<<0, 8>>, <<16, 24>>, <<32, 40>>}
      [] s = "RADIO_ERROR" -> {<<0, 20>>, <<40, 60>>}

\* Wrong variant: the alarms sound once.
CueTime_Once(s, t) == t

\* The time within the cue: the two alarms repeat.
CueTime(s, t) ==
    CASE s = "GAMEPAD_FAILSAFE" -> t % 120
      [] s = "RADIO_ERROR" -> t % 100
      [] OTHER -> t

BuzzerOn(previous, s, t) ==
    \E w \in ToneWindows(previous, s) : in_window(CueTime(s, t), w[1], w[2])

-----------------------------------------------------------------------------

\* feedback_init, then the first iteration of the task; without memory or
\* PWM the LED stays off and the buzzer silent.
FeedbackInit ==
    /\ ready \in BOOLEAN
    /\ state = failsafe_init
    /\ requested = <<"BOOT", failsafe_init>> /\ active = requested
    /\ elapsed = 0
    /\ led = ready /\ buzzer = ready
    /\ chirps = IF ready THEN 1 ELSE 0

\* What a cycle of the control task can make of state s: the calls of
\* module Failsafe with any arguments.
Successors(s) ==
    ({failsafe_update_at(s, lost, idle, unlock, bind, disarm, bindAge) :
          lost, idle, unlock, bind, disarm \in BOOLEAN,
          bindAge \in {0, BIND_DURATION + 1}}
     \cup {failsafe_complete_prearm(s), failsafe_cancel_prearm(s),
           failsafe_report_radio_error}) \ {s}

pack_transition(previous, current) == <<previous, current>>

\* publish_state_change and feedback_notify_state: the mailbox is overwritten.
Announce(s) ==
    /\ s \in Successors(state)
    /\ state' = s
    /\ requested' = pack_transition(state, s)
    /\ UNCHANGED <<ready, active, elapsed, led, buzzer, chirps>>

Later(t) ==
    LET cycle == Cycle(active[2]) IN IF t + 1 = 2 * cycle THEN cycle ELSE t + 1

\* Wrong variant: the cue of the last transition goes on.
Restarted_Never(t) == t

\* The time of a transition just taken from the mailbox.
Restarted(t) == 0

\* The transition to show: the newest one.
Received == requested

\* One iteration of feedback_task.
Update ==
    /\ ready
    /\ active' = Received
    /\ elapsed' = IF Received # active THEN Restarted(elapsed)
                  ELSE Later(elapsed)
    /\ led' = LedOn(active'[2], elapsed')
    /\ buzzer' = BuzzerOn(active'[1], active'[2], elapsed')
    /\ chirps' = LET before == IF Received # active THEN 0 ELSE chirps
                     silent == Received # active \/ ~buzzer
                 IN  IF buzzer' /\ silent /\ before < 4 THEN before + 1
                     ELSE before
    /\ UNCHANGED <<ready, state, requested>>

FeedbackNext == Update \/ \E s \in SystemState : Announce(s)

\* The task wakes up every 10 ms.
FeedbackSpec ==
    FeedbackInit /\ [][FeedbackNext]_feedbackVars /\ WF_feedbackVars(Update)

-----------------------------------------------------------------------------
(* Properties.                                                              *)

\* Every variable stays in its type.
FeedbackTypeOK ==
    LET Transition == (SystemState \cup {"BOOT"}) \X SystemState
    IN  /\ ready \in BOOLEAN /\ state \in SystemState
        /\ requested \in Transition /\ active \in Transition
        /\ elapsed \in 0 .. 239
        /\ led \in BOOLEAN /\ buzzer \in BOOLEAN /\ chirps \in 0 .. 4

\* The cues of docs/setup.md, as the number of tones: "Two chirps when binding
\* starts; three when it ends", "One arm tone", and the double chirp of a
\* disarm.
DocumentedChirps(t) ==
    IF t[2] = "BINDING" \/ t = <<"ACTIVE", "LOCKED">> THEN 2
    ELSE IF t = <<"BINDING", "LOCKED">> THEN 3 ELSE 1

\* When a state has lasted as long as its cue, the pilot has heard exactly
\* the documented tones, whatever was overwritten in the mailbox before.
CueIsComplete ==
    ready /\ elapsed >= 30
          /\ active[2] \notin {"GAMEPAD_FAILSAFE", "RADIO_ERROR"}
        => chirps = DocumentedChirps(active) /\ ~buzzer

\* A state that lasts is shown, however fast the ones before it followed each
\* other: the LED does not go on blinking for a state that has been left.  And
\* "Repeating triple alarm", "Repeating double alarm": while a failsafe or a
\* radio error lasts the alarm sounds again and again.
StateIsShown ==
    /\ \A s \in SystemState :
           (ready /\ state = s) ~> (state # s \/ active[2] = s)
    /\ \A s \in {"GAMEPAD_FAILSAFE", "RADIO_ERROR"} :
           (ready /\ state = s /\ ~buzzer)
               ~> (state # s \/ (buzzer /\ active[2] = s))

=============================================================================
