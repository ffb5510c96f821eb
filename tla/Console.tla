------------------------------ MODULE Console -------------------------------
(***************************************************************************)
(* The text console of a SERIAL_OUTPUT_TEXT build,                         *)
(* main/console/console.cpp, beside the LED and the buzzer of module       *)
(* Feedback.  The control task reports to it through two FreeRTOS queues   *)
(* and never waits: events are dropped when their queue is full, the       *)
(* periodic status overwrites the one not yet printed.                     *)
(*                                                                         *)
(* A line is what it says of the system state.  The calls on the queues    *)
(* are atomic and interleave freely with the console task, whose printing  *)
(* may take any time.                                                      *)
(***************************************************************************)
EXTENDS Feedback, Sequences

CONSTANTS
    EVENT_QUEUE_LENGTH,   \* 8 in console_init
    Nothing               \* no state: a line about the gamepad or the radio

ASSUME ConsoleAssumption ==
    /\ EVENT_QUEUE_LENGTH \in Nat \ {0}
    /\ Nothing \notin SystemState

VARIABLES
    console,    \* console_init succeeded: the queues and the task exist
    events,     \* event_queue: the state an event announces, or Nothing
    status,     \* status_queue, of length one: the state of the sample
    waiting,    \* console_task is waiting for a status
    printed     \* the state named by the last line that names one

consoleVars == <<console, events, status, waiting, printed>>
allVars == <<feedbackVars, consoleVars>>

\* console_init: without memory for the queues or the task there is no console.
ConsoleInit ==
    /\ FeedbackInit
    /\ console \in BOOLEAN
    /\ events = <<>> /\ status = <<>>
    /\ waiting = FALSE /\ printed = Nothing

-----------------------------------------------------------------------------
(* The control task.                                                        *)

\* The event queue after console_publish_event(e): dropped when full.
console_publish_event(queue, e) ==
    IF console /\ Len(queue) < EVENT_QUEUE_LENGTH THEN Append(queue, e)
    ELSE queue

\* publish_state_change; a radio failure is reported by an event of its own
\* first.
StateChange(s) ==
    /\ Announce(s)
    /\ events' = LET before == IF s = "RADIO_ERROR"
                               THEN console_publish_event(events, Nothing)
                               ELSE events
                 IN  console_publish_event(before, s)
    /\ UNCHANGED <<console, status, waiting, printed>>

\* The gamepad comes or goes.
GamepadChange ==
    /\ events' = console_publish_event(events, Nothing)
    /\ UNCHANGED <<feedbackVars, console, status, waiting, printed>>

\* The mailbox after console_publish_status: xQueueOverwrite.
console_publish_status(s) == IF console THEN <<s>> ELSE status

\* Wrong variant: the state before the last change, previous_state, is sampled.
Sampled_Previous == requested[1]

\* The state of a sample: that of the iteration that ends.
Sampled == state

\* STATUS_PRINT_HZ times a second, at the end of an iteration.
PublishStatus ==
    /\ status' = console_publish_status(Sampled)
    /\ UNCHANGED <<feedbackVars, console, events, waiting, printed>>

-----------------------------------------------------------------------------
(* The console task.                                                        *)

\* The inner loop prints the events, until there is none.
PrintEvent ==
    /\ console /\ ~waiting
    /\ events # <<>>
    /\ events' = Tail(events)
    /\ printed' = IF Head(events) = Nothing THEN printed ELSE Head(events)
    /\ UNCHANGED <<feedbackVars, console, status, waiting>>

NoMoreEvents ==
    /\ console /\ ~waiting
    /\ events = <<>>
    /\ waiting' = TRUE
    /\ UNCHANGED <<feedbackVars, console, events, status, printed>>

\* A status within 100 ms.
PrintStatus ==
    /\ waiting /\ status # <<>>
    /\ waiting' = FALSE
    /\ status' = <<>> /\ printed' = status[1]
    /\ UNCHANGED <<feedbackVars, console, events>>

WaitTimesOut ==
    /\ waiting /\ status = <<>>
    /\ waiting' = FALSE
    /\ UNCHANGED <<feedbackVars, console, events, status, printed>>

-----------------------------------------------------------------------------

console_task == PrintEvent \/ NoMoreEvents \/ PrintStatus \/ WaitTimesOut

ConsoleNext ==
    \/ Update /\ UNCHANGED consoleVars
    \/ \E s \in SystemState : StateChange(s)
    \/ GamepadChange \/ PublishStatus
    \/ console_task

\* Every task runs: the feedback task and the control task on their periods,
\* the console task whenever they sleep.
ConsoleFairness ==
    /\ WF_feedbackVars(Update)
    /\ WF_allVars(PublishStatus) /\ WF_allVars(console_task)

ConsoleSpec == ConsoleInit /\ [][ConsoleNext]_allVars /\ ConsoleFairness

-----------------------------------------------------------------------------

\* Either the state changes, or the gamepad comes and goes, for ever, or the
\* console settles on the current state: events dropped at a full queue ("Drop
\* diagnostics when full") and samples overwritten in the mailbox cost lines,
\* never the last one.
StateIsPrinted ==
    \/ []<><<GamepadChange \/ \E s \in SystemState : StateChange(s)>>_allVars
    \/ <>[](console => printed = state)

=============================================================================
