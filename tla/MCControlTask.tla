--------------------------- MODULE MCControlTask ----------------------------
(* Small instances of ControlTask for TLC.                                  *)
EXTENDS ControlTask

R(pressed, throttle) == [pressed |-> pressed, throttleRaw |-> throttle]

NoReply == [valid |-> FALSE, protocol |-> "Original", page |-> "Control",
            armed |-> FALSE, flightMode |-> "Unknown", pidProfile |-> FALSE]
Legacy == [NoReply EXCEPT !.valid = TRUE]
Extended(page, armed, flightMode) ==
    [valid |-> TRUE, protocol |-> "ExtendedV1", page |-> page,
     armed |-> armed, flightMode |-> flightMode, pidProfile |-> TRUE]

\* Arming: Start and the level-mode button pressed together and released one
\* by one or both, B, throttle at the limit of idle and above; legacy replies
\* and extended ones, which contradict the selections in level mode.
ArmReports == {R({}, 0), R({"B"}, 0), R({"Start", "A"}, 10), R({"A"}, 11)}
ArmReplies == {NoReply, Legacy, Extended("Flight", FALSE, "Acro"),
               Extended("Control", TRUE, "Unknown")}

\* Operation: binding, arming, disarming and gesture shortcuts, alone, held
\* together and across changes of state.
OperationReports ==
    {R({}, 0), R({"Start"}, 0), R({"View"}, 0), R({"Start", "View"}, 0),
     R({"B"}, 0), R({"R3", "DPadDown"}, 0), R({"R3", "B"}, 0),
     R({"R3", "DPadDown", "B"}, 0), R({"L3"}, 0)}
LegacyReplies == {Legacy}
=============================================================================
