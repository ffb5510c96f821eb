--------------------------- MODULE GamepadBridge ----------------------------
(***************************************************************************)
(* How a gamepad report gets from the Bluetooth process on core 0 to the   *)
(* control task on core 1: the shared controller slot of                   *)
(* components/bluepad32_arduino/arduino_platform.c, the poll               *)
(* Bluepad32::update, and gamepad_update in                                *)
(* main/gamepad/gamepad_manager.cpp.                                       *)
(*                                                                         *)
(* The build has one slot (CONFIG_BLUEPAD32_MAX_DEVICES=1).  A mutex       *)
(* guards the copies of a report, but neither the index check of the       *)
(* reader nor the memset of a disconnection takes it: that race is         *)
(* modelled as a memset that clears the slot piece by piece, in any order, *)
(* while the reader copies field by field.                                 *)
(*                                                                         *)
(* A report is its number; a field that came from report n holds n and     *)
(* the neutral value is 0.  Nothing in the firmware queues LED or rumble   *)
(* requests, so process_pending_requests always finds an empty queue.      *)
(***************************************************************************)
EXTENDS Integers, FiniteSets

CONSTANTS
    Fields,           \* the parts of a report copied one by one
    FastReconnect,    \* a pad may be back before one poll has missed it
    MaxReports,       \* bound: reports received
    MaxSessions       \* bound: connections of a pad

ASSUME GamepadBridgeAssumption ==
    /\ FastReconnect \in BOOLEAN
    /\ MaxReports \in Nat /\ MaxSessions \in Nat

INVALID == -1         \* UNI_ARDUINO_GAMEPAD_INVALID

Report == [Fields -> 0 .. MaxReports]
Neutral == [f \in Fields |-> 0]

VARIABLES
    slot,       \* controllers_[0]: idx, data, updated (data_updated)
    used,       \* used_controllers_
    ins,        \* ins->controller_idx of the Bluetooth device
    link,       \* the device: "none", "connected" or "ready"
    mutex,      \* owner of controller_mutex_: "none", "bt" or "app"
    btPc,       \* core 0: what its handler is doing
    btTodo,     \* core 0: the pieces it has still to write
    appPc,      \* core 1: where it is in Bluepad32::update
    appTodo,    \* core 1: the fields it has still to copy
    status,     \* core 1: result of arduino_get_controller_data
    pad,        \* core 1: _controllers[0]: _data, _connected
    prev,       \* core 1: _prevConnectedControllers
    mine,       \* core 1: myController # nullptr
    state,      \* core 1: current_state: data, connected
    sent,       \* history: reports received, and the number of the last
    sessions,   \* history: connections so far
    age,        \* history: polls begun since the last report was stored
    missed      \* history: polls begun and ended since the pad left

bt == <<used, ins, link, btPc, btTodo>>
app == <<appPc, appTodo, status, pad, prev, mine, state>>
vars == <<slot, bt, mutex, app, sent, sessions, age, missed>>

\* The pieces a memset of the slot clears.
Pieces == Fields \cup {"idx", "updated"}

\* What a memset leaves of slot s in piece p.
Cleared(s, p) ==
    IF p = "idx" THEN [s EXCEPT !.idx = 0]
    ELSE IF p = "updated" THEN [s EXCEPT !.updated = FALSE]
    ELSE [s EXCEPT !.data[p] = 0]

ClearedState == [data |-> Neutral, connected |-> FALSE]

\* arduino_init, arduino_on_init_complete and gamepad_init.
Init ==
    /\ slot = [idx |-> INVALID, data |-> Neutral, updated |-> FALSE]
    /\ used = 0 /\ ins = INVALID /\ link = "none"
    /\ mutex = "none"
    /\ btPc = "idle" /\ btTodo = {}
    /\ appPc = "idle" /\ appTodo = {} /\ status = "INVALID_DEVICE"
    /\ pad = [data |-> Neutral, connected |-> FALSE]
    /\ prev = FALSE /\ mine = FALSE
    /\ state = ClearedState
    /\ sent = 0 /\ sessions = 0 /\ age = 2 /\ missed = 2

-----------------------------------------------------------------------------
(* Core 0: the callbacks of the Bluetooth process, one at a time.           *)

\* arduino_on_device_connected.
DeviceConnected ==
    /\ btPc = "idle" /\ link = "none"
    /\ sessions < MaxSessions
    /\ link' = "connected"
    /\ ins' = INVALID
    /\ sessions' = sessions + 1
    /\ UNCHANGED <<slot, used, btPc, btTodo, mutex, app, sent, age, missed>>

\* The slot after arduino_on_device_ready has given it to a pad.
Assigned(s) == [s EXCEPT !.idx = 0]

\* arduino_on_device_ready: the free slot is assigned.
DeviceReady ==
    /\ btPc = "idle" /\ link = "connected"
    /\ FastReconnect \/ missed = 2
    /\ used = 0 /\ ins = INVALID /\ slot.idx = INVALID
    /\ slot' = Assigned(slot)
    /\ ins' = 0
    /\ used' = used + 1
    /\ link' = "ready"
    /\ UNCHANGED <<btPc, btTodo, mutex, app, sent, sessions, age, missed>>

\* Wrong variant: the report is stored without the mutex.
StoreLock_None == UNCHANGED mutex

\* arduino_on_controller_data waits for the mutex and takes it.
StoreLock == mutex = "none" /\ mutex' = "bt"

\* arduino_on_controller_data: the copy of a report begins.
DataTake ==
    /\ btPc = "idle" /\ link = "ready" /\ ins # INVALID
    /\ sent < MaxReports
    /\ StoreLock
    /\ sent' = sent + 1
    /\ btPc' = "store" /\ btTodo' = Fields
    /\ UNCHANGED <<slot, used, ins, link, app, sessions, age, missed>>

\* arduino_on_controller_data: a field of the report is copied.
DataStore(f) ==
    /\ btPc = "store" /\ f \in btTodo
    /\ slot' = [slot EXCEPT !.data[f] = sent]
    /\ btTodo' = btTodo \ {f}
    /\ UNCHANGED <<used, ins, link, btPc, mutex, app, sent, sessions, age,
                   missed>>

\* arduino_on_controller_data: data_updated is set, the mutex given.
DataGive ==
    /\ btPc = "store" /\ btTodo = {}
    /\ slot' = [slot EXCEPT !.updated = TRUE]
    /\ mutex' = "none"
    /\ btPc' = "idle"
    /\ age' = 0
    /\ UNCHANGED <<used, ins, link, btTodo, app, sent, sessions, missed>>

\* arduino_on_device_disconnected: a pad without a slot leaves no trace; for
\* the others the memset begins.
DeviceDisconnected ==
    /\ btPc = "idle" /\ link # "none"
    /\ \/ /\ ins = INVALID
          /\ link' = "none"
          /\ UNCHANGED <<used, btPc, btTodo>>
       \/ /\ ins # INVALID
          /\ used' = used - 1
          /\ btPc' = "wipe" /\ btTodo' = Pieces
          /\ UNCHANGED link
    /\ UNCHANGED <<slot, ins, mutex, app, sent, sessions, age, missed>>

\* The memset, without the mutex, clears one more piece.
Wipe(p) ==
    /\ btPc = "wipe" /\ p \in btTodo
    /\ slot' = Cleared(slot, p)
    /\ btTodo' = btTodo \ {p}
    /\ UNCHANGED <<used, ins, link, btPc, mutex, app, sent, sessions, age,
                   missed>>

\* Wrong variant: index 0, which the memset leaves, is taken for free.
Freed_Zero(s) == s

\* The slot after it has been marked free.
Freed(s) == [s EXCEPT !.idx = INVALID]

\* arduino_on_device_disconnected, after the memset.
WipeDone ==
    /\ btPc = "wipe" /\ btTodo = {}
    /\ slot' = Freed(slot)
    /\ ins' = INVALID
    /\ link' = "none"
    /\ btPc' = "idle"
    /\ missed' = 0
    /\ UNCHANGED <<used, btTodo, mutex, app, sent, sessions, age>>

-----------------------------------------------------------------------------
(* Core 1: one gamepad_update of the control task.                          *)

\* arduino_get_controller_data: the index is checked without the mutex.
PollBegin ==
    /\ appPc = "idle"
    /\ IF slot.idx = INVALID
       THEN status' = "INVALID_DEVICE" /\ appPc' = "callbacks"
       ELSE status' = "NO_DATA" /\ appPc' = "take"
    /\ age' = IF age < 2 THEN age + 1 ELSE age
    /\ missed' = IF missed = 0 THEN 1 ELSE missed
    /\ UNCHANGED <<slot, bt, mutex, appTodo, pad, prev, mine, state, sent,
                   sessions>>

\* arduino_get_controller_data: with the mutex, the flag decides.
PollTake ==
    /\ appPc = "take"
    /\ mutex = "none"
    /\ mutex' = "app"
    /\ IF slot.updated
       THEN appPc' = "copy" /\ appTodo' = Fields
       ELSE appPc' = "give" /\ UNCHANGED appTodo
    /\ UNCHANGED <<slot, bt, status, pad, prev, mine, state, sent, sessions,
                   age, missed>>

\* arduino_get_controller_data: a field of the report is copied out.
PollCopy(f) ==
    /\ appPc = "copy" /\ f \in appTodo
    /\ pad' = [pad EXCEPT !.data[f] = slot.data[f]]
    /\ appTodo' = appTodo \ {f}
    /\ UNCHANGED <<slot, bt, mutex, appPc, status, prev, mine, state, sent,
                   sessions, age, missed>>

\* Wrong variant: the flag stays set, the same report is taken again.
Consumed_Kept(s) == s

\* The slot after its report has been taken.
Consumed(s) == [s EXCEPT !.updated = FALSE]

\* arduino_get_controller_data: the copy is complete.
PollConsume ==
    /\ appPc = "copy" /\ appTodo = {}
    /\ slot' = Consumed(slot)
    /\ status' = "SUCCESS"
    /\ appPc' = "give"
    /\ UNCHANGED <<bt, mutex, appTodo, pad, prev, mine, state, sent, sessions,
                   age, missed>>

\* arduino_get_controller_data: the mutex is given.
PollGive ==
    /\ appPc = "give"
    /\ mutex' = "none"
    /\ appPc' = "callbacks"
    /\ UNCHANGED <<slot, bt, appTodo, status, pad, prev, mine, state, sent,
                   sessions, age, missed>>

\* Wrong variant: the state survives the loss of the controller.
Taken_Kept(held, updated) ==
    IF held /\ updated THEN [data |-> pad.data, connected |-> TRUE] ELSE state

\* current_state after gamepad_update: cleared without a controller, else
\* the new report if there is one.
Taken(held, updated) ==
    IF ~held THEN ClearedState
    ELSE IF updated THEN [data |-> pad.data, connected |-> TRUE] ELSE state

\* The end of Bluepad32::update, with the callbacks for a pad that came or
\* went, and the rest of gamepad_update.
PollEnd ==
    LET current == status # "INVALID_DEVICE"
        changed == current # prev
    IN  /\ appPc = "callbacks"
        /\ prev' = current
        /\ mine' = IF changed THEN current ELSE mine
        /\ pad' = IF changed THEN [pad EXCEPT !.connected = current] ELSE pad
        /\ state' = Taken(mine' /\ pad'.connected, status = "SUCCESS")
        /\ appPc' = "idle"
        /\ missed' = IF missed = 1 THEN 2 ELSE missed
        /\ UNCHANGED <<slot, bt, mutex, appTodo, status, sent, sessions, age>>

-----------------------------------------------------------------------------

Bluetooth ==
    \/ DeviceConnected \/ DeviceReady \/ DeviceDisconnected
    \/ DataTake \/ DataGive \/ WipeDone
    \/ \E f \in Fields : DataStore(f)
    \/ \E p \in Pieces : Wipe(p)

Poll ==
    \/ PollBegin \/ PollTake \/ PollConsume \/ PollGive \/ PollEnd
    \/ \E f \in Fields : PollCopy(f)

Next == Bluetooth \/ Poll

\* A handler that has begun goes on: both cores keep running.
HandlerStep ==
    \/ DataGive \/ WipeDone
    \/ \E f \in Fields : DataStore(f)
    \/ \E p \in Pieces : Wipe(p)

Spec == Init /\ [][Next]_vars

\* The control task polls every cycle and a callback of the Bluetooth
\* process runs to its end.
FairSpec == Spec /\ WF_vars(Poll) /\ WF_vars(HandlerStep)

-----------------------------------------------------------------------------
(* Properties.                                                              *)

\* Every variable stays in its type; the slot's index is the one of its array.
TypeOK ==
    /\ slot \in [idx: {INVALID, 0}, data: Report, updated: BOOLEAN]
    /\ used \in 0 .. 1 /\ ins \in {INVALID, 0}
    /\ link \in {"none", "connected", "ready"}
    /\ mutex \in {"none", "bt", "app"}
    /\ btPc \in {"idle", "store", "wipe"} /\ btTodo \subseteq Pieces
    /\ appPc \in {"idle", "take", "copy", "give", "callbacks"}
    /\ appTodo \subseteq Fields
    /\ status \in {"INVALID_DEVICE", "NO_DATA", "SUCCESS"}
    /\ pad \in [data: Report, connected: BOOLEAN]
    /\ prev \in BOOLEAN /\ mine \in BOOLEAN
    /\ state \in [data: Report, connected: BOOLEAN]
    /\ sent \in 0 .. MaxReports /\ sessions \in 0 .. MaxSessions
    /\ age \in 0 .. 2 /\ missed \in 0 .. 2

\* Data d is one report, possibly torn: each field is the report's or neutral.
FromOneReport(d) ==
    \A f, g \in Fields : d[f] # 0 /\ d[g] # 0 => d[f] = d[g]

\* The commands the control task sees never mix two reports: a disconnection
\* that races with the copy can replace fields by their neutral value, which
\* for the throttle is zero and for a button is released, and do no more.
ReportsAreNotMixed == FromOneReport(state.data)

\* Torn: some fields are neutral though the report was not.
Torn(d) == \E f, g \in Fields : d[f] # d[g]

\* A torn report is seen only while its pad is gone, so that the next poll
\* clears it, if a pad needs longer than a poll to come back.
TornOnlyWhileGone ==
    Torn(state.data) => btPc = "wipe" \/ ins = INVALID

\* gamepad_update stamps the state with the time of the poll, not of the
\* report.  The stamp is honest: a poll that takes a report takes one stored
\* after the previous poll began, so the age failsafe_check computes is wrong
\* by at most one poll, and no report refreshes the state twice: the last
\* report of a silent pad cannot keep it fresh.
StampIsHonest ==
    [][appPc = "callbacks" /\ appPc' = "idle" /\ state'.connected
       /\ status = "SUCCESS" => age <= 1]_vars

\* A pad that is gone stops commanding: the next poll clears the state, or a
\* pad is back.
GoneIsCleared ==
    ins = INVALID ~> (~state.connected /\ state.data = Neutral) \/ ins = 0

=============================================================================
