---------------------------- MODULE GroundStation ---------------------------
(***************************************************************************)
(* The viewer loop of the ground station, run_viewer in                    *)
(* tools/ground_station/ground_station.py: it finds and opens the serial   *)
(* port, cuts the byte stream into frames, feeds the telemetry model and   *)
(* the flight event tracker, gives up handles that fell silent and, on     *)
(* Ctrl+C, closes the books.                                               *)
(*                                                                         *)
(* A frame is a run of FrameLength symbols and a delimiter.  A segment     *)
(* decodes if and only if it is exactly the symbols of one frame: what     *)
(* COBS and the CRC-16 do to real bytes is in AirLink.  Noise damages or   *)
(* swallows symbols and can forge a delimiter.  read() returns any prefix  *)
(* of what has arrived, so every chunking is covered.  A device that is    *)
(* plugged in again leaves a handle that either raises or stays silent.    *)
(*                                                                         *)
(* Health checks, samples and rendering only read this state.  A failed    *)
(* attempt to open the port is a stuttering step.  Ctrl+C is delivered     *)
(* once, between any two statements of the loop that change this state; a  *)
(* read and the acceptance of a frame are one step each, as nothing is     *)
(* claimed of what a Ctrl+C within them leaves.  A record that the         *)
(* transmitter does not make, which accept would reject after its          *)
(* envelope, is not sent.                                                  *)
(***************************************************************************)
EXTENDS Integers, Sequences, SequencesExt, FiniteSets

CONSTANTS
    FrameLength,      \* symbols of a frame
    BufferLimit,      \* the 4096 bytes after which the buffer is cleared
    SilenceTimeout,   \* SERIAL_SILENCE_TIMEOUT_S, in reads that time out
    MaxFrames,        \* bound: frames the transmitter sends
    MaxNoise,         \* bound: symbols that noise damages
    MaxPlugs,         \* bound: times the device is plugged in
    Stories           \* what the frames say and when the transmitter reboots

\* A record: the FC's protocol and arm state, or the transmitter's state.
Record == [type: {"fc"}, extended: BOOLEAN, armed: BOOLEAN]
              \cup [type: {"local"}, state: {"LOCKED", "ACTIVE"}]

ASSUME GroundStationAssumption ==
    /\ FrameLength \in Nat \ {0} /\ BufferLimit \in Nat
    /\ BufferLimit >= FrameLength
    /\ SilenceTimeout \in Nat \ {0}
    /\ MaxFrames \in Nat /\ MaxNoise \in Nat /\ MaxPlugs \in Nat
    /\ Stories \subseteq [content: [1 .. MaxFrames -> Record],
                          rebootAt: 2 .. MaxFrames + 1]

Symbol == [frame: 0 .. MaxFrames, pos: 0 .. FrameLength]

\* pos 0 is the delimiter, the zero byte; frame 0 is noise.
IsDelimiter(symbol) == symbol.pos = 0
Noise == {[frame |-> 0, pos |-> 0], [frame |-> 0, pos |-> 1]}

VARIABLES
    story,      \* what each frame says, and the first one of the second boot
    next,       \* the next symbol the transmitter sends
    noise,      \* symbols damaged so far
    device,     \* times the device was plugged in
    port,       \* serial_port: the plugging it belongs to; 0: None
    line,       \* symbols that wait in the port
    pc,         \* the loop: the next statement, or "exit", "done"
    buffer,     \* buffer
    segments,   \* the segments of this chunk still to be decoded
    silence,    \* reads since last_serial_byte_at
    malformed,  \* model.stats.malformed_frames
    unreported, \* malformed_since_event
    stopped,    \* history: the pc at which Ctrl+C came, or None
    model,      \* TelemetryModel: last timestamp, FC and local state
    previous,   \* FlightEventTracker.previous and initial_state_logged
    log,        \* what events.jsonl says so far
    raw,        \* the raw log of this connection
    accepted    \* history: frames accepted in this connection

transmitter == <<story, next, noise>>
handle == <<device, port, line>>
books == <<malformed, unreported, stopped>>
station == <<pc, buffer, segments, silence>>
vars == <<transmitter, handle, station, books, model, previous, log, raw,
          accepted>>

None == "None"
NoModel == [timestamp |-> -1, extended |-> FALSE, armed |-> FALSE,
            local |-> None, any |-> FALSE]

Init ==
    /\ story \in Stories
    /\ next = [frame |-> 1, pos |-> 1] /\ noise = 0
    /\ device = 1 /\ port = 0 /\ line = <<>>
    /\ pc = "read" /\ buffer = <<>> /\ segments = <<>> /\ silence = 0
    /\ malformed = 0 /\ unreported = 0 /\ stopped = None
    /\ model = NoModel
    /\ previous = [armed |-> None, state |-> None, initial |-> FALSE]
    /\ log = [armed |-> FALSE, state |-> None, reported |-> 0,
              overflows |-> 0, open |-> FALSE, untold |-> FALSE,
              extra |-> FALSE]
    /\ raw = <<>> /\ accepted = <<>>

-----------------------------------------------------------------------------
(* The transmitter and the cable.                                           *)

\* The next symbol arrives, is damaged, swallowed, or nobody listens.
Send ==
    /\ next.frame <= MaxFrames
    /\ next' = IF next.pos = 0 THEN [frame |-> next.frame + 1, pos |-> 1]
               ELSE [next EXCEPT !.pos = (@ + 1) % (FrameLength + 1)]
    /\ IF port # device
       THEN UNCHANGED <<line, noise>>
       ELSE \/ line' = Append(line, next) /\ UNCHANGED noise
            \/ /\ noise < MaxNoise /\ noise' = noise + 1
               /\ line' \in {line} \cup {Append(line, s) : s \in Noise}
    /\ UNCHANGED <<story, device, port, station, books, model, previous,
                   log, raw, accepted>>

\* The device is unplugged and plugged in again: an open handle is dead.
Replug ==
    /\ device < MaxPlugs
    /\ device' = device + 1
    /\ UNCHANGED <<transmitter, port, line, station, books, model, previous,
                   log, raw, accepted>>

-----------------------------------------------------------------------------
(* Opening and closing.                                                     *)

\* recorder.connection(..., "connected"): a connection still open in the log
\* would be overwritten.
LogConnected == [log EXCEPT !.open = TRUE, !.untold = @ \/ log.open]

\* recorder.connection(..., "disconnected"): an extra one, if none is open.
LogDisconnected == [log EXCEPT !.open = FALSE, !.extra = @ \/ ~log.open]

\* Wrong variant: what the old connection left in the buffer stays there.
Emptied_Not == buffer

\* buffer.clear(), on connecting and on disconnecting.
Emptied == <<>>

\* open_serial_port succeeds.
Open ==
    /\ pc = "read" /\ port = 0
    /\ port' = device /\ line' = <<>>
    /\ silence' = 0
    /\ pc' = "connect"
    /\ UNCHANGED <<transmitter, device, buffer, segments, books, model,
                   previous, log, raw, accepted>>

\* The connection is announced; a raw log of its own begins.
Connected ==
    /\ pc = "connect"
    /\ log' = LogConnected
    /\ buffer' = Emptied
    /\ raw' = <<>> /\ accepted' = <<>>
    /\ pc' = "read"
    /\ UNCHANGED <<transmitter, handle, segments, silence, books, model,
                   previous>>

\* read() raises OSError or SerialException; a handle that is not open raises
\* before serial_connection_stale can find it closed.
ReadFails ==
    /\ pc = "read" /\ port # 0
    /\ log' = LogDisconnected
    /\ pc' = "close"
    /\ UNCHANGED <<transmitter, handle, buffer, segments, silence, books,
                   model, previous, raw, accepted>>

\* What follows the event on every way of losing the connection.
CloseHandle ==
    /\ pc = "close"
    /\ port' = 0 /\ line' = <<>>
    /\ buffer' = Emptied
    /\ pc' = "read"
    /\ UNCHANGED <<transmitter, device, segments, silence, books, model,
                   previous, log, raw, accepted>>

-----------------------------------------------------------------------------
(* Reading and cutting.                                                     *)

Delimiters(s) == {i \in DOMAIN s : IsDelimiter(s[i])}

\* The last delimiter before i, or 0, and the segment between them.
Before(s, i) == Max({0} \cup {d \in Delimiters(s) : d < i})
Segment(s, i) == SubSeq(s, Before(s, i) + 1, i - 1)

\* The ends of the segments that are not empty: the loop skips the others.
Ends(s) == {i \in Delimiters(s) : Segment(s, i) # <<>>}

\* The elements of a set of numbers, in ascending order.
InOrder(S) ==
    CHOOSE e \in [1 .. Cardinality(S) -> S] :
        \A i, j \in DOMAIN e : i < j => e[i] < e[j]

\* What splitting s at its delimiters gives: segments, and the rest after the
\* last one.
Segments(s) ==
    LET ends == InOrder(Ends(s))
    IN  [k \in DOMAIN ends |-> Segment(s, ends[k])]
Rest(s) == Segment(s, Len(s) + 1)

\* read(512) returns after its timeout or with what has arrived; a dead
\* handle returns nothing.
Read(n) ==
    LET chunk == SubSeq(line, 1, n)
        joined == buffer \o chunk
    IN  /\ pc = "read" /\ port # 0
        /\ n \in 0 .. Len(line)
        /\ line' = SubSeq(line, n + 1, Len(line))
        /\ silence' = IF n > 0 THEN 0
                      ELSE IF silence < SilenceTimeout THEN silence + 1
                      ELSE silence
        /\ raw' = raw \o chunk
        /\ segments' = Segments(joined)
        /\ buffer' = Rest(joined)
        /\ pc' = "frames"
        /\ UNCHANGED <<transmitter, device, port, books, model, previous, log,
                       accepted>>

\* The frame that a segment is, or 0.
Decoded(segment) ==
    LET f == segment[1].frame
    IN  IF segment = [i \in 1 .. FrameLength |-> [frame |-> f, pos |-> i]]
        THEN f ELSE 0

-----------------------------------------------------------------------------
(* A good frame: TelemetryModel.accept, then FlightEventTracker.accept.     *)

\* The timestamp of a frame, since its boot.
Timestamp(f) == IF f < story.rebootAt THEN f ELSE f - story.rebootAt

\* The model after frame f; a timestamp that runs backwards clears it first.
\* FcTelemetry.update forgets everything when the protocol changes.
Updated(f) ==
    LET r == story.content[f]
        restarted == model.timestamp # -1 /\ Timestamp(f) < model.timestamp
        base == [(IF restarted THEN [NoModel EXCEPT !.any = model.any]
                  ELSE model)
                    EXCEPT !.timestamp = Timestamp(f), !.any = TRUE]
    IN  IF r.type = "local" THEN [base EXCEPT !.local = r.state]
        ELSE [base EXCEPT !.extended = r.extended,
                          !.armed = r.extended /\ r.armed]

\* Wrong variant: a value is remembered only when an event was written.
Change_OnlyLogged(old, value, danger) ==
    LET told == IF old = None THEN danger # None /\ value = danger
                ELSE old # value
    IN  [previous |-> IF told THEN value ELSE old, told |-> told]

\* _change: the first value is told only if it is the dangerous one.
Change(old, value, danger) ==
    [previous |-> value,
     told |-> IF old = None THEN danger # None /\ value = danger
              ELSE old # value]

\* An arm state is remembered as a string, so that None can be compared.
ArmName(armed) == IF armed THEN "armed" ELSE "disarmed"

\* The tracker after an update: the arm state is looked at only while the
\* protocol is extended, the transmitter's state only when there is one; the
\* initial state is told once, with what is known then.
Track(m) ==
    LET arm == IF m.extended
               THEN Change(previous.armed, ArmName(m.armed), "armed")
               ELSE [previous |-> previous.armed, told |-> FALSE]
        st == IF m.local # None THEN Change(previous.state, m.local, None)
              ELSE [previous |-> previous.state, told |-> FALSE]
    IN  /\ previous' = [armed |-> arm.previous, state |-> st.previous,
                        initial |-> TRUE]
        /\ log' = [log EXCEPT
                      !.armed = IF arm.told THEN m.armed ELSE @,
                      !.state = IF st.told \/ ~previous.initial THEN m.local
                                ELSE @]

Accept ==
    /\ pc = "frames" /\ segments # <<>>
    /\ Decoded(Head(segments)) # 0
    /\ LET f == Decoded(Head(segments))
       IN  /\ model' = Updated(f)
           /\ Track(Updated(f))
           /\ accepted' = Append(accepted, f)
    /\ segments' = Tail(segments)
    /\ UNCHANGED <<transmitter, handle, pc, buffer, silence, books, raw>>

-----------------------------------------------------------------------------
(* A bad frame, the checks after the frames, and the end.                   *)

\* decode_bridge_frame raises DecodeError: stats.malformed_frames.
Malformed ==
    /\ pc = "frames" /\ segments # <<>>
    /\ Decoded(Head(segments)) = 0
    /\ malformed' = malformed + 1
    /\ segments' = Tail(segments)
    /\ pc' = "count"
    /\ UNCHANGED <<transmitter, handle, buffer, silence, unreported, stopped,
                   model, previous, log, raw, accepted>>

\* malformed_since_event.
CountMalformed ==
    /\ pc = "count"
    /\ unreported' = unreported + 1
    /\ pc' = "report"
    /\ UNCHANGED <<transmitter, handle, buffer, segments, silence, malformed,
                   stopped, model, previous, log, raw, accepted>>

\* The event is written at most every five seconds.
ReportMalformed ==
    /\ pc = "report"
    /\ \/ pc' = "frames" /\ UNCHANGED log
       \/ pc' = "reset" /\ log' = [log EXCEPT !.reported = @ + unreported]
    /\ UNCHANGED <<transmitter, handle, buffer, segments, silence, books,
                   model, previous, raw, accepted>>

ResetMalformed ==
    /\ pc = "reset"
    /\ unreported' = 0
    /\ pc' = "frames"
    /\ UNCHANGED <<transmitter, handle, buffer, segments, silence, malformed,
                   stopped, model, previous, log, raw, accepted>>

\* All segments are decoded, and the buffer grew past the limit: it is cleared
\* and counted.
Overflow ==
    /\ pc = "frames" /\ segments = <<>>
    /\ Len(buffer) > BufferLimit
    /\ buffer' = <<>>
    /\ malformed' = malformed + 1
    /\ pc' = "overflow"
    /\ UNCHANGED <<transmitter, handle, segments, silence, unreported, stopped,
                   model, previous, log, raw, accepted>>

ReportOverflow ==
    /\ pc = "overflow"
    /\ log' = [log EXCEPT !.overflows = @ + 1]
    /\ pc' = "check"
    /\ UNCHANGED <<transmitter, handle, buffer, segments, silence, books,
                   model, previous, raw, accepted>>

\* Wrong variant: the age of the last byte is not looked at.
Stale_OpenOnly == FALSE

\* serial_connection_stale: no byte for SERIAL_SILENCE_TIMEOUT_S.
Stale == silence >= SilenceTimeout

\* A connection that fell silent is given up.
Check ==
    /\ \/ pc = "frames" /\ segments = <<>> /\ Len(buffer) <= BufferLimit
       \/ pc = "check"
    /\ \/ Stale /\ log' = LogDisconnected /\ pc' = "close"
       \/ ~Stale /\ pc' = "read" /\ UNCHANGED log
    /\ UNCHANGED <<transmitter, handle, buffer, segments, silence, books,
                   model, previous, raw, accepted>>

Running == pc \notin {"exit", "done"}

\* KeyboardInterrupt is raised before the next statement.
Interrupt ==
    /\ Running
    /\ stopped' = pc
    /\ pc' = "exit"
    /\ UNCHANGED <<transmitter, handle, buffer, segments, silence, malformed,
                   unreported, model, previous, log, raw, accepted>>

\* Wrong variant: the frames counted since the last event are forgotten.
FinalLog_NoCount == IF port # 0 THEN LogDisconnected ELSE log

\* What the finally block writes: a disconnection if there is a port, and the
\* malformed frames since the last event.
FinalLog ==
    [(IF port # 0 THEN LogDisconnected ELSE log)
        EXCEPT !.reported = @ + unreported]

Finish ==
    /\ pc = "exit"
    /\ log' = FinalLog
    /\ port' = 0 /\ line' = <<>>
    /\ pc' = "done"
    /\ UNCHANGED <<transmitter, device, buffer, segments, silence, books,
                   model, previous, raw, accepted>>

-----------------------------------------------------------------------------

Loop == \/ Open \/ Connected \/ ReadFails \/ CloseHandle
        \/ Accept \/ Malformed \/ CountMalformed \/ ReportMalformed
        \/ ResetMalformed \/ Overflow \/ ReportOverflow \/ Check \/ Finish
        \/ \E n \in 0 .. Len(line) : Read(n)

Next == Loop \/ Send \/ Replug \/ Interrupt

Spec == Init /\ [][Next]_vars

\* The loop has no call that blocks without a time limit, and a device that
\* is plugged in can be opened.
FairSpec == Spec /\ WF_vars(Loop)

-----------------------------------------------------------------------------
(* Properties.                                                              *)

\* What decoding the raw log of the connection in one piece gives.
Replayed ==
    LET good == InOrder({i \in Ends(raw) : Decoded(Segment(raw, i)) # 0})
    IN  [k \in DOMAIN good |-> Decoded(Segment(raw, good[k]))]

\* The frames accepted live are those that the raw log of the connection
\* gives when it is replayed, however the stream was chunked, damaged or cut
\* by a reconnection; only a cleared buffer may rescue more of them.
LiveIsReplay ==
    pc = "read" =>
        IF log.overflows = 0 THEN accepted = Replayed
        ELSE ToSet(Replayed) \subseteq ToSet(accepted)

\* When the program ends, on whatever path, no connection is left open in the
\* log and it accounts for every malformed frame and overflow once.  Ctrl+C
\* falsifies it by no more than the statement it falls before: one frame or
\* overflow that was counted but not yet told is missing, the frames of an
\* event whose count was not yet reset are told twice, and a connection is
\* closed once too often only where the event and the handle disagree.
BooksAreClosed ==
    LET told == log.reported + log.overflows
    IN  /\ ~log.untold
        /\ log.extra => stopped \in {"connect", "close"}
        /\ pc = "done" =>
               /\ ~log.open
               /\ stopped \in {"count", "overflow"} => told = malformed - 1
               /\ stopped = "reset" => told = malformed + unreported
               /\ stopped \notin {"count", "overflow", "reset"} =>
                      told = malformed

\* The event log is never out of date: read from its start it gives the arm
\* state of the flight controller, also across reboots of the transmitter and
\* changes of protocol, and never a state of the transmitter other than the
\* last one received.
EventLogIsCurrent ==
    Running =>
        /\ model.extended => log.armed = model.armed
        /\ model.local # None => log.state \in {None, model.local}

\* "Detect dead USB handles that remain open after device re-enumeration": a
\* handle of a device that was plugged in again is replaced, or the program
\* ends.
DeadHandleIsReplaced ==
    port # 0 /\ port # device ~> port = device \/ pc = "done"

=============================================================================
