------------------------ MODULE GroundStationProofs -------------------------
(***************************************************************************)
(* Proofs about the viewer loop, for any frames, stories, noise and        *)
(* reconnections: the books that the program leaves in events.jsonl are    *)
(* closed on every path, the log is never out of date, and the frames that *)
(* were accepted live are those that the raw log replays.                  *)
(*                                                                         *)
(* The first two do not depend on how the stream is cut or what a segment  *)
(* decodes to.  The third does: it needs what splitting a stream at its    *)
(* delimiters gives, for a stream that arrived in any chunks, and that a   *)
(* segment which is longer than a frame is none.                           *)
(***************************************************************************)
EXTENDS GroundStation, FiniteSetTheorems, SequenceTheorems, TLAPS

\* The fields of the records that the loop updates in place.
RecordFields ==
    /\ DOMAIN log = {"armed", "state", "reported", "overflows", "open",
                     "untold", "extra"}
    /\ DOMAIN model = {"timestamp", "extended", "armed", "local", "any"}

-----------------------------------------------------------------------------
(* The books.                                                               *)

\* The counters only count, and they are numbers.
CountersAreNumbers ==
    /\ malformed \in Nat /\ unreported \in Nat
    /\ log.reported \in Nat /\ log.overflows \in Nat

\* Where the loop is, or was when Ctrl+C came.
Place == IF Running THEN pc ELSE stopped

StoppedIsPlace ==
    /\ ~Running => stopped \notin {None, "exit", "done"}
    /\ Running => stopped = None
    /\ pc # None

\* Until the program is done the log lacks just the frames counted since the
\* last event; and the one that is being counted.
UnreportedIsMissing ==
    LET told == log.reported + log.overflows
                    + (IF pc = "done" THEN 0 ELSE unreported)
    IN  /\ Place \in {"count", "overflow"} => told + 1 = malformed
        /\ Place = "reset" => told = malformed + unreported
        /\ Place \notin {"count", "overflow", "reset"} => told = malformed

\* A connection is open in the log exactly while the loop has a port, but for
\* the moment between the event and the handle.
OpenIsPort ==
    /\ pc # "done" =>
          /\ Place \in {"connect", "close"} => port # 0 /\ ~log.open
          /\ Place \notin {"connect", "close"} => (log.open <=> port # 0)
          /\ Place # "read" => port # 0
    /\ pc = "done" => port = 0 /\ ~log.open
    /\ ~log.untold
    /\ log.extra => pc = "done" /\ stopped \in {"connect", "close"}

BooksInv == /\ RecordFields /\ CountersAreNumbers /\ StoppedIsPlace
            /\ UnreportedIsMissing /\ OpenIsPort

\* A device that can be opened has a number other than 0.
DeviceIsPlugged == device \in Nat \ {0}

\* The books are closed before the first connection.
LEMMA InitBooks == Init => BooksInv /\ DeviceIsPlugged
<1> SUFFICES ASSUME Init PROVE BooksInv /\ DeviceIsPlugged
  OBVIOUS
<1>1. RecordFields /\ CountersAreNumbers /\ UnreportedIsMissing
      /\ DeviceIsPlugged /\ StoppedIsPlace
  BY DEF Init, RecordFields, CountersAreNumbers, UnreportedIsMissing, NoModel,
         DeviceIsPlugged, StoppedIsPlace, Place, Running, None
<1>2. OpenIsPort
  BY DEF Init, OpenIsPort, Place, Running
<1> QED
  BY <1>1, <1>2 DEF BooksInv

\* A disconnection while a connection is open closes it.
LEMMA Disconnected ==
    ASSUME RecordFields
    PROVE  /\ DOMAIN LogDisconnected = DOMAIN log
           /\ ~LogDisconnected.open
           /\ LogDisconnected.extra = (log.extra \/ ~log.open)
           /\ LogDisconnected.untold = log.untold
           /\ LogDisconnected.reported = log.reported
           /\ LogDisconnected.overflows = log.overflows
           /\ LogDisconnected.armed = log.armed
           /\ LogDisconnected.state = log.state
  BY DEF RecordFields, LogDisconnected

\* Steps that neither write to the log nor count keep the books.
LEMMA QuietBooks ==
    ASSUME BooksInv, malformed' = malformed, unreported' = unreported,
           stopped' = stopped, port' = port, pc' = pc,
           DOMAIN model' = DOMAIN model, DOMAIN log' = DOMAIN log,
           log'.reported = log.reported, log'.overflows = log.overflows,
           log'.open = log.open, log'.untold = log.untold,
           log'.extra = log.extra
    PROVE  BooksInv'
  BY DEF BooksInv, RecordFields, CountersAreNumbers, UnreportedIsMissing,
         OpenIsPort, StoppedIsPlace, Place, Running

\* Opening and closing keep the log and the handle together.
LEMMA ConnectionBooks ==
    ASSUME BooksInv, DeviceIsPlugged,
           Open \/ Connected \/ ReadFails \/ CloseHandle \/ Check
    PROVE  BooksInv'
<1> USE DEF BooksInv, RecordFields, CountersAreNumbers, UnreportedIsMissing,
            OpenIsPort, StoppedIsPlace, Place, Running, None,
            DeviceIsPlugged, handle, books, station
<1>1. CASE Open
  BY <1>1 DEF Open
<1>2. CASE Connected
  BY <1>2 DEF Connected, LogConnected
<1>3. CASE ReadFails
  <2>1. /\ pc = "read" /\ port # 0 /\ log' = LogDisconnected /\ pc' = "close"
        /\ UNCHANGED <<port, malformed, unreported, stopped, model>>
    BY <1>3 DEF ReadFails
  <2> QED
    BY <2>1, Disconnected
<1>4. CASE CloseHandle
  BY <1>4 DEF CloseHandle
<1>5. CASE Check
  <2>1. /\ pc \in {"frames", "check"}
        /\ UNCHANGED <<port, malformed, unreported, stopped, model>>
    BY <1>5 DEF Check
  <2>2. CASE log' = LogDisconnected /\ pc' = "close"
    BY <2>1, <2>2, Disconnected
  <2>3. CASE log' = log /\ pc' = "read"
    BY <2>1, <2>3
  <2> QED
    BY <1>5, <2>2, <2>3 DEF Check
<1> QED
  BY <1>1, <1>2, <1>3, <1>4, <1>5

\* Counting, telling and resetting go together.
LEMMA CountBooks ==
    ASSUME BooksInv,
           \/ Malformed \/ CountMalformed \/ ReportMalformed \/ ResetMalformed
           \/ Overflow \/ ReportOverflow
    PROVE  BooksInv'
<1> USE DEF BooksInv, RecordFields, CountersAreNumbers, UnreportedIsMissing,
            OpenIsPort, StoppedIsPlace, Place, Running, None, handle, books,
            station
<1>1. CASE Malformed
  BY <1>1 DEF Malformed
<1>2. CASE CountMalformed
  BY <1>2 DEF CountMalformed
<1>3. CASE ReportMalformed
  <2>1. /\ pc = "report"
        /\ UNCHANGED <<port, malformed, unreported, stopped, model>>
    BY <1>3 DEF ReportMalformed
  <2>2. CASE pc' = "frames" /\ log' = log
    BY <2>1, <2>2
  <2>3. CASE /\ pc' = "reset"
             /\ log' = [log EXCEPT !.reported = @ + unreported]
    BY <2>1, <2>3
  <2> QED
    BY <1>3, <2>2, <2>3 DEF ReportMalformed
<1>4. CASE ResetMalformed
  BY <1>4 DEF ResetMalformed
<1>5. CASE Overflow
  BY <1>5 DEF Overflow
<1>6. CASE ReportOverflow
  BY <1>6 DEF ReportOverflow
<1> QED
  BY <1>1, <1>2, <1>3, <1>4, <1>5, <1>6

\* What Ctrl+C interrupts is closed by the finally block.
LEMMA EndBooks ==
    ASSUME BooksInv, Interrupt \/ Finish
    PROVE  BooksInv'
<1> USE DEF BooksInv, RecordFields, CountersAreNumbers, UnreportedIsMissing,
            OpenIsPort, StoppedIsPlace, Place, Running, None, handle, books,
            station
<1>1. CASE Interrupt
  <2>1. /\ Running /\ stopped' = pc /\ pc' = "exit" /\ stopped = None
        /\ UNCHANGED <<port, malformed, unreported, model, log>>
    BY <1>1 DEF Interrupt
  <2> QED
    BY <2>1
<1>2. CASE Finish
  <2>1. /\ pc = "exit" /\ pc' = "done" /\ port' = 0 /\ log' = FinalLog
        /\ UNCHANGED <<malformed, unreported, stopped, model>>
    BY <1>2 DEF Finish
  <2> DEFINE told == IF port # 0 THEN LogDisconnected ELSE log
  <2>2. /\ DOMAIN told = DOMAIN log
        /\ ~told.open /\ ~told.untold
        /\ told.extra => stopped \in {"connect", "close"}
        /\ told.reported = log.reported /\ told.overflows = log.overflows
    <3>1. ~log.extra /\ Place = stopped
      BY <2>1
    <3>2. CASE port # 0
      BY <2>1, <3>1, <3>2, Disconnected
    <3>3. CASE port = 0
      BY <2>1, <3>1, <3>3
    <3> QED
      BY <3>2, <3>3
  <2>3. log' = [told EXCEPT !.reported = told.reported + unreported]
    BY <2>1 DEF FinalLog
  <2> HIDE DEF told
  <2>4. /\ DOMAIN log' = DOMAIN log
        /\ log'.reported = log.reported + unreported
        /\ log'.overflows = log.overflows
        /\ ~log'.open /\ ~log'.untold
        /\ log'.extra => stopped \in {"connect", "close"}
    BY <2>2, <2>3
  <2> QED
    BY <2>1, <2>4
<1> QED
  BY <1>1, <1>2

\* Every step keeps the books.
LEMMA StepBooks ==
    ASSUME BooksInv, DeviceIsPlugged, Next
    PROVE  BooksInv' /\ DeviceIsPlugged'
<1> USE DEF handle, books, station
<1>1. DeviceIsPlugged'
  <2>1. device' = device \/ device' = device + 1
    BY DEF Next, Loop, Open, Connected, ReadFails, CloseHandle, Read, Accept,
           Malformed, CountMalformed, ReportMalformed, ResetMalformed,
           Overflow, ReportOverflow, Check, Finish, Send, Replug, Interrupt
  <2> QED
    BY <2>1 DEF DeviceIsPlugged
<1>2. CASE Accept
  <2> DEFINE f == Decoded(Head(segments))
  <2>1. /\ model' = Updated(f) /\ Track(Updated(f))
        /\ UNCHANGED <<malformed, unreported, stopped, port, pc>>
    BY <1>2 DEF Accept
  <2> HIDE DEF f
  <2>2. DOMAIN model' = DOMAIN model
    BY <2>1 DEF Updated, NoModel, BooksInv, RecordFields
  <2>3. /\ DOMAIN log' = DOMAIN log
        /\ log'.reported = log.reported /\ log'.overflows = log.overflows
        /\ log'.open = log.open /\ log'.untold = log.untold
        /\ log'.extra = log.extra
    BY <2>1 DEF Track, BooksInv, RecordFields
  <2> QED
    BY <1>1, <2>1, <2>2, <2>3, QuietBooks
<1>3. ASSUME NEW n \in 0 .. Len(line), Read(n) PROVE BooksInv'
  BY <1>3
  DEF Read, BooksInv, RecordFields, CountersAreNumbers, UnreportedIsMissing,
      OpenIsPort, StoppedIsPlace, Place, Running, None
<1>4. CASE Send
  BY <1>1, <1>4, QuietBooks DEF Send
<1>5. CASE Replug
  BY <1>1, <1>5, QuietBooks DEF Replug
<1> QED
  BY <1>1, <1>2, <1>3, <1>4, <1>5, ConnectionBooks, CountBooks, EndBooks
  DEF Next, Loop

\* The books are in order in every reachable state.
THEOREM BooksInvariance == Spec => []BooksInv
<1>1. ASSUME BooksInv, DeviceIsPlugged, [Next]_vars
      PROVE  BooksInv' /\ DeviceIsPlugged'
  <2>1. CASE UNCHANGED vars
    BY <1>1, <2>1
    DEF vars, handle, books, station, BooksInv, RecordFields,
        CountersAreNumbers, UnreportedIsMissing, OpenIsPort, DeviceIsPlugged,
        StoppedIsPlace, Place, Running
  <2> QED
    BY <1>1, <2>1, StepBooks
<1> QED
  BY <1>1, InitBooks, PTL DEF Spec

\* Before whichever statement of the loop Ctrl+C is raised, no connection is
\* left open in the log, none is opened over another, and the frames that the
\* log accounts for differ from those discarded by what that statement was to
\* do: one is missing before its count or event, those of an event are told
\* twice before their reset, and everywhere else the two agree.
THEOREM ClosedBooks == Spec => []BooksAreClosed
<1>1. BooksInv => BooksAreClosed
  <2> SUFFICES ASSUME BooksInv PROVE BooksAreClosed
    OBVIOUS
  <2>1. /\ ~log.untold
        /\ log.extra => stopped \in {"connect", "close"}
    BY DEF BooksInv, OpenIsPort
  <2>2. CASE pc = "done"
    <3>1. Place = stopped
      BY <2>2 DEF Place, Running
    <3> QED
      BY <2>1, <2>2, <3>1
      DEF BooksInv, CountersAreNumbers, UnreportedIsMissing, OpenIsPort,
          BooksAreClosed
  <2> QED
    BY <2>1, <2>2 DEF BooksAreClosed
<1> QED
  BY <1>1, BooksInvariance, PTL

-----------------------------------------------------------------------------
(* The event log.                                                           *)

\* The tracker remembers the arm state and the transmitter's state of the
\* model, as long as the model has them.
TrackerFollowsModel ==
    /\ model.extended => previous.armed = ArmName(model.armed)
    /\ model.local # None => previous.state = model.local
    /\ model.armed \in BOOLEAN

\* The log says what the tracker remembers, where it says anything.
LogFollowsTracker ==
    /\ log.armed = (previous.armed = "armed")
    /\ log.state \in {None, previous.state}

EventInv == RecordFields /\ TrackerFollowsModel /\ LogFollowsTracker

\* The log and the tracker know nothing at first.
LEMMA InitEvents == Init => EventInv
<1> SUFFICES ASSUME Init PROVE EventInv
  OBVIOUS
<1>1. RecordFields
  BY InitBooks DEF BooksInv
<1>2. TrackerFollowsModel
  BY DEF Init, NoModel, TrackerFollowsModel
<1>3. LogFollowsTracker
  <2>1. (previous.armed = "armed") = FALSE
    BY DEF Init, None
  <2>2. log.armed = FALSE /\ log.state = None
    BY DEF Init
  <2> QED
    BY <2>1, <2>2, Zenon DEF LogFollowsTracker
<1> QED
  BY <1>1, <1>2, <1>3 DEF EventInv

\* Where the protocol or the boot changed, the model forgets; whatever frame
\* is accepted, its arm state stays a truth value.
LEMMA UpdatedModel ==
    ASSUME EventInv, NEW f
    PROVE  /\ DOMAIN Updated(f) = DOMAIN model
           /\ Updated(f).armed \in BOOLEAN
BY DEF EventInv, RecordFields, TrackerFollowsModel, Updated, NoModel

\* An accepted frame is told, if it says something new.
LEMMA AcceptKeepsEvents ==
    ASSUME EventInv, NEW m, model' = m, Track(m),
           DOMAIN m = DOMAIN model, m.armed \in BOOLEAN
    PROVE  EventInv'
<1> USE DEF EventInv, RecordFields, TrackerFollowsModel, LogFollowsTracker
<1> DEFINE arm == IF m.extended
                  THEN Change(previous.armed, ArmName(m.armed), "armed")
                  ELSE [previous |-> previous.armed, told |-> FALSE]
           st == IF m.local # None THEN Change(previous.state, m.local, None)
                 ELSE [previous |-> previous.state, told |-> FALSE]
<1>1. /\ previous'.armed = arm.previous
      /\ previous'.state = st.previous
      /\ DOMAIN log' = DOMAIN log
      /\ log'.armed = IF arm.told THEN m.armed ELSE log.armed
      /\ log'.state = IF st.told \/ ~previous.initial THEN m.local
                      ELSE log.state
  BY DEF Track
<1>2. /\ m.extended => previous'.armed = ArmName(m.armed)
      /\ ~m.extended => previous'.armed = previous.armed
      /\ m.local # None => previous'.state = m.local
      /\ m.local = None => previous'.state = previous.state
  BY <1>1 DEF Change
<1>3. log'.armed = (previous'.armed = "armed")
  <2>1. CASE m.extended
    <3>1. (previous'.armed = "armed") = m.armed
      BY <1>2, <2>1 DEF ArmName
    <3>2. log'.armed = m.armed
      <4>1. arm.told = IF previous.armed = None THEN ArmName(m.armed) = "armed"
                       ELSE previous.armed # ArmName(m.armed)
        BY <2>1 DEF Change, None
      <4>2. CASE arm.told
        BY <1>1, <4>2
      <4>3. CASE ~arm.told
        <5>1. (previous.armed = "armed") = m.armed
          BY <4>1, <4>3 DEF ArmName, None
        <5> QED
          BY <1>1, <4>3, <5>1
      <4> QED
        BY <4>2, <4>3
    <3> QED
      BY <3>1, <3>2
  <2>2. CASE ~m.extended
    BY <1>1, <1>2, <2>2
  <2> QED
    BY <2>1, <2>2
<1>4. log'.state \in {None, previous'.state}
  <2>1. CASE m.local = None
    BY <1>1, <1>2, <2>1
  <2>2. CASE m.local # None
    <3>1. st.told = IF previous.state = None THEN FALSE
                    ELSE previous.state # m.local
      BY <2>2 DEF Change
    <3> HIDE DEF st
    <3> QED
      BY <1>1, <1>2, <2>2, <3>1
  <2> QED
    BY <2>1, <2>2
<1> QED
  BY <1>1, <1>2, <1>3, <1>4

\* No other step touches the model, the tracker or what the log says of them.
LEMMA StepEvents ==
    ASSUME EventInv, Next
    PROVE  EventInv'
<1> DEFINE Quiet == /\ model' = model /\ previous' = previous
                    /\ DOMAIN log' = DOMAIN log
                    /\ log'.armed = log.armed /\ log'.state = log.state
<1>1. CASE Accept
  <2>1. PICK f : model' = Updated(f) /\ Track(Updated(f))
    BY <1>1 DEF Accept
  <2> QED
    BY <2>1, UpdatedModel, AcceptKeepsEvents
<1>2. ASSUME Quiet PROVE EventInv'
  BY <1>2 DEF EventInv, RecordFields, TrackerFollowsModel, LogFollowsTracker
<1> USE DEF EventInv, RecordFields, transmitter, handle, books, station
<1>3. CASE Open \/ Connected \/ CloseHandle
  BY <1>2, <1>3 DEF Open, Connected, LogConnected, CloseHandle
<1>4. CASE ReadFails \/ Check
  BY <1>2, <1>4 DEF ReadFails, Check, LogDisconnected
<1>5. CASE \/ Malformed \/ CountMalformed \/ ReportMalformed
           \/ ResetMalformed
  BY <1>2, <1>5
  DEF Malformed, CountMalformed, ReportMalformed, ResetMalformed
<1>6. CASE Overflow \/ ReportOverflow
  BY <1>2, <1>6 DEF Overflow, ReportOverflow
<1>7. CASE Finish
  BY <1>2, <1>7 DEF Finish, FinalLog, LogDisconnected
<1>8. ASSUME NEW n \in 0 .. Len(line), Read(n) PROVE EventInv'
  BY <1>2, <1>8 DEF Read
<1>9. CASE Send
  BY <1>2, <1>9 DEF Send
<1>10. CASE Replug
  BY <1>2, <1>10 DEF Replug
<1>11. CASE Interrupt
  BY <1>2, <1>11 DEF Interrupt
<1> QED
  BY <1>1, <1>3, <1>4, <1>5, <1>6, <1>7, <1>8, <1>9, <1>10, <1>11
  DEF Next, Loop

\* The log, read from its start, gives the arm state of the flight controller
\* and no state of the transmitter but the last one received, across reboots,
\* changes of protocol and reconnections.
THEOREM CurrentEventLog == Spec => []EventLogIsCurrent
<1>1. ASSUME EventInv, [Next]_vars PROVE EventInv'
  <2>1. CASE UNCHANGED vars
    BY <1>1, <2>1 DEF vars, EventInv, RecordFields, TrackerFollowsModel,
                      LogFollowsTracker
  <2> QED
    BY <1>1, <2>1, StepEvents
<1>2. EventInv => EventLogIsCurrent
  BY DEF EventInv, TrackerFollowsModel, LogFollowsTracker, EventLogIsCurrent,
         ArmName
<1> QED
  BY <1>1, <1>2, InitEvents, PTL DEF Spec

-----------------------------------------------------------------------------
(* Sets of numbers in ascending order.                                      *)

\* e lists the numbers of S, each once and in ascending order.
IsOrder(e, S) ==
    /\ e \in Seq(S)
    /\ \A x \in S : \E k \in DOMAIN e : e[k] = x
    /\ \A i, j \in DOMAIN e : i < j => e[i] < e[j]

\* A nonempty set of natural numbers has a least element.
LEMMA LeastNumber ==
    ASSUME NEW S, S \subseteq Nat, S # {}
    PROVE  \E x \in S : \A y \in S : x <= y
<1>1. \E x \in S : \A y \in S : ~(<<y, x>> \in OpToRel(<, Nat))
  BY NatLessThanWellFounded, WFMin, Zenon
<1>2. PICK x \in S : \A y \in S : ~(<<y, x>> \in OpToRel(<, Nat))
  BY <1>1
<1>3. \A y \in S : x <= y
  <2> TAKE y \in S
  <2>1. x \in Nat /\ y \in Nat
    OBVIOUS
  <2>2. ~(y < x)
    BY <1>2, <2>1 DEF OpToRel
  <2> QED
    BY <2>1, <2>2
<1> QED
  BY <1>2, <1>3

\* A number greater than all of S is listed last.
LEMMA OrderAppend ==
    ASSUME NEW S, S \subseteq Nat, NEW e, IsOrder(e, S),
           NEW x \in Nat, \A y \in S : y < x
    PROVE  IsOrder(Append(e, x), S \cup {x})
<1> DEFINE f == Append(e, x)
           T == S \cup {x}
<1>1. e \in Seq(T)
  BY DEF IsOrder
<1>2. /\ f \in Seq(T) /\ Len(f) = Len(e) + 1 /\ Len(e) \in Nat
      /\ \A k \in 1 .. Len(e) : f[k] = e[k] /\ f[k] \in S
      /\ f[Len(e) + 1] = x
      /\ DOMAIN f = 1 .. Len(e) + 1 /\ DOMAIN e = 1 .. Len(e)
  BY <1>1 DEF IsOrder
<1>3. \A y \in T : \E k \in DOMAIN f : f[k] = y
  BY <1>2 DEF IsOrder
<1>4. ASSUME NEW i \in DOMAIN f, NEW j \in DOMAIN f, i < j
      PROVE  f[i] < f[j]
  <2>1. i \in 1 .. Len(e)
    BY <1>2, <1>4
  <2>2. CASE j = Len(e) + 1
    BY <1>2, <2>1, <2>2
  <2>3. CASE j \in 1 .. Len(e)
    BY <1>2, <1>4, <2>1, <2>3 DEF IsOrder
  <2> QED
    BY <1>2, <2>2, <2>3
<1> QED
  BY <1>2, <1>3, <1>4 DEF IsOrder

\* Every bounded set of numbers can be listed.
LEMMA OrderExists ==
    ASSUME NEW n \in Nat, NEW S \in SUBSET (1 .. n)
    PROVE  \E e : IsOrder(e, S)
<1> DEFINE Bad == {m \in Nat : \E T \in SUBSET (1 .. m) :
                                   \A e : ~IsOrder(e, T)}
<1>1. Bad = {}
  <2>1. SUFFICES ASSUME Bad # {} PROVE FALSE
    OBVIOUS
  <2>2. PICK m \in Bad : \A k \in Bad : m <= k
    BY <2>1, LeastNumber
  <2>3. PICK T \in SUBSET (1 .. m) : \A e : ~IsOrder(e, T)
    OBVIOUS
  <2>4. CASE m = 0
    <3>1. T = {}
      BY <2>4
    <3>2. IsOrder(<<>>, T)
      BY <3>1 DEF IsOrder
    <3> QED
      BY <2>3, <3>2
  <2>5. CASE m # 0
    <3> DEFINE U == T \ {m}
    <3>1. /\ m - 1 \in Nat /\ m - 1 \notin Bad
          /\ U \in SUBSET (1 .. m - 1)
      <4>1. m \in Nat /\ m - 1 \in Nat /\ ~(m <= m - 1)
        BY <2>5
      <4>2. m - 1 \notin Bad
        BY <2>2, <4>1, Zenon
      <4>3. \A x \in U : x \in 1 .. m /\ x # m
        OBVIOUS
      <4>4. \A x \in 1 .. m : x # m => x \in 1 .. m - 1
        BY <4>1
      <4>5. U \in SUBSET (1 .. m - 1)
        BY <4>3, <4>4, Zenon
      <4> QED
        BY <4>1, <4>2, <4>5
    <3>2. PICK e : IsOrder(e, U)
      BY <3>1
    <3>3. CASE m \notin T
      <4>1. U = T
        BY <3>3
      <4> QED
        BY <2>3, <3>2, <4>1
    <3>4. CASE m \in T
      <4>1. /\ U \cup {m} = T /\ U \subseteq Nat /\ m \in Nat
            /\ \A y \in U : y < m
        BY <3>1, <3>4
      <4> HIDE DEF U
      <4>2. IsOrder(Append(e, m), T)
        BY <3>2, <4>1, OrderAppend
      <4> QED
        BY <2>3, <4>2
    <3> QED
      BY <3>3, <3>4
  <2> QED
    BY <2>4, <2>5
<1> QED
  BY <1>1

\* Two lists of one set agree as far as the first one goes.
LEMMA OrderPrefix ==
    ASSUME NEW S, S \subseteq Nat, NEW e, IsOrder(e, S),
           NEW f, IsOrder(f, S)
    PROVE  \A k \in DOMAIN e : k \in DOMAIN f /\ f[k] = e[k]
<1> DEFINE Bad == {k \in DOMAIN e : ~(k \in DOMAIN f /\ f[k] = e[k])}
<1>1. /\ DOMAIN e = 1 .. Len(e) /\ Len(e) \in Nat
      /\ DOMAIN f = 1 .. Len(f) /\ Len(f) \in Nat
      /\ \A k \in DOMAIN e : e[k] \in S /\ e[k] \in Nat
      /\ \A k \in DOMAIN f : f[k] \in S /\ f[k] \in Nat
  <2>1. e \in Seq(S) /\ f \in Seq(S)
    BY DEF IsOrder
  <2>2. /\ DOMAIN e = 1 .. Len(e) /\ Len(e) \in Nat
        /\ DOMAIN f = 1 .. Len(f) /\ Len(f) \in Nat
    BY <2>1
  <2>3. \A k \in DOMAIN e : e[k] \in S
    BY <2>1
  <2>4. \A k \in DOMAIN f : f[k] \in S
    BY <2>1
  <2> QED
    BY <2>2, <2>3, <2>4
<1>2. SUFFICES ASSUME Bad # {} PROVE FALSE
  OBVIOUS
<1>3. PICK k \in Bad : \A j \in Bad : k <= j
  <2>1. Bad \subseteq Nat
    BY <1>1
  <2> HIDE DEF Bad
  <2> QED
    BY <1>2, <2>1, LeastNumber
<1>4. PICK m \in DOMAIN f : f[m] = e[k]
  BY <1>1 DEF IsOrder
<1>5. k < m
  <2>1. k \in Nat /\ m \in Nat
    BY <1>1
  <2>2. ASSUME m < k PROVE FALSE
    <3>1. m \in DOMAIN e /\ m \notin Bad
      BY <1>1, <1>3, <2>2
    <3>2. e[m] = e[k] /\ e[m] < e[k]
      BY <1>4, <2>2, <3>1 DEF IsOrder
    <3> QED
      BY <1>1, <3>1, <3>2
  <2>3. m # k
    BY <1>4
  <2> QED
    BY <2>1, <2>2, <2>3
<1>6. k \in DOMAIN f /\ f[k] < e[k]
  BY <1>1, <1>4, <1>5 DEF IsOrder
<1>7. PICK j \in DOMAIN e : e[j] = f[k]
  BY <1>1, <1>6 DEF IsOrder
<1>8. j < k
  <2>1. CASE k < j
    BY <1>1, <1>6, <1>7, <2>1 DEF IsOrder
  <2>2. CASE j = k
    BY <1>1, <1>6, <1>7, <2>2
  <2> QED
    BY <1>1, <2>1, <2>2
<1>9. j \notin Bad
  BY <1>1, <1>3, <1>8
<1>10. f[j] = f[k] /\ f[j] < f[k]
  BY <1>6, <1>7, <1>8, <1>9 DEF IsOrder
<1> QED
  BY <1>1, <1>6, <1>9, <1>10

\* A set has one list.
LEMMA OrderIsUnique ==
    ASSUME NEW S, S \subseteq Nat, NEW e, IsOrder(e, S),
           NEW f, IsOrder(f, S)
    PROVE  e = f
<1>1. \A k \in DOMAIN e : k \in DOMAIN f /\ f[k] = e[k]
  BY OrderPrefix, ZenonT(60)
<1>2. \A k \in DOMAIN f : k \in DOMAIN e /\ e[k] = f[k]
  BY OrderPrefix, ZenonT(60)
<1>3. e \in Seq(S) /\ f \in Seq(S)
  BY DEF IsOrder
<1>4. DOMAIN e = DOMAIN f
  BY <1>1, <1>2
<1>5. Len(e) = Len(f)
  BY <1>3, <1>4
<1> QED
  BY <1>1, <1>3, <1>5, SeqEqual

\* InOrder gives the list of a set that has one.
LEMMA OrderIsInOrder ==
    ASSUME NEW S, S \subseteq Nat, NEW e, IsOrder(e, S)
    PROVE  InOrder(S) = e
<1> DEFINE n == Len(e)
           f == InOrder(S)
           Sorted(g) == \A i, j \in DOMAIN g : i < j => g[i] < g[j]
<1>1. n \in Nat /\ e \in [1 .. n -> S]
  BY DEF IsOrder
<1>2. IsFiniteSet(S) /\ Cardinality(S) = n
  <2>1. IsFiniteSet(1 .. n) /\ Cardinality(1 .. n) = n
    BY <1>1, FS_Interval, SMTT(30)
  <2>2. e \in Injection(1 .. n, S)
    <3> SUFFICES ASSUME NEW i \in 1 .. n, NEW j \in 1 .. n, e[i] = e[j]
                 PROVE  i = j
      BY <1>1 DEF Injection, IsInjective
    <3>1. e[i] \in Nat /\ e[j] \in Nat
      BY <1>1
    <3> QED
      BY <1>1, <3>1 DEF IsOrder
  <2>3. e \in Surjection(1 .. n, S)
    BY <1>1 DEF Surjection, IsOrder
  <2>4. ExistsBijection(1 .. n, S)
    BY <2>2, <2>3 DEF ExistsBijection, Bijection
  <2> QED
    BY <2>1, <2>4, FS_Bijection
<1>3. Sorted(e)
  BY DEF IsOrder
<1>4. f \in [1 .. n -> S] /\ Sorted(f)
  BY <1>1, <1>2, <1>3 DEF InOrder
<1> HIDE DEF f
<1>5. IsOrder(f, S)
  <2>1. f \in Injection(1 .. n, S)
    <3> SUFFICES ASSUME NEW i \in 1 .. n, NEW j \in 1 .. n, f[i] = f[j]
                 PROVE  i = j
      BY <1>4 DEF Injection, IsInjective
    <3>1. f[i] \in Nat /\ f[j] \in Nat
      BY <1>4
    <3> QED
      BY <1>1, <1>4, <3>1
  <2>2. f \in Surjection(1 .. n, S)
    <3>1. Cardinality(1 .. n) = n
      BY <1>1, FS_Interval, SMTT(30)
    <3> QED
      BY <1>2, <2>1, <3>1, FS_Injection, SMTT(30)
  <2> QED
    BY <1>1, <1>4, <2>2 DEF IsOrder, Surjection
<1>6. f = e
  BY <1>5, OrderIsUnique, Zenon
<1> QED
  BY <1>6 DEF f

\* InOrder lists every bounded set.
LEMMA InOrderLists ==
    ASSUME NEW n \in Nat, NEW S \in SUBSET (1 .. n)
    PROVE  IsOrder(InOrder(S), S)
<1>1. PICK e : IsOrder(e, S)
  BY OrderExists
<1>2. S \subseteq Nat
  OBVIOUS
<1> QED
  BY <1>1, <1>2, OrderIsInOrder

\* The first number of a list is the least; the others are listed behind it.
LEMMA OrderTail ==
    ASSUME NEW S, S \subseteq Nat, NEW e, IsOrder(e, S), e # <<>>
    PROVE  /\ Head(e) \in S /\ \A y \in S : Head(e) <= y
           /\ IsOrder(Tail(e), S \ {Head(e)})
<1> DEFINE f == Tail(e)
           T == S \ {Head(e)}
<1>1. e \in Seq(S)
  BY DEF IsOrder
<1>2. /\ Len(e) \in Nat \ {0} /\ DOMAIN e = 1 .. Len(e)
      /\ Head(e) = e[1] /\ e[1] \in S
  BY <1>1
<1>3. \A k \in DOMAIN e : e[k] \in S /\ e[k] \in Nat
  <2>1. \A k \in DOMAIN e : e[k] \in S
    BY <1>1
  <2> QED
    BY <2>1
<1>4. /\ f \in Seq(S) /\ Len(f) = Len(e) - 1 /\ DOMAIN f = 1 .. Len(e) - 1
      /\ \A k \in 1 .. Len(e) - 1 : f[k] = e[k + 1]
  BY <1>1
<1>5. \A k \in DOMAIN e : k # 1 => e[1] < e[k]
  BY <1>2 DEF IsOrder
<1>6. \A y \in S : Head(e) <= y
  <2> TAKE y \in S
  <2>1. PICK k \in DOMAIN e : e[k] = y
    BY DEF IsOrder
  <2> QED
    BY <1>2, <1>3, <1>5, <2>1
<1>7. \A k \in DOMAIN f : f[k] \in T
  <2> TAKE k \in DOMAIN f
  <2>1. k + 1 \in DOMAIN e /\ k + 1 # 1 /\ f[k] = e[k + 1]
    BY <1>2, <1>4
  <2>2. e[1] < e[k + 1] /\ e[k + 1] \in S /\ e[1] \in Nat
    BY <1>2, <1>3, <1>5, <2>1
  <2>3. e[k + 1] # e[1]
    BY <1>3, <2>1, <2>2
  <2> QED
    BY <1>2, <2>1, <2>2, <2>3
<1>8. f \in Seq(T)
  <2> HIDE DEF f, T
  <2>1. f \in [1 .. Len(e) - 1 -> S]
    BY <1>4
  <2>2. f \in [1 .. Len(e) - 1 -> T]
    BY <1>7, <2>1
  <2>3. Len(e) - 1 \in Nat
    BY <1>2
  <2> QED
    BY <2>2, <2>3, SeqDef
<1>9. \A y \in T : \E k \in DOMAIN f : f[k] = y
  <2> TAKE y \in T
  <2>1. PICK k \in DOMAIN e : e[k] = y
    BY DEF IsOrder
  <2>2. k # 1
    BY <1>2, <2>1
  <2>3. k - 1 \in DOMAIN f /\ f[k - 1] = y
    BY <1>2, <1>4, <2>1, <2>2
  <2> QED
    BY <2>3
<1>10. ASSUME NEW i \in DOMAIN f, NEW j \in DOMAIN f, i < j
       PROVE  f[i] < f[j]
  <2>1. i + 1 \in DOMAIN e /\ j + 1 \in DOMAIN e /\ i + 1 < j + 1
    BY <1>2, <1>4, <1>10
  <2>2. e[i + 1] < e[j + 1]
    BY <2>1 DEF IsOrder
  <2> QED
    BY <1>4, <2>2
<1>11. IsOrder(f, T)
  BY <1>8, <1>9, <1>10 DEF IsOrder
<1> QED
  BY <1>2, <1>6, <1>11

\* The list of a set whose numbers are all greater by b.
LEMMA OrderShift ==
    ASSUME NEW S, S \subseteq Nat, NEW e, IsOrder(e, S), NEW b \in Nat
    PROVE  IsOrder([k \in DOMAIN e |-> b + e[k]], {b + x : x \in S})
<1> DEFINE f == [k \in DOMAIN e |-> b + e[k]]
           T == {b + x : x \in S}
<1>1. e \in Seq(S)
  BY DEF IsOrder
<1>2. /\ Len(e) \in Nat /\ DOMAIN e = 1 .. Len(e)
      /\ \A k \in DOMAIN e : e[k] \in S
  BY <1>1
<1>3. f \in [1 .. Len(e) -> T]
  BY <1>2
<1>4. f \in Seq(T)
  BY <1>2, <1>3, SeqDef
<1>5. \A y \in T : \E k \in DOMAIN f : f[k] = y
  <2> TAKE y \in T
  <2>1. PICK x \in S : y = b + x
    OBVIOUS
  <2>2. PICK k \in DOMAIN e : e[k] = x
    BY DEF IsOrder
  <2> QED
    BY <2>1, <2>2
<1>6. ASSUME NEW i \in DOMAIN f, NEW j \in DOMAIN f, i < j
      PROVE  f[i] < f[j]
  <2>1. e[i] < e[j] /\ e[i] \in Nat /\ e[j] \in Nat
    BY <1>2, <1>6 DEF IsOrder
  <2> QED
    BY <2>1
<1> QED
  BY <1>4, <1>5, <1>6 DEF IsOrder

-----------------------------------------------------------------------------
(* Where a stream is cut.                                                   *)

\* A nonempty set of bounded numbers has a greatest element.
LEMMA GreatestNumber ==
    ASSUME NEW n \in Nat, NEW S \in SUBSET (0 .. n), S # {}
    PROVE  Max(S) \in S /\ \A y \in S : y <= Max(S)
<1> DEFINE R == {m \in Nat : \E x \in S : m = n - x}
<1>1. R \subseteq Nat /\ R # {}
  <2>1. PICK x \in S : TRUE
    OBVIOUS
  <2>2. n - x \in R
    BY <2>1
  <2> QED
    BY <2>2
<1>2. PICK m \in R : \A k \in R : m <= k
  <2> HIDE DEF R
  <2> QED
    BY <1>1, LeastNumber
<1>3. PICK x \in S : m = n - x
  OBVIOUS
<1>4. \A y \in S : x >= y
  <2> TAKE y \in S
  <2>1. n - y \in R
    OBVIOUS
  <2> QED
    BY <1>2, <1>3, <2>1
<1>5. Max(S) \in S /\ \A y \in S : Max(S) >= y
  BY <1>3, <1>4, Zenon DEF Max
<1> QED
  BY <1>5

\* The cut before i is the last delimiter before it, if there is one.
LEMMA BeforeFacts ==
    ASSUME NEW s \in Seq(Symbol), NEW i \in 1 .. Len(s) + 1
    PROVE  /\ Before(s, i) \in 0 .. i - 1
           /\ Before(s, i) = 0 \/ Before(s, i) \in Delimiters(s)
           /\ \A d \in Delimiters(s) : d < i => d <= Before(s, i)
<1> DEFINE D == {0} \cup {d \in Delimiters(s) : d < i}
<1>1. Len(s) \in Nat /\ Delimiters(s) \subseteq 1 .. Len(s) /\ i \in Nat
  BY DEF Delimiters
<1>2. D \in SUBSET (0 .. Len(s)) /\ D # {}
  BY <1>1
<1>3. Max(D) \in D /\ \A y \in D : y <= Max(D)
  <2> HIDE DEF D
  <2> QED
    BY <1>1, <1>2, GreatestNumber
<1>4. Before(s, i) \in D /\ \A y \in D : y <= Before(s, i)
  BY <1>3 DEF Before
<1> QED
  BY <1>1, <1>4

\* Nothing else has these properties.
LEMMA BeforeIs ==
    ASSUME NEW s \in Seq(Symbol), NEW i \in 1 .. Len(s) + 1,
           NEW d \in 0 .. i - 1, d = 0 \/ d \in Delimiters(s),
           \A x \in Delimiters(s) : x < i => x <= d
    PROVE  Before(s, i) = d
<1> DEFINE c == Before(s, i)
<1>1. /\ c \in 0 .. i - 1
      /\ c = 0 \/ c \in Delimiters(s)
      /\ \A x \in Delimiters(s) : x < i => x <= c
  BY BeforeFacts
<1> HIDE DEF c
<1>2. c <= d
  BY <1>1
<1>3. d <= c
  BY <1>1
<1> QED
  BY <1>1, <1>2, <1>3 DEF c

\* A piece of a stream, place by place.
LEMMA Piece ==
    ASSUME NEW S, NEW s \in Seq(S), NEW m \in 1 .. Len(s) + 1,
           NEW n \in 0 .. Len(s)
    PROVE  /\ SubSeq(s, m, n) \in Seq(S)
           /\ Len(SubSeq(s, m, n)) = IF m <= n THEN n - m + 1 ELSE 0
           /\ \A i \in 1 .. n - m + 1 : SubSeq(s, m, n)[i] = s[m + i - 1]
<1>1. Len(s) \in Nat /\ m \in Int /\ n \in Int
  OBVIOUS
<1>2. \A i \in m .. n : i \in 1 .. Len(s)
  BY <1>1
<1>3. \A i \in m .. n : s[i] \in S
  BY <1>2, ElementOfSeq
<1> QED
  BY <1>1, <1>3, SubSeqProperties

\* A segment is a stream, as long as the distance between its ends.
LEMMA SegmentFacts ==
    ASSUME NEW s \in Seq(Symbol), NEW i \in 1 .. Len(s) + 1
    PROVE  /\ Segment(s, i) \in Seq(Symbol)
           /\ Len(Segment(s, i)) = i - 1 - Before(s, i)
<1> DEFINE c == Before(s, i)
<1>1. c \in 0 .. i - 1 /\ Len(s) \in Nat
  BY BeforeFacts
<1> HIDE DEF c
<1>2. c + 1 \in 1 .. Len(s) + 1 /\ i - 1 \in 0 .. Len(s)
  BY <1>1
<1>3. /\ SubSeq(s, c + 1, i - 1) \in Seq(Symbol)
      /\ Len(SubSeq(s, c + 1, i - 1)) =
             IF c + 1 <= i - 1 THEN (i - 1) - (c + 1) + 1 ELSE 0
  BY <1>2, Piece
<1>4. Len(SubSeq(s, c + 1, i - 1)) = i - 1 - c
  BY <1>1, <1>3
<1> QED
  BY <1>3, <1>4 DEF c, Segment

\* What arrives later changes no segment that is already complete.
LEMMA PrefixSegments ==
    ASSUME NEW s \in Seq(Symbol), NEW t \in Seq(Symbol),
           NEW i \in 1 .. Len(s) + 1
    PROVE  /\ i <= Len(s) => (i \in Delimiters(s \o t)
                                  <=> i \in Delimiters(s))
           /\ Before(s \o t, i) = Before(s, i)
           /\ Segment(s \o t, i) = Segment(s, i)
<1> DEFINE u == s \o t
           c == Before(s, i)
<1>1. /\ u \in Seq(Symbol) /\ Len(u) = Len(s) + Len(t)
      /\ Len(s) \in Nat /\ Len(t) \in Nat
      /\ \A k \in 1 .. Len(s) : u[k] = s[k]
      /\ DOMAIN u = 1 .. Len(u) /\ DOMAIN s = 1 .. Len(s)
  BY ConcatProperties
<1>2. \A d \in 1 .. Len(s) : d \in Delimiters(u) <=> d \in Delimiters(s)
  BY <1>1 DEF Delimiters
<1>3. /\ c \in 0 .. i - 1
      /\ c = 0 \/ c \in Delimiters(s)
      /\ \A x \in Delimiters(s) : x < i => x <= c
  BY BeforeFacts
<1>4. SubSeq(u, c + 1, i - 1) = SubSeq(s, c + 1, i - 1)
  <2>1. CASE c + 1 <= i - 1
    <3>1. c + 1 \in 1 .. Len(s) /\ i - 1 \in 1 .. Len(s)
      BY <1>1, <1>3, <2>1
    <3> HIDE DEF c
    <3> QED
      BY <3>1, SubSeqOfConcat1
  <2>2. CASE ~(c + 1 <= i - 1)
    <3>1. c + 1 \in Int /\ i - 1 \in Int /\ c + 1 > i - 1
      BY <1>1, <1>3, <2>2
    <3> HIDE DEF c
    <3>2. SubSeq(u, c + 1, i - 1) = <<>> /\ SubSeq(s, c + 1, i - 1) = <<>>
      BY <3>1, SubSeqEmpty
    <3> QED
      BY <3>2
  <2> QED
    BY <2>1, <2>2
<1> HIDE DEF u, c
<1>5. Before(u, i) = c
  <2>1. i \in 1 .. Len(u) + 1
    BY <1>1
  <2>2. c = 0 \/ c \in Delimiters(u)
    BY <1>1, <1>2, <1>3
  <2>3. \A x \in Delimiters(u) : x < i => x <= c
    <3> SUFFICES ASSUME NEW x \in Delimiters(u), x < i PROVE x <= c
      OBVIOUS
    <3>1. x \in 1 .. Len(s)
      BY <1>1 DEF Delimiters
    <3> QED
      BY <1>2, <1>3, <3>1
  <2> QED
    BY <1>1, <1>3, <2>1, <2>2, <2>3, BeforeIs
<1>6. i <= Len(s) => (i \in Delimiters(u) <=> i \in Delimiters(s))
  BY <1>1, <1>2
<1>7. Segment(u, i) = Segment(s, i)
  BY <1>4, <1>5 DEF c, Segment
<1> QED
  BY <1>5, <1>6, <1>7 DEF u, c

\* So the ends of a longer stream are, as far as the old one goes, the old
\* ones.
LEMMA PrefixEnds ==
    ASSUME NEW s \in Seq(Symbol), NEW t \in Seq(Symbol),
           NEW i \in 1 .. Len(s)
    PROVE  i \in Ends(s \o t) <=> i \in Ends(s)
<1>1. i \in 1 .. Len(s) + 1 /\ i <= Len(s)
  OBVIOUS
<1> QED
  BY <1>1, PrefixSegments DEF Ends

\* What is left of a stream, cut after b, is cut further where the stream is;
\* its first segment is the end of one of the stream's.
LEMMA SuffixSegments ==
    ASSUME NEW u \in Seq(Symbol), NEW b \in 0 .. Len(u), NEW v,
           v = SubSeq(u, b + 1, Len(u)), NEW i \in 1 .. Len(v) + 1
    PROVE  /\ v \in Seq(Symbol) /\ Len(v) = Len(u) - b
           /\ i <= Len(v) => (i \in Delimiters(v)
                                  <=> b + i \in Delimiters(u))
           /\ Before(u, b + i) = IF Before(v, i) # 0 THEN b + Before(v, i)
                                 ELSE Before(u, b + 1)
           /\ Segment(v, i) = SubSeq(u, b + Before(v, i) + 1, b + i - 1)
<1> DEFINE c == Before(v, i)
           a == Before(u, b + 1)
<1>1. Len(u) \in Nat /\ b \in Nat /\ b + 1 \in 1 .. Len(u) + 1
      /\ Len(u) \in 0 .. Len(u)
  OBVIOUS
<1>2. /\ v \in Seq(Symbol) /\ Len(v) = Len(u) - b
      /\ \A k \in 1 .. Len(u) - b : v[k] = u[b + k]
  <2>1. /\ v \in Seq(Symbol)
        /\ Len(v) = IF b + 1 <= Len(u) THEN Len(u) - (b + 1) + 1 ELSE 0
        /\ \A k \in 1 .. Len(u) - (b + 1) + 1 : v[k] = u[(b + 1) + k - 1]
    BY <1>1, Piece
  <2>2. Len(v) = Len(u) - b
    BY <1>1, <2>1, SMTT(30)
  <2>3. ASSUME NEW k \in 1 .. Len(u) - b PROVE v[k] = u[b + k]
    <3>1. k \in 1 .. Len(u) - (b + 1) + 1 /\ (b + 1) + k - 1 = b + k
      BY <1>1, SMTT(30)
    <3> QED
      BY <2>1, <3>1
  <2> QED
    BY <2>1, <2>2, <2>3
<1>3. /\ \A k \in 1 .. Len(v) : k \in Delimiters(v) <=> b + k \in Delimiters(u)
      /\ Delimiters(v) \subseteq 1 .. Len(v)
      /\ Delimiters(u) \subseteq 1 .. Len(u)
  <2>1. DOMAIN v = 1 .. Len(v) /\ DOMAIN u = 1 .. Len(u)
    BY <1>2
  <2>2. \A k \in 1 .. Len(v) : b + k \in 1 .. Len(u) /\ v[k] = u[b + k]
    BY <1>1, <1>2
  <2> QED
    BY <2>1, <2>2, ZenonT(60) DEF Delimiters
<1>4. /\ c \in 0 .. i - 1
      /\ c = 0 \/ c \in Delimiters(v)
      /\ \A x \in Delimiters(v) : x < i => x <= c
  BY <1>2, BeforeFacts
<1>5. /\ a \in 0 .. b
      /\ a = 0 \/ a \in Delimiters(u)
      /\ \A x \in Delimiters(u) : x < b + 1 => x <= a
  <2>1. b + 1 - 1 = b
    BY <1>1
  <2> QED
    BY <1>1, <2>1, BeforeFacts
<1> HIDE DEF c, a
<1>6. b + i \in 1 .. Len(u) + 1 /\ i \in Nat
  BY <1>1, <1>2
<1>7. Before(u, b + i) = IF c # 0 THEN b + c ELSE a
  <2>1. CASE c # 0
    <3>1. b + c \in 0 .. (b + i) - 1 /\ b + c \in Delimiters(u)
      BY <1>1, <1>3, <1>4, <1>6, <2>1
    <3>2. \A x \in Delimiters(u) : x < b + i => x <= b + c
      <4> SUFFICES ASSUME NEW x \in Delimiters(u), x < b + i
                   PROVE  x <= b + c
        OBVIOUS
      <4>1. CASE x <= b
        BY <1>1, <1>3, <1>4, <4>1
      <4>2. CASE x > b
        <5>1. x - b \in 1 .. Len(v) /\ b + (x - b) = x /\ x - b < i
          BY <1>1, <1>2, <1>3, <1>6, <4>2
        <5>2. x - b <= c
          BY <1>3, <1>4, <5>1
        <5> QED
          BY <1>1, <1>3, <1>4, <1>6, <5>1, <5>2
      <4> QED
        BY <1>1, <1>3, <4>1, <4>2
    <3> QED
      BY <1>6, <2>1, <3>1, <3>2, BeforeIs
  <2>2. CASE c = 0
    <3>1. a \in 0 .. (b + i) - 1
      BY <1>1, <1>5, <1>6
    <3>2. \A x \in Delimiters(u) : x < b + i => x <= a
      <4> SUFFICES ASSUME NEW x \in Delimiters(u), x < b + i
                   PROVE  x <= a
        OBVIOUS
      <4>1. ASSUME x > b PROVE FALSE
        <5>1. x - b \in 1 .. Len(v) /\ b + (x - b) = x /\ x - b < i
          BY <1>1, <1>2, <1>3, <1>6, <4>1
        <5>2. x - b <= 0
          BY <1>3, <1>4, <2>2, <5>1
        <5> QED
          BY <5>1, <5>2
      <4> QED
        BY <1>1, <1>3, <1>5, <4>1
    <3> QED
      BY <1>5, <1>6, <2>2, <3>1, <3>2, BeforeIs
  <2> QED
    BY <2>1, <2>2
<1>8. Segment(v, i) = SubSeq(u, b + c + 1, b + i - 1)
  <2> DEFINE l == SubSeq(v, c + 1, i - 1)
             r == SubSeq(u, b + c + 1, b + i - 1)
  <2>1. /\ c + 1 \in 1 .. Len(v) + 1 /\ i - 1 \in 0 .. Len(v)
        /\ b + c + 1 \in 1 .. Len(u) + 1 /\ b + i - 1 \in 0 .. Len(u)
    BY <1>1, <1>2, <1>4
  <2>2. /\ l \in Seq(Symbol)
        /\ Len(l) = IF c + 1 <= i - 1 THEN (i - 1) - (c + 1) + 1 ELSE 0
        /\ \A k \in 1 .. (i - 1) - (c + 1) + 1 : l[k] = v[(c + 1) + k - 1]
    <3>1. v \in Seq(Symbol)
      BY <1>2
    <3>2. c + 1 \in 1 .. Len(v) + 1 /\ i - 1 \in 0 .. Len(v)
      BY <2>1
    <3> QED
      BY <3>1, <3>2, Piece, Zenon
  <2>3. /\ r \in Seq(Symbol)
        /\ Len(r) = IF b + c + 1 <= b + i - 1
                    THEN (b + i - 1) - (b + c + 1) + 1 ELSE 0
        /\ \A k \in 1 .. (b + i - 1) - (b + c + 1) + 1 :
               r[k] = u[(b + c + 1) + k - 1]
    BY <2>1, Piece
  <2> HIDE DEF l, r
  <2>4. Len(l) = Len(r) /\ Len(l) = i - 1 - c
    BY <1>1, <1>4, <1>6, <2>2, <2>3
  <2>5. ASSUME NEW k \in 1 .. Len(l) PROVE l[k] = r[k]
    <3>1. /\ k \in 1 .. (i - 1) - (c + 1) + 1 /\ (c + 1) + k - 1 = c + k
          /\ k \in 1 .. (b + i - 1) - (b + c + 1) + 1
          /\ (b + c + 1) + k - 1 = b + (c + k)
          /\ c + k \in 1 .. Len(u) - b
      BY <1>1, <1>2, <1>4, <1>6, <2>4
    <3>2. l[k] = v[c + k] /\ r[k] = u[b + (c + k)]
      BY <2>2, <2>3, <3>1
    <3> QED
      BY <1>2, <3>1, <3>2
  <2>6. l = r
    BY <2>2, <2>3, <2>4, <2>5, SeqEqual
  <2> QED
    BY <2>6 DEF l, r, c, Segment
<1> QED
  BY <1>2, <1>3, <1>7, <1>8 DEF c, a

\* Only a segment as long as a frame can be one.
LEMMA DecodedFacts ==
    ASSUME NEW s \in Seq(Symbol)
    PROVE  Decoded(s) \in Nat /\ (Len(s) # FrameLength => Decoded(s) = 0)
<1> DEFINE f == s[1].frame
           t == [i \in 1 .. FrameLength |-> [frame |-> f, pos |-> i]]
<1>1. FrameLength \in Nat \ {0} /\ MaxFrames \in Nat
  BY GroundStationAssumption
<1>2. s = t => Len(s) = FrameLength /\ f \in Nat
  <2> SUFFICES ASSUME s = t PROVE Len(s) = FrameLength /\ f \in Nat
    OBVIOUS
  <2>1. DOMAIN s = 1 .. FrameLength /\ DOMAIN s = 1 .. Len(s)
        /\ Len(s) \in Nat
    <3>1. DOMAIN t = 1 .. FrameLength
      OBVIOUS
    <3> HIDE DEF t
    <3>2. DOMAIN s = 1 .. Len(s) /\ Len(s) \in Nat
      OBVIOUS
    <3> QED
      BY <3>1, <3>2
  <2>2. Len(s) = FrameLength
    BY <1>1, <2>1
  <2>3. s[1] \in Symbol
    BY <1>1, <2>2, ElementOfSeq
  <2>4. f \in Nat
    BY <1>1, <2>3 DEF Symbol
  <2> QED
    BY <2>2, <2>4
<1>3. Decoded(s) = IF s = t THEN f ELSE 0
  BY DEF Decoded
<1> HIDE DEF f, t
<1> QED
  BY <1>2, <1>3

\* What a read joins to the tail of a stream is the tail of the longer one.
LEMMA JoinedTail ==
    ASSUME NEW u \in Seq(Symbol), NEW w \in Seq(Symbol),
           NEW b \in 0 .. Len(u)
    PROVE  SubSeq(u, b + 1, Len(u)) \o w
               = SubSeq(u \o w, b + 1, Len(u \o w))
<1> DEFINE t == u \o w
           l == SubSeq(u, b + 1, Len(u))
           r == SubSeq(t, b + 1, Len(t))
<1>1. /\ t \in Seq(Symbol) /\ Len(t) = Len(u) + Len(w)
      /\ Len(u) \in Nat /\ Len(w) \in Nat /\ b \in Nat
      /\ \A k \in 1 .. Len(u) + Len(w) :
             t[k] = IF k <= Len(u) THEN u[k] ELSE w[k - Len(u)]
  BY ConcatProperties
<1>2. /\ l \in Seq(Symbol)
      /\ Len(l) = IF b + 1 <= Len(u) THEN Len(u) - (b + 1) + 1 ELSE 0
      /\ \A k \in 1 .. Len(u) - (b + 1) + 1 : l[k] = u[(b + 1) + k - 1]
  <2>1. b + 1 \in 1 .. Len(u) + 1 /\ Len(u) \in 0 .. Len(u)
    BY <1>1
  <2> QED
    BY <2>1, Piece, Zenon
<1> HIDE DEF t, l
<1>3. /\ r \in Seq(Symbol)
      /\ Len(r) = IF b + 1 <= Len(t) THEN Len(t) - (b + 1) + 1 ELSE 0
      /\ \A k \in 1 .. Len(t) - (b + 1) + 1 : r[k] = t[(b + 1) + k - 1]
  <2>1. b + 1 \in 1 .. Len(t) + 1 /\ Len(t) \in 0 .. Len(t)
    BY <1>1
  <2> QED
    BY <1>1, <2>1, Piece, Zenon
<1> HIDE DEF r
<1>4. Len(l) = Len(u) - b /\ Len(r) = Len(u) + Len(w) - b
  BY <1>1, <1>2, <1>3
<1>5. /\ l \o w \in Seq(Symbol) /\ Len(l \o w) = Len(l) + Len(w)
      /\ \A k \in 1 .. Len(l) + Len(w) :
             (l \o w)[k] = IF k <= Len(l) THEN l[k] ELSE w[k - Len(l)]
  BY <1>2, ConcatProperties
<1>6. ASSUME NEW k \in 1 .. Len(l \o w) PROVE (l \o w)[k] = r[k]
  <2>1. /\ k \in 1 .. Len(l) + Len(w)
        /\ b + k \in 1 .. Len(u) + Len(w)
        /\ k \in 1 .. Len(t) - (b + 1) + 1 /\ (b + 1) + k - 1 = b + k
    BY <1>1, <1>4, <1>5
  <2>2. r[k] = t[b + k]
    BY <1>3, <2>1
  <2>3. CASE k <= Len(l)
    <3>1. /\ k \in 1 .. Len(u) - (b + 1) + 1 /\ b + k <= Len(u)
      BY <1>1, <1>4, <2>1, <2>3
    <3>2. l[k] = u[b + k]
      BY <1>2, <2>1, <3>1
    <3> QED
      BY <1>1, <1>5, <2>1, <2>2, <2>3, <3>1, <3>2
  <2>4. CASE ~(k <= Len(l))
    <3>1. ~(b + k <= Len(u)) /\ (b + k) - Len(u) = k - Len(l)
      BY <1>1, <1>4, <2>1, <2>4
    <3> QED
      BY <1>1, <1>5, <2>1, <2>2, <2>4, <3>1
  <2> QED
    BY <2>3, <2>4
<1>7. l \o w = r
  <2>1. Len(l \o w) = Len(r)
    BY <1>1, <1>4, <1>5
  <2> QED
    BY <1>3, <1>5, <1>6, <2>1, SeqEqual
<1> QED
  BY <1>7 DEF l, r, t

\* A chunk w makes t of the stream u, and v of what was left of it from b on.
Joined(u, w, b, t, v) == t = u \o w /\ v = SubSeq(t, b + 1, Len(t))

\* A read cuts what was left of the stream, from b on, at the delimiters that
\* the chunk brought.  Each segment is one of the stream's, or it is the rest
\* of one that is longer by what was lost of it; and so is what is left then.
LEMMA ReadCuts ==
    ASSUME NEW u \in Seq(Symbol), NEW w \in Seq(Symbol),
           NEW b \in Before(u, Len(u) + 1) .. Len(u), NEW t, NEW v,
           Joined(u, w, b, t, v)
    PROVE  /\ t \in Seq(Symbol) /\ v \in Seq(Symbol)
           /\ Len(t) = Len(u) + Len(w) /\ Len(v) = Len(t) - b
           /\ Len(u) \in Nat /\ Len(w) \in Nat /\ b \in Nat
           /\ \A j \in 1 .. Len(v) : j \in Delimiters(v)
                                         <=> b + j \in Delimiters(t)
           /\ \A j \in Delimiters(v) : b + j > Len(u)
           /\ \A j \in 1 .. Len(v) + 1 :
                  /\ Segment(v, j)
                         = SubSeq(t, b + Before(v, j) + 1, b + j - 1)
                  /\ IF Before(v, j) # 0
                     THEN Before(t, b + j) = b + Before(v, j)
                     ELSE Before(t, b + j) = Before(u, Len(u) + 1)
<1> DEFINE a == Before(u, Len(u) + 1)
<1>1. Len(u) \in Nat /\ Len(w) \in Nat /\ Len(u) + 1 \in 1 .. Len(u) + 1
  OBVIOUS
<1>2. /\ a \in 0 .. (Len(u) + 1) - 1
      /\ a = 0 \/ a \in Delimiters(u)
      /\ \A d \in Delimiters(u) : d < Len(u) + 1 => d <= a
  BY <1>1, BeforeFacts
<1>3. Delimiters(u) \subseteq 1 .. Len(u)
  BY DEF Delimiters
<1> HIDE DEF a
<1>4. t \in Seq(Symbol) /\ Len(t) = Len(u) + Len(w)
  BY ConcatProperties DEF Joined
<1>5. b \in Nat /\ a <= b /\ b <= Len(u) /\ b \in 0 .. Len(t) /\ a \in Nat
  BY <1>1, <1>2, <1>4 DEF a
<1>6. Before(t, b + 1) = a
  <2>1. b + 1 \in 1 .. Len(u) + 1
    BY <1>1, <1>5
  <2>2. Before(t, b + 1) = Before(u, b + 1)
    BY <2>1, PrefixSegments DEF Joined
  <2>3. a \in 0 .. (b + 1) - 1
    BY <1>5
  <2>4. \A d \in Delimiters(u) : d < b + 1 => d <= a
    BY <1>1, <1>2, <1>3, <1>5
  <2>5. Before(u, b + 1) = a
    BY <1>2, <2>1, <2>3, <2>4, BeforeIs
  <2> QED
    BY <2>2, <2>5
<1>7. ASSUME NEW j \in 1 .. Len(v) + 1
      PROVE  /\ v \in Seq(Symbol) /\ Len(v) = Len(t) - b
             /\ j <= Len(v) => (j \in Delimiters(v)
                                    <=> b + j \in Delimiters(t))
             /\ Before(t, b + j) = IF Before(v, j) # 0
                                   THEN b + Before(v, j)
                                   ELSE Before(t, b + 1)
             /\ Segment(v, j) = SubSeq(t, b + Before(v, j) + 1, b + j - 1)
  <2>1. b \in 0 .. Len(t)
    BY <1>5
  <2>2. t \in Seq(Symbol)
    BY <1>4
  <2>3. v = SubSeq(t, b + 1, Len(t))
    BY DEF Joined
  <2>4. \A x : x = SubSeq(t, b + 1, Len(t)) =>
            \A i \in 1 .. Len(x) + 1 :
                /\ x \in Seq(Symbol) /\ Len(x) = Len(t) - b
                /\ i <= Len(x) => (i \in Delimiters(x)
                                       <=> b + i \in Delimiters(t))
                /\ Before(t, b + i) = IF Before(x, i) # 0
                                      THEN b + Before(x, i)
                                      ELSE Before(t, b + 1)
                /\ Segment(x, i) = SubSeq(t, b + Before(x, i) + 1, b + i - 1)
    BY <2>1, <2>2, SuffixSegments, Zenon
  <2> QED
    BY <2>3, <2>4, Zenon
<1>8. v \in Seq(Symbol) /\ Len(v) = Len(t) - b /\ Len(v) \in Nat
  <2>1. b + 1 \in 1 .. Len(t) + 1 /\ Len(t) \in 0 .. Len(t)
    BY <1>1, <1>4, <1>5
  <2>2. /\ v \in Seq(Symbol)
        /\ Len(v) = IF b + 1 <= Len(t) THEN Len(t) - (b + 1) + 1 ELSE 0
    BY <1>4, <2>1, Piece, Zenon DEF Joined
  <2> QED
    BY <1>1, <1>4, <1>5, <2>2
<1>9. \A j \in 1 .. Len(v) : j \in Delimiters(v) <=> b + j \in Delimiters(t)
  <2> TAKE j \in 1 .. Len(v)
  <2>1. j \in 1 .. Len(v) + 1 /\ j <= Len(v)
    BY <1>8
  <2> QED
    BY <1>7, <2>1
<1>10. \A j \in Delimiters(v) : b + j > Len(u)
  <2> TAKE j \in Delimiters(v)
  <2>1. j \in 1 .. Len(v)
    BY <1>8 DEF Delimiters
  <2>2. ASSUME b + j <= Len(u) PROVE FALSE
    <3>1. b + j \in 1 .. Len(u) + 1
      BY <1>1, <1>5, <2>1, <2>2
    <3>2. b + j \in Delimiters(u)
      <4>1. b + j \in Delimiters(t)
        BY <1>9, <2>1
      <4> QED
        BY <2>2, <3>1, <4>1, PrefixSegments DEF Joined
    <3> QED
      BY <1>1, <1>2, <1>5, <2>1, <2>2, <3>2
  <2> QED
    BY <1>1, <1>5, <2>1, <2>2
<1>11. ASSUME NEW j \in 1 .. Len(v) + 1
       PROVE  /\ Segment(v, j) = SubSeq(t, b + Before(v, j) + 1, b + j - 1)
              /\ IF Before(v, j) # 0
                 THEN Before(t, b + j) = b + Before(v, j)
                 ELSE Before(t, b + j) = a
  BY <1>6, <1>7
<1> QED
  BY <1>1, <1>4, <1>5, <1>8, <1>9, <1>10, <1>11 DEF a

\* The ends behind place c of a stream, and those up to it that are the ends
\* of frames.
EndsAfter(s, c) == {i \in Ends(s) : i > c}
FramesUpTo(s, c) == {i \in Ends(s) : i <= c /\ Decoded(Segment(s, i)) # 0}

\* What a list of ends stands for: segments, and the frames in them.
SegmentsAt(s, e) == [k \in DOMAIN e |-> Segment(s, e[k])]
FramesAt(s, e) == [k \in DOMAIN e |-> Decoded(Segment(s, e[k]))]

\* If nothing of the stream was lost, a read cuts it where it is cut.
LEMMA ReadCutsStream ==
    ASSUME NEW u \in Seq(Symbol), NEW w \in Seq(Symbol), NEW b, NEW t, NEW v,
           b = Before(u, Len(u) + 1), Joined(u, w, b, t, v)
    PROVE  /\ \A j \in 1 .. Len(v) + 1 : Segment(v, j) = Segment(t, b + j)
           /\ EndsAfter(t, Len(u)) = {b + j : j \in Ends(v)}
<1>1. b \in 0 .. Len(u) /\ b \in b .. Len(u)
  <2>1. Len(u) \in Nat /\ Len(u) + 1 \in 1 .. Len(u) + 1
    OBVIOUS
  <2>2. b \in 0 .. (Len(u) + 1) - 1
    BY <2>1, BeforeFacts, Zenon
  <2> QED
    BY <2>1, <2>2
<1>2. b \in Before(u, Len(u) + 1) .. Len(u)
  BY <1>1
<1>3. /\ t \in Seq(Symbol) /\ v \in Seq(Symbol)
      /\ Len(t) = Len(u) + Len(w) /\ Len(v) = Len(t) - b
      /\ Len(u) \in Nat /\ Len(w) \in Nat /\ b \in Nat
      /\ \A j \in 1 .. Len(v) : j \in Delimiters(v)
                                    <=> b + j \in Delimiters(t)
      /\ \A j \in Delimiters(v) : b + j > Len(u)
      /\ \A j \in 1 .. Len(v) + 1 :
             /\ Segment(v, j) = SubSeq(t, b + Before(v, j) + 1, b + j - 1)
             /\ IF Before(v, j) # 0 THEN Before(t, b + j) = b + Before(v, j)
                ELSE Before(t, b + j) = Before(u, Len(u) + 1)
  BY <1>2, ReadCuts, SMTT(60)
<1>4. ASSUME NEW j \in 1 .. Len(v) + 1
      PROVE  Segment(v, j) = Segment(t, b + j)
  <2>1. Before(t, b + j) = b + Before(v, j)
    BY <1>3
  <2>2. (b + j) - 1 = b + j - 1
    BY <1>3
  <2>3. Segment(t, b + j) = SubSeq(t, Before(t, b + j) + 1, b + j - 1)
    BY <2>2, Zenon DEF Segment
  <2> QED
    BY <1>3, <2>1, <2>3
<1>5. Delimiters(v) \subseteq 1 .. Len(v) /\ Delimiters(t) \subseteq 1 .. Len(t)
  BY <1>3 DEF Delimiters
<1>6. ASSUME NEW j \in Ends(v) PROVE b + j \in EndsAfter(t, Len(u))
  <2>1. j \in Delimiters(v) /\ Segment(v, j) # <<>>
    BY DEF Ends
  <2>2. j \in 1 .. Len(v) /\ j \in 1 .. Len(v) + 1
    BY <1>3, <1>5, <2>1
  <2> QED
    BY <1>3, <1>4, <2>1, <2>2 DEF Ends, EndsAfter
<1>7. ASSUME NEW i \in EndsAfter(t, Len(u))
      PROVE  i - b \in Ends(v) /\ i = b + (i - b)
  <2>1. i \in Delimiters(t) /\ Segment(t, i) # <<>> /\ i > Len(u)
    BY DEF Ends, EndsAfter
  <2>2. /\ i - b \in 1 .. Len(v) /\ i - b \in 1 .. Len(v) + 1
        /\ b + (i - b) = i
    BY <1>1, <1>3, <1>5, <2>1, SMTT(30)
  <2>3. i - b \in Delimiters(v) /\ Segment(v, i - b) = Segment(t, i)
    BY <1>3, <1>4, <2>1, <2>2
  <2> QED
    BY <2>1, <2>2, <2>3 DEF Ends
<1>8. EndsAfter(t, Len(u)) \subseteq {b + j : j \in Ends(v)}
  BY <1>7
<1>9. {b + j : j \in Ends(v)} \subseteq EndsAfter(t, Len(u))
  BY <1>6
<1> QED
  BY <1>4, <1>8, <1>9

\* Splitting a stream gives the segments at its ends, in order.
LEMMA SegmentsAreListed ==
    ASSUME NEW s \in Seq(Symbol)
    PROVE  /\ IsOrder(InOrder(Ends(s)), Ends(s))
           /\ Segments(s) = SegmentsAt(s, InOrder(Ends(s)))
           /\ Segments(s) \in Seq(Seq(Symbol))
           /\ \A i \in Ends(s) : \E k \in DOMAIN Segments(s) :
                                     Segments(s)[k] = Segment(s, i)
<1> DEFINE e == InOrder(Ends(s))
<1>1. Ends(s) \in SUBSET (1 .. Len(s)) /\ Len(s) \in Nat
  BY DEF Ends, Delimiters
<1>2. IsOrder(e, Ends(s))
  BY <1>1, InOrderLists
<1>3. Segments(s) = SegmentsAt(s, e)
  BY DEF Segments, SegmentsAt
<1> HIDE DEF e
<1>4. e \in Seq(Ends(s)) /\ \A i \in Ends(s) : \E k \in DOMAIN e : e[k] = i
  BY <1>2 DEF IsOrder
<1>5. /\ DOMAIN e = 1 .. Len(e) /\ Len(e) \in Nat
      /\ \A k \in DOMAIN e : e[k] \in Ends(s)
  BY <1>4
<1>6. \A k \in 1 .. Len(e) : Segment(s, e[k]) \in Seq(Symbol)
  <2> TAKE k \in 1 .. Len(e)
  <2>1. e[k] \in 1 .. Len(s) + 1
    BY <1>1, <1>5
  <2> QED
    BY <2>1, SegmentFacts
<1>7. Segments(s) \in [1 .. Len(e) -> Seq(Symbol)]
  BY <1>3, <1>5, <1>6 DEF SegmentsAt
<1>8. Segments(s) \in Seq(Seq(Symbol))
  BY <1>5, <1>7, SeqDef
<1>9. \A i \in Ends(s) : \E k \in DOMAIN Segments(s) :
                             Segments(s)[k] = Segment(s, i)
  BY <1>3, <1>4 DEF SegmentsAt
<1> QED
  BY <1>2, <1>3, <1>8, <1>9 DEF e

-----------------------------------------------------------------------------
(* The stream: what was sent, what waits, and what was cut.                 *)

StreamTypes ==
    /\ next \in [frame : 1 .. MaxFrames + 1, pos : 0 .. FrameLength]
    /\ line \in Seq(Symbol) /\ buffer \in Seq(Symbol) /\ raw \in Seq(Symbol)
    /\ segments \in Seq(Seq(Symbol)) /\ accepted \in Seq(Nat)
    /\ pc \in {"read", "connect", "frames", "count", "report", "reset",
               "overflow", "check", "close", "exit", "done"}
    /\ pc \in {"read", "connect", "overflow", "check", "close"} =>
          segments = <<>>

\* Nothing has arrived at first.
LEMMA InitStream == Init => StreamTypes
<1>1. FrameLength \in Nat \ {0} /\ MaxFrames \in Nat
  BY GroundStationAssumption
<1> QED
  BY <1>1 DEF Init, StreamTypes

\* The transmitter sends symbols, and noise is made of symbols.
LEMMA SendTypes ==
    ASSUME StreamTypes, Send
    PROVE  StreamTypes'
<1>1. FrameLength \in Nat \ {0} /\ MaxFrames \in Nat
  BY GroundStationAssumption
<1>2. /\ next \in [frame : 1 .. MaxFrames + 1, pos : 0 .. FrameLength]
      /\ next.frame <= MaxFrames
  BY DEF StreamTypes, Send
<1>3. next' \in [frame : 1 .. MaxFrames + 1, pos : 0 .. FrameLength]
  <2>1. CASE next.pos = 0
    BY <1>1, <1>2, <2>1 DEF Send
  <2>2. CASE next.pos # 0
    <3> DEFINE m == (next.pos + 1) % (FrameLength + 1)
    <3>1. m \in 0 .. FrameLength
      BY <1>1, <1>2
    <3>2. next' = [next EXCEPT !.pos = m]
      BY <2>2 DEF Send
    <3> HIDE DEF m
    <3> QED
      BY <1>2, <3>1, <3>2
  <2> QED
    BY <2>1, <2>2
<1>4. next \in Symbol /\ Noise \subseteq Symbol
  BY <1>1, <1>2 DEF Symbol, Noise
<1>5. line' \in Seq(Symbol)
  <2>1. line' = line \/ \E x \in Symbol : line' = Append(line, x)
    BY <1>4 DEF Send
  <2>2. line \in Seq(Symbol)
    BY DEF StreamTypes
  <2>3. CASE line' = line
    BY <2>2, <2>3
  <2>4. ASSUME NEW x \in Symbol, line' = Append(line, x)
        PROVE  line' \in Seq(Symbol)
    BY <2>2, <2>4
  <2> QED
    BY <2>1, <2>3, <2>4
<1>6. UNCHANGED <<buffer, raw, segments, accepted, pc>>
  BY DEF Send, station
<1> QED
  BY <1>3, <1>5, <1>6 DEF StreamTypes

\* So does everything else that is cut from them.
LEMMA StepStream ==
    ASSUME StreamTypes, Next
    PROVE  StreamTypes'
<1> USE DEF transmitter, handle, station
<1>1. <<>> \in Seq(Symbol) /\ <<>> \in Seq(Nat)
  OBVIOUS
<1>2. CASE Open \/ Connected
  BY <1>1, <1>2 DEF Open, Connected, Emptied, StreamTypes
<1>3. CASE ReadFails \/ CloseHandle
  BY <1>1, <1>3 DEF ReadFails, CloseHandle, Emptied, StreamTypes
<1>4. ASSUME NEW n \in 0 .. Len(line), Read(n) PROVE StreamTypes'
  <2> DEFINE chunk == SubSeq(line, 1, n)
             joined == buffer \o chunk
  <2>1. /\ line' = SubSeq(line, n + 1, Len(line)) /\ raw' = raw \o chunk
        /\ segments' = Segments(joined) /\ buffer' = Rest(joined)
        /\ UNCHANGED <<next, accepted>> /\ pc' = "frames"
    BY <1>4 DEF Read
  <2>2. line \in Seq(Symbol) /\ Len(line) \in Nat /\ n \in Nat
    BY DEF StreamTypes
  <2>3. chunk \in Seq(Symbol)
    <3>1. 1 \in 1 .. Len(line) + 1
      BY <2>2
    <3> QED
      BY <2>2, <3>1, Piece
  <2>4. line' \in Seq(Symbol)
    <3>1. n + 1 \in 1 .. Len(line) + 1 /\ Len(line) \in 0 .. Len(line)
      BY <2>2
    <3> QED
      BY <2>1, <2>2, <3>1, Piece
  <2> HIDE DEF chunk
  <2>5. joined \in Seq(Symbol) /\ raw' \in Seq(Symbol)
    BY <2>1, <2>3 DEF StreamTypes
  <2> HIDE DEF joined
  <2>6. segments' \in Seq(Seq(Symbol))
    BY <2>1, <2>5, SegmentsAreListed
  <2>7. buffer' \in Seq(Symbol)
    <3>1. Len(joined) + 1 \in 1 .. Len(joined) + 1
      BY <2>5
    <3> QED
      BY <2>1, <2>5, <3>1, SegmentFacts DEF Rest
  <2> QED
    BY <2>1, <2>4, <2>5, <2>6, <2>7 DEF StreamTypes
<1>5. CASE Accept
  <2>1. /\ segments \in Seq(Seq(Symbol)) /\ segments # <<>>
        /\ segments' = Tail(segments) /\ pc = "frames" /\ pc' = pc
        /\ accepted' = Append(accepted, Decoded(Head(segments)))
        /\ UNCHANGED <<next, line, buffer, raw>>
    BY <1>5 DEF Accept, StreamTypes
  <2>2. Head(segments) \in Seq(Symbol) /\ Tail(segments) \in Seq(Seq(Symbol))
    BY <2>1
  <2>3. Decoded(Head(segments)) \in Nat
    BY <2>2, DecodedFacts
  <2> QED
    BY <2>1, <2>2, <2>3 DEF StreamTypes
<1>6. CASE Malformed
  <2>1. /\ segments \in Seq(Seq(Symbol)) /\ segments # <<>>
        /\ segments' = Tail(segments) /\ pc = "frames" /\ pc' = "count"
        /\ UNCHANGED <<next, line, buffer, raw, accepted>>
    BY <1>6 DEF Malformed, StreamTypes
  <2>2. Tail(segments) \in Seq(Seq(Symbol))
    BY <2>1
  <2> QED
    BY <2>1, <2>2 DEF StreamTypes
<1>7. CASE \/ CountMalformed \/ ReportMalformed \/ ResetMalformed
           \/ Overflow \/ ReportOverflow \/ Check
  BY <1>1, <1>7
  DEF CountMalformed, ReportMalformed, ResetMalformed, Overflow,
      ReportOverflow, Check, StreamTypes
<1>8. CASE Finish
  BY <1>1, <1>8 DEF Finish, StreamTypes
<1>9. CASE Send
  BY <1>9, SendTypes
<1>10. CASE Replug
  BY <1>10 DEF Replug, StreamTypes
<1>11. CASE Interrupt
  BY <1>11 DEF Interrupt, StreamTypes
<1> QED
  BY <1>2, <1>3, <1>4, <1>5, <1>6, <1>7, <1>8, <1>9, <1>10, <1>11
  DEF Next, Loop

-----------------------------------------------------------------------------
(* The buffer is the tail of the stream.                                    *)

\* What is left in the buffer starts at b: where the raw log was cut last, or
\* so much later, after the buffer was cleared, that the segment which was
\* cleared is longer than any frame.
IsTail(b) ==
    LET a == Before(raw, Len(raw) + 1)
    IN  /\ b \in a .. Len(raw)
        /\ buffer = SubSeq(raw, b + 1, Len(raw))
        /\ \/ b = a
           \/ b > a + FrameLength /\ (log.overflows # 0 \/ pc = "overflow")

BufferIsTail ==
    port # 0 /\ pc \notin {"connect", "exit", "done"} =>
        \E b \in Nat : IsTail(b)

\* In an empty stream there is nothing to cut.
LEMMA EmptyStream ==
    /\ <<>> \in Seq(Symbol) /\ Len(<<>>) = 0
    /\ Before(<<>>, 1) = 0 /\ Ends(<<>>) = {}
<1>1. <<>> \in Seq(Symbol) /\ Len(<<>>) = 0
  OBVIOUS
<1>2. Delimiters(<<>>) = {}
  BY DEF Delimiters
<1>3. 1 \in 1 .. Len(<<>>) + 1 /\ 0 \in 0 .. 1 - 1
  BY <1>1
<1>4. \A x \in Delimiters(<<>>) : x < 1 => x <= 0
  BY <1>2
<1>5. Before(<<>>, 1) = 0
  BY <1>1, <1>3, <1>4, BeforeIs
<1> QED
  BY <1>1, <1>2, <1>5 DEF Ends

\* The last cut lies within the stream.
LEMMA LastCut ==
    ASSUME NEW s \in Seq(Symbol)
    PROVE  Before(s, Len(s) + 1) \in 0 .. Len(s) /\ Len(s) \in Nat
<1>1. Len(s) \in Nat /\ Len(s) + 1 \in 1 .. Len(s) + 1
  OBVIOUS
<1>2. Before(s, Len(s) + 1) \in 0 .. (Len(s) + 1) - 1
  BY <1>1, BeforeFacts
<1> QED
  BY <1>1, <1>2

\* A read cuts what was left, with the chunk behind it.
LEMMA ReadOfTail ==
    ASSUME StreamTypes, NEW n \in 0 .. Len(line), Read(n),
           NEW b \in Nat, IsTail(b)
    PROVE  \E w, v \in Seq(Symbol) :
               /\ Joined(raw, w, b, raw', v)
               /\ segments' = Segments(v) /\ buffer' = Rest(v)
<1> DEFINE w == SubSeq(line, 1, n)
           v == buffer \o w
<1>1. /\ raw' = raw \o w /\ segments' = Segments(v) /\ buffer' = Rest(v)
  BY DEF Read
<1>2. line \in Seq(Symbol) /\ Len(line) \in Nat /\ n \in Nat
      /\ raw \in Seq(Symbol)
  BY DEF StreamTypes
<1>3. w \in Seq(Symbol)
  <2>1. 1 \in 1 .. Len(line) + 1
    BY <1>2
  <2> QED
    BY <1>2, <2>1, Piece
<1> HIDE DEF w
<1>4. b \in 0 .. Len(raw) /\ buffer = SubSeq(raw, b + 1, Len(raw))
  BY <1>2, LastCut DEF IsTail
<1>5. v = SubSeq(raw', b + 1, Len(raw'))
  BY <1>1, <1>2, <1>3, <1>4, JoinedTail
<1>6. v \in Seq(Symbol)
  BY <1>3 DEF StreamTypes
<1> HIDE DEF v
<1> QED
  BY <1>1, <1>3, <1>5, <1>6 DEF Joined

\* And leaves what is behind the last cut of what it joined.
LEMMA ReadKeepsTail ==
    ASSUME StreamTypes, NEW n \in 0 .. Len(line), Read(n),
           NEW b \in Nat, IsTail(b)
    PROVE  \E c \in Nat : IsTail(c)'
<1> DEFINE a == Before(raw, Len(raw) + 1)
           d == Before(raw', Len(raw') + 1)
<1>1. PICK w, v \in Seq(Symbol) :
          /\ Joined(raw, w, b, raw', v)
          /\ segments' = Segments(v) /\ buffer' = Rest(v)
  BY ReadOfTail
<1>2. raw \in Seq(Symbol) /\ b \in a .. Len(raw) /\ a \in Nat
      /\ (b = a \/ (b > a + FrameLength /\ log.overflows # 0))
      /\ FrameLength \in Nat
  BY LastCut, GroundStationAssumption DEF StreamTypes, IsTail, Read
<1>3. /\ raw' \in Seq(Symbol) /\ v \in Seq(Symbol)
      /\ Len(raw') = Len(raw) + Len(w) /\ Len(v) = Len(raw') - b
      /\ Len(raw) \in Nat /\ Len(w) \in Nat
      /\ \A j \in 1 .. Len(v) + 1 :
             /\ Segment(v, j) = SubSeq(raw', b + Before(v, j) + 1, b + j - 1)
             /\ IF Before(v, j) # 0
                THEN Before(raw', b + j) = b + Before(v, j)
                ELSE Before(raw', b + j) = a
  BY <1>1, <1>2, ReadCuts, SMTT(60)
<1> DEFINE j == Len(v) + 1
           e == Before(v, j)
<1>4. /\ j \in 1 .. Len(v) + 1 /\ b + j = Len(raw') + 1
      /\ b + j - 1 = Len(raw')
      /\ e \in 0 .. Len(v) /\ Len(v) \in Nat
  <2>1. e \in 0 .. Len(v) /\ Len(v) \in Nat
    BY LastCut
  <2>2. Len(raw') \in Nat /\ Len(v) = Len(raw') - b
    BY <1>3
  <2> QED
    BY <1>2, <2>1, <2>2
<1>5. buffer' = SubSeq(raw', b + e + 1, Len(raw'))
  BY <1>1, <1>3, <1>4 DEF Rest
<1>6. IF e # 0 THEN d = b + e ELSE d = a
  BY <1>3, <1>4
<1>7. log' = log
  BY DEF Read
<1> HIDE DEF a, d, e, j
<1>8. /\ b + e \in d .. Len(raw') /\ b + e \in Nat
      /\ b + e = d \/ (b + e > d + FrameLength /\ log'.overflows # 0)
  BY <1>2, <1>3, <1>4, <1>6, <1>7, SMTT(30)
<1>9. IsTail(b + e)'
  BY <1>5, <1>8 DEF d, IsTail
<1> QED
  BY <1>8, <1>9

\* Nothing else touches the buffer, but to clear it.
LEMMA StepTail ==
    ASSUME StreamTypes, BooksInv, BufferIsTail, Next
    PROVE  BufferIsTail'
<1> USE DEF transmitter, handle, station
<1> DEFINE Kept == /\ UNCHANGED <<port, raw, buffer>>
                   /\ log'.overflows = log.overflows
                   /\ pc \notin {"connect", "overflow", "exit", "done"}
<1>1. ASSUME Kept PROVE BufferIsTail'
  BY <1>1 DEF BufferIsTail, IsTail
<1>2. ASSUME port' = 0 \/ pc' \in {"connect", "exit", "done"}
      PROVE  BufferIsTail'
  BY <1>2 DEF BufferIsTail
<1>3. CASE Connected
  <2>1. raw' = <<>> /\ buffer' = <<>>
    BY <1>3 DEF Connected, Emptied
  <2>2. SubSeq(<<>>, 0 + 1, 0) = <<>>
    OBVIOUS
  <2>3. IsTail(0)'
    BY <2>1, <2>2, EmptyStream DEF IsTail
  <2> QED
    BY <2>3 DEF BufferIsTail
<1>4. CASE Open \/ CloseHandle \/ Interrupt \/ Finish
  BY <1>2, <1>4 DEF Open, CloseHandle, Interrupt, Finish
<1>5. ASSUME NEW n \in 0 .. Len(line), Read(n) PROVE BufferIsTail'
  <2>1. PICK b \in Nat : IsTail(b)
    BY <1>5 DEF Read, BufferIsTail
  <2> QED
    BY <1>5, <2>1, ReadKeepsTail DEF BufferIsTail
<1>6. CASE Accept
  <2>1. PICK f : Track(Updated(f))
    BY <1>6 DEF Accept
  <2>2. log'.overflows = log.overflows
    BY <2>1 DEF Track, BooksInv, RecordFields
  <2> QED
    BY <1>1, <1>6, <2>2 DEF Accept
<1>7. CASE \/ ReadFails \/ Check \/ Malformed \/ CountMalformed
           \/ ReportMalformed \/ ResetMalformed
  <2>1. log'.overflows = log.overflows
    BY <1>7
    DEF ReadFails, Check, LogDisconnected, Malformed, CountMalformed,
        ReportMalformed, ResetMalformed, BooksInv, RecordFields
  <2>2. /\ UNCHANGED <<port, raw, buffer>>
        /\ pc \notin {"connect", "overflow", "exit", "done"}
    BY <1>7
    DEF ReadFails, Check, Malformed, CountMalformed, ReportMalformed,
        ResetMalformed
  <2> QED
    BY <1>1, <2>1, <2>2
<1>8. CASE Overflow
  <2>1. CASE port # 0
    <3> DEFINE a == Before(raw, Len(raw) + 1)
    <3>1. /\ buffer' = <<>> /\ raw' = raw /\ pc = "frames"
          /\ pc' = "overflow" /\ Len(buffer) > BufferLimit
      BY <1>8 DEF Overflow
    <3>2. PICK b \in Nat : IsTail(b)
      BY <2>1, <3>1 DEF BufferIsTail
    <3>3. /\ raw \in Seq(Symbol) /\ a \in 0 .. Len(raw) /\ Len(raw) \in Nat
          /\ FrameLength \in Nat /\ BufferLimit \in Nat
          /\ FrameLength <= BufferLimit
      BY LastCut, GroundStationAssumption DEF StreamTypes
    <3>4. b \in a .. Len(raw) /\ buffer = SubSeq(raw, b + 1, Len(raw))
      BY <3>2 DEF IsTail
    <3>5. Len(buffer) = Len(raw) - b
      <4>1. b + 1 \in 1 .. Len(raw) + 1 /\ Len(raw) \in 0 .. Len(raw)
        BY <3>3, <3>4
      <4>2. Len(buffer) = IF b + 1 <= Len(raw) THEN Len(raw) - (b + 1) + 1
                          ELSE 0
        BY <3>3, <3>4, <4>1, Piece
      <4> QED
        BY <3>3, <3>4, <4>2
    <3>6. Len(raw) > a + FrameLength
      BY <3>1, <3>3, <3>4, <3>5
    <3>7. SubSeq(raw, Len(raw) + 1, Len(raw)) = <<>>
      <4>1. Len(raw) + 1 \in Int /\ Len(raw) \in Int
            /\ Len(raw) + 1 > Len(raw)
        BY <3>3
      <4> QED
        BY <4>1, SubSeqEmpty
    <3>8. Len(raw) \in a .. Len(raw)
      BY <3>3
    <3> HIDE DEF a
    <3>9. IsTail(Len(raw))'
      BY <3>1, <3>6, <3>7, <3>8 DEF a, IsTail
    <3> QED
      BY <3>3, <3>9 DEF BufferIsTail
  <2>2. CASE port = 0
    BY <1>2, <1>8, <2>2 DEF Overflow
  <2> QED
    BY <2>1, <2>2
<1>9. CASE ReportOverflow
  <2>1. /\ UNCHANGED <<port, raw, buffer>> /\ pc = "overflow"
        /\ log' = [log EXCEPT !.overflows = @ + 1]
    BY <1>9 DEF ReportOverflow
  <2>2. log'.overflows # 0
    BY <2>1 DEF BooksInv, RecordFields, CountersAreNumbers
  <2> QED
    BY <2>1, <2>2 DEF BufferIsTail, IsTail
<1>10. CASE Send
  BY <1>10 DEF Send, BufferIsTail, IsTail
<1>11. CASE Replug
  BY <1>11 DEF Replug, BufferIsTail, IsTail
<1> QED
  BY <1>3, <1>4, <1>5, <1>6, <1>7, <1>8, <1>9, <1>10, <1>11
  DEF Next, Loop

-----------------------------------------------------------------------------
(* What was accepted, and what is still to be decoded.                      *)

\* The ends up to cut have been decoded, and those behind it have not.
InStep(cut, good, todo) ==
    /\ IsOrder(good, FramesUpTo(raw, cut)) /\ IsOrder(todo, EndsAfter(raw, cut))
    /\ accepted = FramesAt(raw, good) /\ segments = SegmentsAt(raw, todo)

\* As long as nothing was lost, the frames of the stream were accepted in
\* order, each once, up to some place, and the segments behind it are waiting.
AcceptedInOrder ==
    Running /\ log.overflows = 0 =>
        \E cut \in Nat : \E good, todo : InStep(cut, good, todo)

\* Whatever was lost, every frame of the stream was accepted or is waiting.
Heard(i) ==
    \/ \E k \in DOMAIN accepted : accepted[k] = Decoded(Segment(raw, i))
    \/ \E k \in DOMAIN segments : segments[k] = Segment(raw, i)

AllHeard ==
    Running =>
        \A i \in Ends(raw) : Decoded(Segment(raw, i)) # 0 => Heard(i)

\* The ends of a stream are places in it.
LEMMA EndsBounded ==
    ASSUME NEW s \in Seq(Symbol)
    PROVE  /\ Ends(s) \in SUBSET (1 .. Len(s)) /\ Len(s) \in Nat
           /\ Ends(s) \subseteq Nat
           /\ \A i \in Ends(s) : i \in 1 .. Len(s) + 1
BY DEF Ends, Delimiters

\* The segments and the frames at a list of ends are as many as the ends.
LEMMA ListedFacts ==
    ASSUME NEW s \in Seq(Symbol), NEW S \in SUBSET Ends(s), NEW e \in Seq(S)
    PROVE  /\ SegmentsAt(s, e) \in Seq(Seq(Symbol))
           /\ Len(SegmentsAt(s, e)) = Len(e)
           /\ FramesAt(s, e) \in Seq(Nat) /\ Len(FramesAt(s, e)) = Len(e)
<1>1. /\ DOMAIN e = 1 .. Len(e) /\ Len(e) \in Nat
      /\ \A k \in DOMAIN e : e[k] \in S
  OBVIOUS
<1>2. \A k \in 1 .. Len(e) : /\ Segment(s, e[k]) \in Seq(Symbol)
                             /\ Decoded(Segment(s, e[k])) \in Nat
  <2> TAKE k \in 1 .. Len(e)
  <2>1. e[k] \in 1 .. Len(s) + 1
    BY <1>1, EndsBounded
  <2> QED
    BY <2>1, SegmentFacts, DecodedFacts
<1> DEFINE g == SegmentsAt(s, e)
           f == FramesAt(s, e)
<1>3. g \in [1 .. Len(e) -> Seq(Symbol)] /\ f \in [1 .. Len(e) -> Nat]
  BY <1>1, <1>2 DEF SegmentsAt, FramesAt
<1> HIDE DEF f, g
<1>4. g \in Seq(Seq(Symbol)) /\ f \in Seq(Nat)
  BY <1>1, <1>3, SeqDef, SMTT(30)
<1>5. DOMAIN g = 1 .. Len(e) /\ DOMAIN f = 1 .. Len(e)
  BY <1>3
<1>6. Len(g) = Len(e) /\ Len(f) = Len(e)
  BY <1>1, <1>4, <1>5
<1> QED
  BY <1>4, <1>6 DEF f, g

\* The frames at a list that is one longer.
LEMMA FramesAppend ==
    ASSUME NEW s \in Seq(Symbol), NEW e \in Seq(Ends(s)), NEW x \in Ends(s)
    PROVE  FramesAt(s, Append(e, x))
               = Append(FramesAt(s, e), Decoded(Segment(s, x)))
<1> DEFINE d == Append(e, x)
           l == FramesAt(s, d)
           y == Decoded(Segment(s, x))
           r == Append(FramesAt(s, e), y)
<1>1. /\ d \in Seq(Ends(s)) /\ Len(d) = Len(e) + 1 /\ Len(e) \in Nat
      /\ DOMAIN d = 1 .. Len(e) + 1 /\ DOMAIN e = 1 .. Len(e)
      /\ \A k \in 1 .. Len(e) : d[k] = e[k]
      /\ d[Len(e) + 1] = x
  OBVIOUS
<1>2. y \in Nat
  BY EndsBounded, SegmentFacts, DecodedFacts
<1>3. /\ l \in Seq(Nat) /\ Len(l) = Len(e) + 1
      /\ FramesAt(s, e) \in Seq(Nat) /\ Len(FramesAt(s, e)) = Len(e)
  BY <1>1, ListedFacts
<1> HIDE DEF d, y
<1>4. /\ r \in Seq(Nat) /\ Len(r) = Len(e) + 1
      /\ \A k \in 1 .. Len(e) : r[k] = FramesAt(s, e)[k]
      /\ r[Len(e) + 1] = y
  BY <1>2, <1>3
<1>5. \A k \in 1 .. Len(e) + 1 : l[k] = Decoded(Segment(s, d[k]))
  BY <1>1 DEF FramesAt
<1>6. \A k \in 1 .. Len(e) : FramesAt(s, e)[k] = Decoded(Segment(s, e[k]))
  BY <1>1 DEF FramesAt
<1> HIDE DEF l, r
<1>7. ASSUME NEW k \in 1 .. Len(l) PROVE l[k] = r[k]
  <2>1. CASE k = Len(e) + 1
    BY <1>1, <1>3, <1>4, <1>5, <2>1 DEF y
  <2>2. CASE k # Len(e) + 1
    <3>1. k \in 1 .. Len(e) /\ k \in 1 .. Len(e) + 1
      BY <1>1, <1>3, <2>2
    <3> QED
      BY <1>1, <1>4, <1>5, <1>6, <3>1
  <2> QED
    BY <2>1, <2>2
<1>8. l = r
  BY <1>3, <1>4, <1>7, SeqEqual
<1> QED
  BY <1>8 DEF l, r, d, y

\* The segments at a list without its first end.
LEMMA SegmentsTail ==
    ASSUME NEW s \in Seq(Symbol), NEW e \in Seq(Ends(s)),
           SegmentsAt(s, e) # <<>>
    PROVE  /\ e # <<>> /\ Head(SegmentsAt(s, e)) = Segment(s, Head(e))
           /\ Tail(SegmentsAt(s, e)) = SegmentsAt(s, Tail(e))
<1> DEFINE g == SegmentsAt(s, e)
           d == Tail(e)
           l == Tail(g)
           r == SegmentsAt(s, d)
<1>1. /\ g \in Seq(Seq(Symbol)) /\ Len(g) = Len(e) /\ Len(e) \in Nat
      /\ DOMAIN e = 1 .. Len(e)
  BY ListedFacts
<1>2. Len(e) # 0 /\ e # <<>>
  <2> HIDE DEF g
  <2>1. Len(g) # 0
    BY <1>1 DEF g
  <2> QED
    BY <1>1, <2>1
<1>3. /\ d \in Seq(Ends(s)) /\ Len(d) = Len(e) - 1
      /\ DOMAIN d = 1 .. Len(e) - 1 /\ Head(e) = e[1]
      /\ \A k \in 1 .. Len(e) - 1 : d[k] = e[k + 1]
  BY <1>2
<1>4. \A k \in 1 .. Len(e) : g[k] = Segment(s, e[k])
  BY <1>1 DEF SegmentsAt
<1> HIDE DEF g, d
<1>5. /\ l \in Seq(Seq(Symbol)) /\ Len(l) = Len(e) - 1 /\ Head(g) = g[1]
      /\ \A k \in 1 .. Len(e) - 1 : l[k] = g[k + 1]
  BY <1>1, <1>2
<1>6. /\ r \in Seq(Seq(Symbol)) /\ Len(r) = Len(e) - 1
      /\ \A k \in 1 .. Len(e) - 1 : r[k] = Segment(s, d[k])
  <2>1. r \in Seq(Seq(Symbol)) /\ Len(r) = Len(d)
    BY <1>3, ListedFacts
  <2>2. \A k \in 1 .. Len(e) - 1 : r[k] = Segment(s, d[k])
    BY <1>3 DEF SegmentsAt
  <2> QED
    BY <1>3, <2>1, <2>2
<1> HIDE DEF l, r
<1>7. ASSUME NEW k \in 1 .. Len(l) PROVE l[k] = r[k]
  <2>1. k \in 1 .. Len(e) - 1 /\ k + 1 \in 1 .. Len(e)
    BY <1>1, <1>5
  <2> QED
    BY <1>3, <1>4, <1>5, <1>6, <2>1
<1>8. l = r
  BY <1>5, <1>6, <1>7, SeqEqual
<1>9. Head(g) = Segment(s, Head(e))
  <2>1. 1 \in 1 .. Len(e)
    BY <1>1, <1>2
  <2> QED
    BY <1>3, <1>4, <1>5, <2>1
<1> QED
  BY <1>2, <1>8, <1>9 DEF l, r, d, g

\* If no segment is waiting then no end is, and the frames up to the cut are
\* all there are.
LEMMA NothingWaits ==
    ASSUME NEW s \in Seq(Symbol), NEW cut \in Nat, NEW e,
           IsOrder(e, EndsAfter(s, cut)), SegmentsAt(s, e) = <<>>
    PROVE  /\ EndsAfter(s, cut) = {}
           /\ FramesUpTo(s, cut)
                  = {i \in Ends(s) : Decoded(Segment(s, i)) # 0}
<1>1. EndsAfter(s, cut) \in SUBSET Ends(s) /\ e \in Seq(EndsAfter(s, cut))
  BY DEF EndsAfter, IsOrder
<1>2. Len(SegmentsAt(s, e)) = Len(e)
  BY <1>1, ListedFacts
<1>3. Len(SegmentsAt(s, e)) = 0
  BY EmptyStream
<1>4. DOMAIN e = {}
  <2>1. Len(e) = 0
    BY <1>2, <1>3
  <2>2. DOMAIN e = 1 .. Len(e)
    BY <1>1
  <2> QED
    BY <2>1, <2>2
<1>5. EndsAfter(s, cut) = {}
  BY <1>4 DEF IsOrder
<1>6. \A i \in Ends(s) : i <= cut
  BY <1>5, EndsBounded DEF EndsAfter
<1> QED
  BY <1>5, <1>6 DEF FramesUpTo

\* A chunk changes none of the frames that were already complete.
LEMMA PrefixFrames ==
    ASSUME NEW u \in Seq(Symbol), NEW w \in Seq(Symbol)
    PROVE  /\ FramesUpTo(u \o w, Len(u))
                  = {i \in Ends(u) : Decoded(Segment(u, i)) # 0}
           /\ \A i \in Ends(u) : Segment(u \o w, i) = Segment(u, i)
<1> DEFINE t == u \o w
<1>1. \A i \in Ends(u) : i \in 1 .. Len(u) /\ i \in 1 .. Len(u) + 1
                         /\ i <= Len(u)
  BY EndsBounded
<1>2. \A i \in Ends(u) : Segment(t, i) = Segment(u, i) /\ i \in Ends(t)
  BY <1>1, PrefixSegments, PrefixEnds
<1>3. \A i \in Ends(t) : i <= Len(u) => i \in 1 .. Len(u)
  <2>1. t \in Seq(Symbol) /\ Len(u) \in Nat
    BY ConcatProperties
  <2>2. Ends(t) \subseteq 1 .. Len(t) /\ Len(t) \in Nat
    BY <2>1, EndsBounded
  <2> QED
    BY <2>1, <2>2
<1>4. \A i \in Ends(t) : i <= Len(u) => i \in Ends(u)
  BY <1>3, PrefixEnds
<1> HIDE DEF t
<1>5. FramesUpTo(t, Len(u)) = {i \in Ends(u) : Decoded(Segment(u, i)) # 0}
  BY <1>1, <1>2, <1>4 DEF FramesUpTo
<1> QED
  BY <1>2, <1>5 DEF t

\* When nothing was lost, the segments that a read gives are the next ones of
\* the stream.
LEMMA ReadInStep ==
    ASSUME StreamTypes, BufferIsTail, AcceptedInOrder, log.overflows = 0,
           NEW n \in 0 .. Len(line), Read(n)
    PROVE  \E cut \in Nat : \E good, todo : InStep(cut, good, todo)'
<1> DEFINE t == raw'
<1>1. /\ pc = "read" /\ port # 0 /\ segments = <<>> /\ accepted' = accepted
      /\ raw \in Seq(Symbol)
  BY DEF Read, StreamTypes
<1>2. PICK b \in Nat : IsTail(b)
  BY <1>1 DEF BufferIsTail
<1>3. b = Before(raw, Len(raw) + 1)
  BY <1>1, <1>2 DEF IsTail
<1>4. PICK w, v \in Seq(Symbol) :
          Joined(raw, w, b, t, v) /\ segments' = Segments(v)
  BY <1>2, ReadOfTail
<1>5. /\ \A j \in 1 .. Len(v) + 1 : Segment(v, j) = Segment(t, b + j)
      /\ EndsAfter(t, Len(raw)) = {b + j : j \in Ends(v)}
  BY <1>1, <1>3, <1>4, ReadCutsStream, SMTT(60)
<1>6. t = raw \o w
  BY <1>4 DEF Joined
<1> HIDE DEF t
<1>7. PICK cut \in Nat : \E good, todo : InStep(cut, good, todo)
  BY <1>1 DEF AcceptedInOrder, Running
<1>8. PICK good, todo : InStep(cut, good, todo)
  BY <1>7
<1> DEFINE G == {i \in Ends(raw) : Decoded(Segment(raw, i)) # 0}
<1>9. FramesUpTo(raw, cut) = G
  BY <1>1, <1>8, NothingWaits DEF InStep
<1>10. FramesUpTo(t, Len(raw)) = G
       /\ \A i \in Ends(raw) : Segment(t, i) = Segment(raw, i)
  BY <1>1, <1>6, PrefixFrames
<1>11. IsOrder(good, FramesUpTo(t, Len(raw)))
  BY <1>8, <1>9, <1>10 DEF InStep
<1>12. FramesAt(t, good) = FramesAt(raw, good)
  <2>1. good \in Seq(G)
    BY <1>8, <1>9 DEF InStep, IsOrder
  <2>2. \A k \in DOMAIN good : good[k] \in Ends(raw)
    BY <2>1
  <2> QED
    BY <1>10, <2>2 DEF FramesAt
<1> DEFINE e == InOrder(Ends(v))
           f == [k \in DOMAIN e |-> b + e[k]]
<1>13. IsOrder(e, Ends(v)) /\ Segments(v) = SegmentsAt(v, e)
  BY SegmentsAreListed
<1> HIDE DEF e
<1>14. IsOrder(f, EndsAfter(t, Len(raw)))
  <2>1. Ends(v) \subseteq Nat
    BY EndsBounded
  <2>2. IsOrder(f, {b + x : x \in Ends(v)})
    BY <1>13, <2>1, OrderShift
  <2> QED
    BY <1>5, <2>2
<1>15. SegmentsAt(t, f) = SegmentsAt(v, e)
  <2>1. e \in Seq(Ends(v))
    BY <1>13 DEF IsOrder
  <2>2. \A k \in DOMAIN e : e[k] \in Ends(v)
    BY <2>1
  <2>3. \A k \in DOMAIN e : Segment(v, e[k]) = Segment(t, b + e[k])
    BY <1>5, <2>2, EndsBounded
  <2> QED
    BY <2>3 DEF SegmentsAt
<1> HIDE DEF f
<1>16. PICK c \in Nat : c = Len(raw)
  BY <1>1
<1>17. InStep(c, good, f)'
  <2>1. accepted' = FramesAt(t, good)
    BY <1>1, <1>8, <1>12 DEF InStep
  <2>2. segments' = SegmentsAt(t, f)
    BY <1>4, <1>13, <1>15
  <2> QED
    BY <1>11, <1>14, <1>16, <2>1, <2>2 DEF InStep, t
<1> QED
  BY <1>16, <1>17

\* Taking the first waiting segment moves the cut behind it; its frame, if it
\* is one, is the next to be accepted.
LEMMA TakeInStep ==
    ASSUME StreamTypes, NEW cut \in Nat, NEW good, NEW todo,
           InStep(cut, good, todo), segments # <<>>,
           segments' = Tail(segments), raw' = raw,
           LET f == Decoded(Head(segments))
           IN  accepted' = IF f # 0 THEN Append(accepted, f) ELSE accepted
    PROVE  \E x \in Nat : \E g, e : InStep(x, g, e)'
<1> DEFINE x == Head(todo)
           E == EndsAfter(raw, cut)
           F == FramesUpTo(raw, cut)
<1>1. /\ raw \in Seq(Symbol) /\ IsOrder(good, F) /\ IsOrder(todo, E)
      /\ accepted = FramesAt(raw, good) /\ segments = SegmentsAt(raw, todo)
  BY DEF InStep, StreamTypes
<1>2. /\ E \subseteq Ends(raw) /\ F \subseteq Ends(raw)
      /\ Ends(raw) \subseteq Nat
  BY <1>1, EndsBounded DEF EndsAfter, FramesUpTo
<1>3. todo \in Seq(Ends(raw)) /\ good \in Seq(Ends(raw))
  BY <1>1, <1>2 DEF IsOrder
<1>4. /\ todo # <<>> /\ Head(segments) = Segment(raw, x)
      /\ segments' = SegmentsAt(raw, Tail(todo))
  BY <1>1, <1>3, SegmentsTail
<1> HIDE DEF x
<1>5. /\ x \in E /\ \A y \in E : x <= y
      /\ IsOrder(Tail(todo), E \ {x})
  BY <1>1, <1>2, <1>4, OrderTail DEF x
<1>6. x \in Ends(raw) /\ x \in Nat /\ x > cut
  BY <1>2, <1>5 DEF EndsAfter
<1>7. EndsAfter(raw, x) = E \ {x}
  BY <1>2, <1>5, <1>6 DEF EndsAfter
<1>8. \A i \in Ends(raw) : i <= x <=> i <= cut \/ i = x
  BY <1>2, <1>5, <1>6 DEF EndsAfter
<1>9. CASE Decoded(Head(segments)) # 0
  <2>1. FramesUpTo(raw, x) = F \cup {x}
    BY <1>4, <1>6, <1>8, <1>9 DEF FramesUpTo
  <2>2. \A y \in F : y < x
    BY <1>2, <1>6 DEF FramesUpTo
  <2>3. IsOrder(Append(good, x), F \cup {x})
    <3>1. F \subseteq Nat
      BY <1>2
    <3> HIDE DEF F
    <3> QED
      BY <1>1, <1>6, <2>2, <3>1, OrderAppend
  <2>4. FramesAt(raw, Append(good, x))
            = Append(FramesAt(raw, good), Decoded(Segment(raw, x)))
    BY <1>1, <1>3, <1>6, FramesAppend
  <2>5. accepted' = FramesAt(raw, Append(good, x))
    BY <1>1, <1>4, <1>9, <2>4
  <2>6. InStep(x, Append(good, x), Tail(todo))'
    BY <1>4, <1>5, <1>7, <2>1, <2>3, <2>5 DEF InStep
  <2> QED
    BY <1>6, <2>6
<1>10. CASE Decoded(Head(segments)) = 0
  <2>1. FramesUpTo(raw, x) = F
    BY <1>4, <1>6, <1>8, <1>10 DEF FramesUpTo
  <2>2. InStep(x, good, Tail(todo))'
    BY <1>1, <1>4, <1>5, <1>7, <1>10, <2>1 DEF InStep
  <2> QED
    BY <1>6, <2>2
<1> QED
  BY <1>9, <1>10

\* Every step keeps the order of what was accepted.
LEMMA StepOrder ==
    ASSUME StreamTypes, BooksInv, BufferIsTail, AcceptedInOrder, Next
    PROVE  AcceptedInOrder'
<1> USE DEF transmitter, handle, station, Running
<1> DEFINE Kept == UNCHANGED <<raw, accepted, segments>>
           Same == log'.overflows = log.overflows
<1>1. ASSUME Kept, Running, log'.overflows = 0 => log.overflows = 0
      PROVE  AcceptedInOrder'
  BY <1>1 DEF AcceptedInOrder, InStep
<1>2. ASSUME ~Running' PROVE AcceptedInOrder'
  BY <1>2 DEF AcceptedInOrder
<1>3. CASE Connected
  <2>1. raw' = <<>> /\ accepted' = <<>> /\ segments' = <<>>
    BY <1>3 DEF Connected, StreamTypes
  <2>2. EndsAfter(<<>>, 0) = {} /\ FramesUpTo(<<>>, 0) = {}
    BY EmptyStream DEF EndsAfter, FramesUpTo
  <2>3. FramesAt(<<>>, <<>>) = <<>> /\ SegmentsAt(<<>>, <<>>) = <<>>
    BY DEF FramesAt, SegmentsAt
  <2>4. IsOrder(<<>>, {})
    BY DEF IsOrder
  <2>5. InStep(0, <<>>, <<>>)'
    BY <2>1, <2>2, <2>3, <2>4 DEF InStep
  <2> QED
    BY <2>5 DEF AcceptedInOrder
<1>4. CASE \/ Open \/ ReadFails \/ CloseHandle \/ Check
           \/ CountMalformed \/ ReportMalformed \/ ResetMalformed
           \/ Overflow \/ ReportOverflow
  <2>1. Kept /\ Running
    BY <1>4
    DEF Open, ReadFails, CloseHandle, Check, CountMalformed, ReportMalformed,
        ResetMalformed, Overflow, ReportOverflow
  <2>2. log'.overflows = 0 => log.overflows = 0
    <3>1. CASE ReportOverflow
      BY <3>1 DEF ReportOverflow, BooksInv, RecordFields, CountersAreNumbers
    <3>2. CASE ~ReportOverflow
      <4>1. Same
        BY <1>4, <3>2
        DEF Open, ReadFails, CloseHandle, Check, LogDisconnected,
            CountMalformed, ReportMalformed, ResetMalformed, Overflow,
            BooksInv, RecordFields
      <4> QED
        BY <4>1
    <3> QED
      BY <3>1, <3>2
  <2> QED
    BY <1>1, <2>1, <2>2
<1>5. ASSUME NEW n \in 0 .. Len(line), Read(n) PROVE AcceptedInOrder'
  <2>1. log' = log
    BY <1>5 DEF Read
  <2> QED
    BY <1>5, <2>1, ReadInStep DEF AcceptedInOrder
<1>6. CASE Accept
  <2>1. /\ segments # <<>> /\ segments' = Tail(segments) /\ raw' = raw
        /\ Decoded(Head(segments)) # 0 /\ Running
        /\ accepted' = Append(accepted, Decoded(Head(segments)))
    BY <1>6 DEF Accept
  <2>2. Same
    <3>1. PICK f : Track(Updated(f))
      BY <1>6 DEF Accept
    <3> QED
      BY <3>1 DEF Track, BooksInv, RecordFields
  <2>3. SUFFICES ASSUME log'.overflows = 0
                 PROVE  \E x \in Nat : \E g, e : InStep(x, g, e)'
    BY DEF AcceptedInOrder
  <2>4. PICK cut \in Nat : \E good, todo : InStep(cut, good, todo)
    BY <2>1, <2>2, <2>3 DEF AcceptedInOrder
  <2>5. PICK good, todo : InStep(cut, good, todo)
    BY <2>4
  <2> QED
    BY <2>1, <2>5, TakeInStep
<1>7. CASE Malformed
  <2>1. /\ segments # <<>> /\ segments' = Tail(segments) /\ raw' = raw
        /\ Decoded(Head(segments)) = 0 /\ Running /\ accepted' = accepted
    BY <1>7 DEF Malformed
  <2>2. Same
    BY <1>7 DEF Malformed, BooksInv, RecordFields
  <2>3. SUFFICES ASSUME log'.overflows = 0
                 PROVE  \E x \in Nat : \E g, e : InStep(x, g, e)'
    BY DEF AcceptedInOrder
  <2>4. PICK cut \in Nat : \E good, todo : InStep(cut, good, todo)
    BY <2>1, <2>2, <2>3 DEF AcceptedInOrder
  <2>5. PICK good, todo : InStep(cut, good, todo)
    BY <2>4
  <2> QED
    BY <2>1, <2>5, TakeInStep
<1>9. CASE Finish
  BY <1>2, <1>9 DEF Finish
<1>10. CASE Send
  BY <1>10 DEF Send, AcceptedInOrder, InStep
<1>11. CASE Replug
  BY <1>11 DEF Replug, AcceptedInOrder, InStep
<1>12. CASE Interrupt
  BY <1>2, <1>12 DEF Interrupt
<1> QED
  BY <1>3, <1>4, <1>5, <1>6, <1>7, <1>9, <1>10, <1>11, <1>12
  DEF Next, Loop

\* A read misses no frame: the part of a segment that was lost with the
\* buffer is longer than a frame.
LEMMA ReadHears ==
    ASSUME StreamTypes, BufferIsTail, AllHeard,
           NEW n \in 0 .. Len(line), Read(n)
    PROVE  AllHeard'
<1> DEFINE t == raw'
           a == Before(raw, Len(raw) + 1)
<1>1. /\ pc = "read" /\ port # 0 /\ segments = <<>> /\ accepted' = accepted
      /\ raw \in Seq(Symbol) /\ Len(raw) \in Nat
  BY DEF Read, StreamTypes
<1>2. PICK b \in Nat : IsTail(b)
  BY <1>1 DEF BufferIsTail
<1>3. PICK w, v \in Seq(Symbol) :
          Joined(raw, w, b, t, v) /\ segments' = Segments(v)
  BY <1>2, ReadOfTail
<1>4. /\ b \in a .. Len(raw) /\ a \in Nat /\ FrameLength \in Nat
      /\ b = a \/ b > a + FrameLength
  BY <1>1, <1>2, LastCut, GroundStationAssumption DEF IsTail
<1>5. /\ t \in Seq(Symbol) /\ Len(v) = Len(t) - b
      /\ \A j \in 1 .. Len(v) : j \in Delimiters(v)
                                    <=> b + j \in Delimiters(t)
      /\ \A j \in 1 .. Len(v) + 1 :
             /\ Segment(v, j) = SubSeq(t, b + Before(v, j) + 1, b + j - 1)
             /\ IF Before(v, j) # 0 THEN Before(t, b + j) = b + Before(v, j)
                ELSE Before(t, b + j) = a
  BY <1>1, <1>3, <1>4, ReadCuts, SMTT(60)
<1>6. t = raw \o w
  BY <1>3 DEF Joined
<1> HIDE DEF t, a
<1>7. ASSUME NEW i \in Ends(t), Decoded(Segment(t, i)) # 0
      PROVE  \/ \E k \in DOMAIN accepted :
                    accepted[k] = Decoded(Segment(t, i))
             \/ \E k \in DOMAIN Segments(v) :
                    Segments(v)[k] = Segment(t, i)
  <2>1. i \in 1 .. Len(t) /\ Len(t) \in Nat /\ i \in 1 .. Len(t) + 1
    BY <1>5, EndsBounded
  <2>2. CASE i <= Len(raw)
    <3>1. i \in 1 .. Len(raw) /\ i \in 1 .. Len(raw) + 1
      BY <1>1, <2>1, <2>2
    <3>2. i \in Ends(raw)
      BY <1>1, <1>6, <3>1, PrefixEnds
    <3>3. Segment(t, i) = Segment(raw, i)
      BY <1>1, <1>6, <3>1, PrefixSegments
    <3>4. Heard(i)
      BY <1>1, <1>7, <3>2, <3>3 DEF AllHeard, Running
    <3> QED
      BY <1>1, <3>3, <3>4 DEF Heard
  <2>3. CASE i > Len(raw)
    <3> DEFINE j == i - b
    <3>1. /\ j \in 1 .. Len(v) /\ j \in 1 .. Len(v) + 1 /\ b + j = i
          /\ b + j - 1 = i - 1
      BY <1>1, <1>4, <1>5, <2>1, <2>3
    <3> HIDE DEF j
    <3>2. i \in Delimiters(t) /\ Segment(t, i) # <<>>
      BY DEF Ends
    <3>3. ASSUME Before(t, i) = b + Before(v, j)
          PROVE  \E k \in DOMAIN Segments(v) : Segments(v)[k] = Segment(t, i)
      <4>1. Segment(v, j) = Segment(t, i)
        BY <1>5, <3>1, <3>3 DEF Segment
      <4>2. j \in Ends(v)
        BY <1>5, <3>1, <3>2, <4>1 DEF Ends
      <4> QED
        BY <4>1, <4>2, SegmentsAreListed
    <3>4. CASE Before(v, j) # 0
      BY <1>5, <3>1, <3>3, <3>4
    <3>5. CASE Before(v, j) = 0 /\ b = a
      BY <1>4, <1>5, <3>1, <3>3, <3>5
    <3>6. CASE Before(v, j) = 0 /\ b > a + FrameLength
      <4>1. Before(t, i) = a
        BY <1>5, <3>1, <3>6
      <4>2. /\ Segment(t, i) \in Seq(Symbol)
            /\ Len(Segment(t, i)) = i - 1 - a
        BY <1>5, <2>1, <4>1, SegmentFacts
      <4>3. Len(Segment(t, i)) # FrameLength
        BY <1>1, <1>4, <2>1, <2>3, <3>6, <4>2
      <4> QED
        BY <1>7, <4>2, <4>3, DecodedFacts
    <3> QED
      BY <1>4, <3>4, <3>5, <3>6
  <2> QED
    BY <1>1, <2>1, <2>2, <2>3
<1> QED
  BY <1>1, <1>3, <1>7 DEF AllHeard, Heard, t

\* A segment is accepted or it is no frame.
LEMMA StepHeard ==
    ASSUME StreamTypes, BufferIsTail, AllHeard, Next
    PROVE  AllHeard'
<1> USE DEF transmitter, handle, station, Running
<1>1. ASSUME UNCHANGED <<raw, accepted, segments>>, Running PROVE AllHeard'
  BY <1>1 DEF AllHeard, Heard
<1>2. ASSUME ~Running' PROVE AllHeard'
  BY <1>2 DEF AllHeard
<1>3. CASE Connected
  <2>1. raw' = <<>>
    BY <1>3 DEF Connected
  <2> QED
    BY <2>1, EmptyStream DEF AllHeard
<1>4. CASE \/ Open \/ ReadFails \/ CloseHandle \/ Check
           \/ CountMalformed \/ ReportMalformed \/ ResetMalformed
           \/ Overflow \/ ReportOverflow
  BY <1>1, <1>4
  DEF Open, ReadFails, CloseHandle, Check, CountMalformed, ReportMalformed,
      ResetMalformed, Overflow, ReportOverflow
<1>5. ASSUME NEW n \in 0 .. Len(line), Read(n) PROVE AllHeard'
  BY <1>5, ReadHears
<1>6. ASSUME segments # <<>>, segments' = Tail(segments), raw' = raw, Running,
             LET f == Decoded(Head(segments))
             IN  accepted' = IF f # 0 THEN Append(accepted, f) ELSE accepted
      PROVE  AllHeard'
  <2> SUFFICES ASSUME NEW i \in Ends(raw), Decoded(Segment(raw, i)) # 0
               PROVE  Heard(i)'
    BY <1>6, Zenon DEF AllHeard
  <2> DEFINE g == Decoded(Segment(raw, i))
             f == Decoded(Head(segments))
  <2>1. Heard(i)
    BY <1>6 DEF AllHeard
  <2>2. /\ segments \in Seq(Seq(Symbol)) /\ accepted \in Seq(Nat)
        /\ Len(segments) \in Nat \ {0} /\ Len(accepted) \in Nat
        /\ DOMAIN segments = 1 .. Len(segments)
        /\ DOMAIN accepted = 1 .. Len(accepted)
        /\ Head(segments) = segments[1]
        /\ DOMAIN segments' = 1 .. Len(segments) - 1
        /\ \A k \in 1 .. Len(segments) - 1 : segments'[k] = segments[k + 1]
    BY <1>6 DEF StreamTypes
  <2>3. f \in Nat
    <3>1. Head(segments) \in Seq(Symbol)
      BY <1>6, <2>2
    <3> QED
      BY <3>1, DecodedFacts
  <2> HIDE DEF f, g
  <2>4. /\ \A k \in DOMAIN accepted : /\ k \in DOMAIN accepted'
                                      /\ accepted'[k] = accepted[k]
        /\ f # 0 => /\ Len(accepted) + 1 \in DOMAIN accepted'
                    /\ accepted'[Len(accepted) + 1] = f
    <3>1. accepted' = IF f # 0 THEN Append(accepted, f) ELSE accepted
      BY <1>6 DEF f
    <3>2. CASE f = 0
      BY <3>1, <3>2
    <3>3. CASE f # 0
      BY <2>2, <2>3, <3>1, <3>3
    <3> QED
      BY <3>2, <3>3
  <2>5. ASSUME NEW k \in DOMAIN accepted', accepted'[k] = g PROVE Heard(i)'
    BY <1>6, <2>5 DEF Heard, g
  <2>6. ASSUME NEW k \in DOMAIN accepted, accepted[k] = g PROVE Heard(i)'
    BY <2>4, <2>5, <2>6
  <2>7. ASSUME NEW k \in DOMAIN segments, segments[k] = Segment(raw, i)
        PROVE  Heard(i)'
    <3>1. CASE k = 1
      <4>1. f = g /\ f # 0
        BY <2>2, <2>7, <3>1 DEF f, g
      <4> QED
        BY <2>4, <2>5, <4>1
    <3>2. CASE k # 1
      <4>1. /\ k - 1 \in 1 .. Len(segments) - 1 /\ (k - 1) + 1 = k
        BY <2>2, <2>7, <3>2
      <4>2. k - 1 \in DOMAIN segments' /\ segments'[k - 1] = segments[k]
        BY <2>2, <4>1
      <4> QED
        BY <1>6, <2>7, <4>2 DEF Heard
    <3> QED
      BY <3>1, <3>2
  <2> QED
    BY <2>1, <2>6, <2>7 DEF Heard, g
<1>7. CASE Accept
  <2>1. /\ segments # <<>> /\ segments' = Tail(segments) /\ raw' = raw
        /\ Decoded(Head(segments)) # 0 /\ Running
        /\ accepted' = Append(accepted, Decoded(Head(segments)))
    BY <1>7 DEF Accept
  <2> QED
    BY <1>6, <2>1
<1>8. CASE Malformed
  <2>1. /\ segments # <<>> /\ segments' = Tail(segments) /\ raw' = raw
        /\ Decoded(Head(segments)) = 0 /\ Running /\ accepted' = accepted
    BY <1>8 DEF Malformed
  <2> QED
    BY <1>6, <2>1
<1>10. CASE Finish
  BY <1>2, <1>10 DEF Finish
<1>11. CASE Send
  BY <1>11 DEF Send, AllHeard, Heard
<1>12. CASE Replug
  BY <1>12 DEF Replug, AllHeard, Heard
<1>13. CASE Interrupt
  BY <1>2, <1>13 DEF Interrupt
<1> QED
  BY <1>3, <1>4, <1>5, <1>7, <1>8, <1>10, <1>11, <1>12, <1>13
  DEF Next, Loop

-----------------------------------------------------------------------------
(* What is heard live is what the raw log replays.                          *)

\* The frames of the stream that are still waiting, and those that were
\* accepted, are the frames of the raw log.
ReplayInv == /\ BooksInv /\ DeviceIsPlugged /\ StreamTypes
             /\ BufferIsTail /\ AcceptedInOrder /\ AllHeard

\* Nothing has been received at first.
LEMMA InitReplay == Init => ReplayInv
<1> SUFFICES ASSUME Init PROVE ReplayInv
  OBVIOUS
<1>1. /\ raw = <<>> /\ accepted = <<>> /\ segments = <<>> /\ port = 0
      /\ log.overflows = 0
  BY DEF Init
<1>2. BufferIsTail
  BY <1>1 DEF BufferIsTail
<1>3. EndsAfter(<<>>, 0) = {} /\ FramesUpTo(<<>>, 0) = {}
  BY EmptyStream DEF EndsAfter, FramesUpTo
<1>4. FramesAt(<<>>, <<>>) = <<>> /\ SegmentsAt(<<>>, <<>>) = <<>>
  BY DEF FramesAt, SegmentsAt
<1>5. IsOrder(<<>>, {})
  BY DEF IsOrder
<1>6. InStep(0, <<>>, <<>>)
  BY <1>1, <1>3, <1>4, <1>5 DEF InStep
<1>7. AcceptedInOrder
  BY <1>6 DEF AcceptedInOrder
<1>8. AllHeard
  BY <1>1, EmptyStream DEF AllHeard
<1> QED
  BY <1>2, <1>7, <1>8, InitBooks, InitStream DEF ReplayInv

\* Where nothing waits to be decoded, the stream has been heard.
LEMMA HeardIsReplayed == ReplayInv => LiveIsReplay
<1> SUFFICES ASSUME ReplayInv, pc = "read"
             PROVE  IF log.overflows = 0 THEN accepted = Replayed
                    ELSE ToSet(Replayed) \subseteq ToSet(accepted)
  BY DEF LiveIsReplay
<1> DEFINE G == {i \in Ends(raw) : Decoded(Segment(raw, i)) # 0}
           good == InOrder(G)
<1>1. segments = <<>> /\ raw \in Seq(Symbol) /\ accepted \in Seq(Nat)
  BY DEF ReplayInv, StreamTypes
<1>2. G \in SUBSET (1 .. Len(raw)) /\ Len(raw) \in Nat /\ G \subseteq Nat
  BY <1>1, EndsBounded
<1>3. Replayed = FramesAt(raw, good)
  BY DEF Replayed, FramesAt
<1>4. CASE log.overflows = 0
  <2>1. PICK cut \in Nat : \E g, todo : InStep(cut, g, todo)
    BY <1>4 DEF ReplayInv, AcceptedInOrder, Running
  <2>2. PICK g, todo : InStep(cut, g, todo)
    BY <2>1
  <2>3. FramesUpTo(raw, cut) = G
    BY <1>1, <2>2, NothingWaits DEF InStep
  <2>4. IsOrder(g, G)
    BY <2>2, <2>3 DEF InStep
  <2> HIDE DEF G
  <2>5. good = g
    BY <1>2, <2>4, OrderIsInOrder
  <2> QED
    BY <1>3, <1>4, <2>2, <2>5 DEF InStep
<1>5. CASE log.overflows # 0
  <2>1. IsOrder(good, G)
    <3> HIDE DEF G
    <3> QED
      BY <1>2, InOrderLists
  <2>2. \A k \in DOMAIN good : good[k] \in G
    <3>1. good \in Seq(G)
      BY <2>1 DEF IsOrder
    <3> HIDE DEF good, G
    <3> QED
      BY <3>1
  <2> HIDE DEF good
  <2>3. ASSUME NEW k \in DOMAIN good
        PROVE  \E m \in DOMAIN accepted :
                   accepted[m] = Decoded(Segment(raw, good[k]))
    <3>1. good[k] \in Ends(raw) /\ Decoded(Segment(raw, good[k])) # 0
      BY <2>2
    <3>2. Heard(good[k])
      BY <3>1 DEF ReplayInv, AllHeard, Running
    <3>3. DOMAIN segments = {}
      BY <1>1
    <3> QED
      BY <3>2, <3>3 DEF Heard
  <2>4. ToSet(Replayed) \subseteq ToSet(accepted)
    BY <1>3, <2>3 DEF FramesAt, ToSet
  <2> QED
    BY <1>5, <2>4
<1> QED
  BY <1>4, <1>5

\* However the stream is chunked, damaged, or cut by a reconnection, the
\* frames accepted live are those that the raw log of the connection gives
\* when it is replayed in one piece, in the same order; after an overflow, and
\* the buffer lost with it, they are at least those.
THEOREM LiveEqualsReplay == Spec => []LiveIsReplay
<1>1. ASSUME ReplayInv, [Next]_vars PROVE ReplayInv'
  <2>1. CASE UNCHANGED vars
    BY <1>1, <2>1
    DEF vars, transmitter, handle, books, station, ReplayInv, BooksInv,
        RecordFields, CountersAreNumbers, UnreportedIsMissing, OpenIsPort,
        DeviceIsPlugged, StreamTypes, BufferIsTail, IsTail,
        AcceptedInOrder, InStep, AllHeard, Heard, StoppedIsPlace, Place,
        Running
  <2>2. CASE Next
    BY <1>1, <2>2, StepBooks, StepStream, StepTail, StepOrder, StepHeard
    DEF ReplayInv
  <2> QED
    BY <1>1, <2>1, <2>2
<1> QED
  BY <1>1, InitReplay, HeardIsReplayed, PTL DEF Spec

=============================================================================
