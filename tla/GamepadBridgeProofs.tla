------------------------ MODULE GamepadBridgeProofs -------------------------
(***************************************************************************)
(* Proofs about GamepadBridge, for any fields and any number of reports    *)
(* and connections: no two reports are mixed and the stamp of the state is *)
(* wrong by at most one poll.  Neither needs the assumption on how fast a  *)
(* pad comes back.  The third does: a state torn by the unlocked wipe of a *)
(* leaving pad is seen only while the pad is gone, provided that no pad    *)
(* comes back between two polls (~FastReconnect).                          *)
(***************************************************************************)
EXTENDS GamepadBridge, TLAPS

\* The mutex has the owner that the two program counters say.
MutexHeld ==
    /\ btPc = "store" <=> mutex = "bt"
    /\ appPc \in {"copy", "give"} <=> mutex = "app"

\* The slot is in use exactly while a pad is assigned to it; a pad being
\* wiped still has its index.
SlotAssigned ==
    /\ ins = 0 <=> slot.idx = 0
    /\ ins = 0 <=> link = "ready"
    /\ btPc # "idle" => ins = 0
    /\ used = IF ins = 0 /\ btPc # "wipe" THEN 1 ELSE 0

\* While a report is stored its fields are the new ones or still to come;
\* otherwise the slot holds the last report, perhaps wiped in part.
SlotIsLastReport ==
    /\ btPc = "store" => \A f \in Fields \ btTodo : slot.data[f] = sent
    /\ btPc # "store" => \A f \in Fields : slot.data[f] \in {0, sent}

\* The fields copied so far are of the last report, and no other is stored
\* before the copy is complete.
CopyIsLastReport ==
    appPc = "copy" => \A f \in Fields \ appTodo : pad.data[f] \in {0, sent}

CopiesAreNotMixed ==
    /\ appPc # "copy" => FromOneReport(pad.data)
    /\ FromOneReport(state.data)

\* A free slot has nothing to take; a wiped flag stays clear.
FlagNeedsPad ==
    /\ ins = INVALID => ~slot.updated
    /\ btPc = "wipe" /\ "updated" \notin btTodo => ~slot.updated

\* A flag that no poll has looked at is young.
FlagIsYoung ==
    /\ appPc \in {"idle", "callbacks"} /\ slot.updated => age = 0
    /\ appPc = "take" /\ slot.updated => age <= 1
    /\ appPc = "copy" => age <= 1
    /\ appPc = "give" => ~slot.updated
    /\ appPc \in {"give", "callbacks"} /\ status = "SUCCESS" => age <= 1
    /\ appPc \in {"take", "copy"} => status = "NO_DATA"

IInv == /\ TypeOK /\ MutexHeld /\ SlotAssigned /\ SlotIsLastReport
        /\ CopyIsLastReport /\ CopiesAreNotMixed
        /\ FlagNeedsPad /\ FlagIsYoung

\* The invariant holds before any pad connects.
LEMMA InitIInv == Init => IInv
<1> SUFFICES ASSUME Init PROVE IInv
  OBVIOUS
<1> USE GamepadBridgeAssumption DEF Init, ClearedState, Neutral, INVALID
<1>1. TypeOK
  <2>1. Neutral \in Report
    BY DEF Report
  <2>2. slot \in [idx: {INVALID, 0}, data: Report, updated: BOOLEAN]
    BY <2>1
  <2>3. /\ pad \in [data: Report, connected: BOOLEAN]
        /\ state \in [data: Report, connected: BOOLEAN]
    BY <2>1
  <2>4. /\ used \in 0 .. 1 /\ ins \in {INVALID, 0}
        /\ sent \in 0 .. MaxReports /\ sessions \in 0 .. MaxSessions
        /\ age \in 0 .. 2 /\ missed \in 0 .. 2
    OBVIOUS
  <2>5. /\ prev \in BOOLEAN /\ mine \in BOOLEAN
        /\ btTodo \subseteq Pieces /\ appTodo \subseteq Fields
    BY Zenon
  <2> QED
    BY <2>2, <2>3, <2>4, <2>5, Zenon DEF TypeOK
<1>2. MutexHeld /\ SlotAssigned /\ FlagNeedsPad /\ FlagIsYoung
  BY DEF MutexHeld, SlotAssigned, FlagNeedsPad, FlagIsYoung
<1>3. SlotIsLastReport /\ CopyIsLastReport /\ CopiesAreNotMixed
  BY DEF SlotIsLastReport, CopyIsLastReport, CopiesAreNotMixed, FromOneReport
<1> QED
  BY <1>1, <1>2, <1>3 DEF IInv

\* Every step keeps every variable in its type.
LEMMA StepType ==
    ASSUME IInv, Next
    PROVE  TypeOK'
<1> USE GamepadBridgeAssumption
    DEF IInv, TypeOK, SlotAssigned, Report, INVALID, Pieces, bt, app
<1>1. CASE DeviceConnected
  BY <1>1 DEF DeviceConnected
<1>2. CASE DeviceReady
  BY <1>2 DEF DeviceReady, Assigned
<1>3. CASE DeviceDisconnected
  BY <1>3 DEF DeviceDisconnected
<1>4. CASE DataTake
  BY <1>4 DEF DataTake, StoreLock
<1>5. CASE DataGive
  <2>1. slot' \in [idx: {INVALID, 0}, data: Report, updated: BOOLEAN]
    BY <1>5 DEF DataGive
  <2> QED
    BY <1>5, <2>1 DEF DataGive
<1>6. CASE WipeDone
  BY <1>6 DEF WipeDone, Freed
<1>7. ASSUME NEW f \in Fields, DataStore(f) PROVE TypeOK'
  BY <1>7 DEF DataStore
<1>8. ASSUME NEW p \in Pieces, Wipe(p) PROVE TypeOK'
  <2>1. CASE p = "idx"
    BY <1>8, <2>1 DEF Wipe, Cleared
  <2>2. CASE p = "updated"
    <3>1. slot' \in [idx: {INVALID, 0}, data: Report, updated: BOOLEAN]
      BY <1>8, <2>2 DEF Wipe, Cleared
    <3> QED
      BY <1>8, <3>1 DEF Wipe
  <2>3. CASE p \in Fields /\ p \notin {"idx", "updated"}
    BY <1>8, <2>3 DEF Wipe, Cleared
  <2> QED
    BY <2>1, <2>2, <2>3
<1>9. CASE PollBegin
  BY <1>9 DEF PollBegin
<1>10. CASE PollTake
  BY <1>10 DEF PollTake
<1>11. CASE PollConsume
  BY <1>11, ZenonT(60) DEF PollConsume, Consumed
<1>12. CASE PollGive
  BY <1>12 DEF PollGive
<1>13. CASE PollEnd
  <2>1. Neutral \in Report
    BY DEF Neutral
  <2>2. pad' \in [data: Report, connected: BOOLEAN]
    BY <1>13 DEF PollEnd
  <2>3. ClearedState \in [data: Report, connected: BOOLEAN]
    BY <2>1 DEF ClearedState
  <2>4. [data |-> pad.data, connected |-> TRUE]
            \in [data: Report, connected: BOOLEAN]
    OBVIOUS
  <2>5. state' \in [data: Report, connected: BOOLEAN]
    BY <1>13, <2>3, <2>4 DEF PollEnd, Taken
  <2> QED
    BY <1>13, <2>2, <2>5 DEF PollEnd
<1>14. ASSUME NEW f \in Fields, PollCopy(f) PROVE TypeOK'
  BY <1>14 DEF PollCopy
<1> QED
  BY <1>1, <1>2, <1>3, <1>4, <1>5, <1>6, <1>7, <1>8, <1>9, <1>10, <1>11,
     <1>12, <1>13, <1>14 DEF Next, Bluetooth, Poll

\* What the control of the two cores says: who holds the mutex, whose the slot
\* is, and how old a flag can be.
LEMMA StepControl ==
    ASSUME IInv, Next
    PROVE  MutexHeld' /\ SlotAssigned' /\ FlagNeedsPad' /\ FlagIsYoung'
<1> USE DEF IInv, TypeOK, MutexHeld, SlotAssigned, FlagNeedsPad, FlagIsYoung,
            INVALID, Pieces, bt, app
<1> DEFINE Goal == MutexHeld' /\ SlotAssigned' /\ FlagNeedsPad' /\ FlagIsYoung'
<1>1. CASE DeviceConnected
  BY <1>1 DEF DeviceConnected
<1>2. CASE DeviceReady
  BY <1>2 DEF DeviceReady, Assigned
<1>3. CASE DeviceDisconnected
  BY <1>3 DEF DeviceDisconnected
<1>4. CASE DataTake
  BY <1>4 DEF DataTake, StoreLock
<1>5. CASE DataGive
  BY <1>5 DEF DataGive
<1>6. CASE WipeDone
  BY <1>6 DEF WipeDone, Freed
<1>7. ASSUME NEW f \in Fields, DataStore(f) PROVE Goal
  BY <1>7 DEF DataStore
<1>8. ASSUME NEW p \in Pieces, Wipe(p) PROVE Goal
  BY <1>8 DEF Wipe, Cleared
<1>9. CASE PollBegin
  BY <1>9 DEF PollBegin
<1>10. CASE PollTake
  BY <1>10 DEF PollTake
<1>11. CASE PollConsume
  BY <1>11 DEF PollConsume, Consumed
<1>12. CASE PollGive
  BY <1>12 DEF PollGive
<1>13. CASE PollEnd
  BY <1>13 DEF PollEnd
<1>14. ASSUME NEW f \in Fields, PollCopy(f) PROVE Goal
  BY <1>14 DEF PollCopy
<1> QED
  BY <1>1, <1>2, <1>3, <1>4, <1>5, <1>6, <1>7, <1>8, <1>9, <1>10, <1>11,
     <1>12, <1>13, <1>14 DEF Next, Bluetooth, Poll

\* Fields that are all 0 or one number are of one report.
LEMMA OneNumber ==
    ASSUME NEW d, NEW n, \A f \in Fields : d[f] \in {0, n}
    PROVE  FromOneReport(d)
  BY DEF FromOneReport

\* What the copies say: the slot, the copy under way and the finished copies.
LEMMA StepCopies ==
    ASSUME IInv, Next
    PROVE  SlotIsLastReport' /\ CopyIsLastReport' /\ CopiesAreNotMixed'
<1> USE DEF IInv, TypeOK, MutexHeld, SlotIsLastReport, CopyIsLastReport,
            CopiesAreNotMixed, Report, INVALID, Pieces, bt, app
<1> DEFINE Goal == SlotIsLastReport' /\ CopyIsLastReport' /\ CopiesAreNotMixed'
<1>1. CASE DeviceConnected
  BY <1>1 DEF DeviceConnected, FromOneReport
<1>2. CASE DeviceReady
  BY <1>2 DEF DeviceReady, Assigned, FromOneReport
<1>3. CASE DeviceDisconnected
  BY <1>3 DEF DeviceDisconnected, FromOneReport
<1>4. CASE DataTake
  BY <1>4 DEF DataTake, StoreLock, FromOneReport
<1>5. CASE DataGive
  BY <1>5 DEF DataGive, FromOneReport
<1>6. CASE WipeDone
  BY <1>6 DEF WipeDone, Freed, FromOneReport
<1>7. ASSUME NEW f \in Fields, DataStore(f) PROVE Goal
  BY <1>7 DEF DataStore, FromOneReport
<1>8. ASSUME NEW p \in Pieces, Wipe(p) PROVE Goal
  BY <1>8 DEF Wipe, Cleared, FromOneReport
<1>9. CASE PollBegin
  BY <1>9 DEF PollBegin, FromOneReport
<1>10. CASE PollTake
  BY <1>10 DEF PollTake, FromOneReport
<1>11. CASE PollConsume
  <2>1. \A f \in Fields : pad.data[f] \in {0, sent}
    BY <1>11 DEF PollConsume
  <2>2. FromOneReport(pad.data)
    BY <2>1, OneNumber
  <2> QED
    BY <1>11, <2>2 DEF PollConsume, Consumed, FromOneReport
<1>12. CASE PollGive
  BY <1>12 DEF PollGive, FromOneReport
<1>13. CASE PollEnd
  BY <1>13 DEF PollEnd, Taken, ClearedState, Neutral, FromOneReport
<1>14. ASSUME NEW f \in Fields, PollCopy(f) PROVE Goal
  BY <1>14 DEF PollCopy, FromOneReport
<1> QED
  BY <1>1, <1>2, <1>3, <1>4, <1>5, <1>6, <1>7, <1>8, <1>9, <1>10, <1>11,
     <1>12, <1>13, <1>14 DEF Next, Bluetooth, Poll

\* A step that changes nothing keeps the invariant.
LEMMA StutterIInv == ASSUME IInv, UNCHANGED vars PROVE IInv'
  BY DEF vars, bt, app, IInv, TypeOK, MutexHeld, SlotAssigned,
         SlotIsLastReport, CopyIsLastReport, CopiesAreNotMixed, FromOneReport,
         FlagNeedsPad, FlagIsYoung

\* IInv is an invariant of the two cores.
THEOREM Invariance == Spec => []IInv
<1>1. ASSUME IInv, [Next]_vars PROVE IInv'
  BY <1>1, StepType, StepControl, StepCopies, StutterIInv DEF IInv
<1> QED
  BY <1>1, InitIInv, PTL DEF Spec

\* The commands gamepad_get_state hands to the control task come from one
\* report, whatever the unlocked memset of a disconnection interleaves with.
THEOREM NotMixed == Spec => []ReportsAreNotMixed
<1>1. IInv => ReportsAreNotMixed
  BY DEF IInv, CopiesAreNotMixed, ReportsAreNotMixed
<1> QED
  BY <1>1, Invariance, PTL

\* lastUpdateUs is set only for a report stored since the previous poll began.
THEOREM HonestStamp == Spec => StampIsHonest
<1>1. IInv => (appPc = "callbacks" /\ appPc' = "idle" /\ state'.connected
               /\ status = "SUCCESS" => age <= 1)
  BY DEF IInv, FlagIsYoung
<1> QED
  BY <1>1, Invariance, PTL DEF StampIsHonest

-----------------------------------------------------------------------------
(* Torn reports, if a pad needs longer than a poll to come back.            *)

\* The pad is gone, and no poll has begun and ended since it left.
Leaving == btPc = "wipe" \/ (ins = INVALID /\ missed # 2)

\* Until a poll has missed the pad no other is assigned, and the poll that
\* misses it knows it.
MissedIsCurrent ==
    /\ missed # 2 => ins = INVALID
    /\ missed = 1 => appPc = "callbacks" /\ status = "INVALID_DEVICE"

\* onConnected and onDisconnected keep the three views of the pad together.
OnePad == mine = prev /\ pad.connected = prev

\* A report that may be taken is whole, unless its pad is leaving: in the
\* slot, in the copy under way, and in the finished copies.
WholeInSlot ==
    slot.updated /\ btPc # "store" /\ ~Leaving =>
        \A f \in Fields : slot.data[f] = sent

WholeInCopy ==
    appPc = "copy" /\ ~Leaving =>
        /\ \A f \in Fields : slot.data[f] = sent
        /\ \A f \in Fields \ appTodo : pad.data[f] = sent

WholeWhenTaken ==
    /\ appPc \in {"give", "callbacks"} /\ status = "SUCCESS" /\ ~Leaving =>
           ~Torn(pad.data)
    /\ ~Leaving => ~Torn(state.data)

WholeInv ==
    /\ MissedIsCurrent /\ OnePad
    /\ WholeInSlot /\ WholeInCopy /\ WholeWhenTaken

\* Fields that all hold one number are not torn.
LEMMA OneNumberIsWhole ==
    ASSUME NEW d, NEW n, \A f \in Fields : d[f] = n
    PROVE  ~Torn(d)
  BY DEF Torn

\* The invariant of whole reports holds before any pad connects.
LEMMA InitWhole == Init => WholeInv
<1> SUFFICES ASSUME Init PROVE WholeInv
  OBVIOUS
<1>1. ~Torn(Neutral)
  BY OneNumberIsWhole DEF Neutral
<1>2. MissedIsCurrent /\ WholeInSlot /\ WholeInCopy
  BY DEF Init, MissedIsCurrent, WholeInSlot, WholeInCopy
<1>3. OnePad
  BY Zenon DEF Init, OnePad
<1>4. WholeWhenTaken
  BY <1>1 DEF Init, WholeWhenTaken, ClearedState
<1> QED
  BY <1>2, <1>3, <1>4 DEF WholeInv

\* A pad that is leaving stays so until the poll that misses it has ended.
LEMMA StepMissed ==
    ASSUME IInv, MissedIsCurrent, OnePad, Next, ~FastReconnect
    PROVE  /\ MissedIsCurrent' /\ OnePad'
           /\ Leaving => Leaving' \/ (PollEnd /\ missed = 1)
<1> USE DEF IInv, TypeOK, MutexHeld, SlotAssigned, MissedIsCurrent, OnePad,
            Leaving, INVALID, bt, app
<1> DEFINE Goal == /\ MissedIsCurrent' /\ OnePad'
                   /\ Leaving => Leaving' \/ (PollEnd /\ missed = 1)
<1>1. CASE DeviceConnected
  BY <1>1 DEF DeviceConnected
<1>2. CASE DeviceReady
  BY <1>2 DEF DeviceReady, Assigned
<1>3. CASE DeviceDisconnected
  BY <1>3 DEF DeviceDisconnected
<1>4. CASE DataTake
  BY <1>4 DEF DataTake, StoreLock
<1>5. CASE DataGive
  BY <1>5 DEF DataGive
<1>6. CASE WipeDone
  BY <1>6 DEF WipeDone, Freed
<1>7. ASSUME NEW f \in Fields, DataStore(f) PROVE Goal
  BY <1>7 DEF DataStore
<1>8. ASSUME NEW p \in Pieces, Wipe(p) PROVE Goal
  BY <1>8 DEF Wipe
<1>9. CASE PollBegin
  BY <1>9 DEF PollBegin
<1>10. CASE PollTake
  BY <1>10 DEF PollTake
<1>11. CASE PollConsume
  BY <1>11 DEF PollConsume, Consumed
<1>12. CASE PollGive
  BY <1>12 DEF PollGive
<1>13. CASE PollEnd
  <2>1. OnePad'
    BY <1>13 DEF PollEnd
  <2>2. MissedIsCurrent'
    BY <1>13 DEF PollEnd
  <2> QED
    BY <1>13, <2>1, <2>2 DEF PollEnd
<1>14. ASSUME NEW f \in Fields, PollCopy(f) PROVE Goal
  BY <1>14 DEF PollCopy
<1> QED
  BY <1>1, <1>2, <1>3, <1>4, <1>5, <1>6, <1>7, <1>8, <1>9, <1>10, <1>11,
     <1>12, <1>13, <1>14 DEF Next, Bluetooth, Poll

\* The reports that may be taken stay whole.
LEMMA StepWhole ==
    ASSUME IInv, WholeInv, Next, ~FastReconnect
    PROVE  WholeInSlot' /\ WholeInCopy' /\ WholeWhenTaken'
<1>1. Leaving => Leaving' \/ (PollEnd /\ missed = 1)
  BY StepMissed DEF WholeInv
<1> DEFINE Goal == WholeInSlot' /\ WholeInCopy' /\ WholeWhenTaken'
<1> USE DEF IInv, TypeOK, MutexHeld, SlotAssigned, WholeInv, MissedIsCurrent,
            WholeInSlot, WholeInCopy, WholeWhenTaken, Report, INVALID, bt, app
<1>2. CASE DeviceConnected
  BY <1>1, <1>2 DEF DeviceConnected, Leaving, Torn
<1>3. CASE DeviceReady
  BY <1>3 DEF DeviceReady, Assigned, Leaving, Torn, FlagNeedsPad
<1>4. CASE DeviceDisconnected
  BY <1>4 DEF DeviceDisconnected, Leaving, Torn
<1>5. CASE DataTake
  BY <1>5 DEF DataTake, StoreLock, Leaving, Torn
<1>6. CASE DataGive
  <2>1. \A f \in Fields : slot'.data[f] = sent'
    BY <1>6 DEF DataGive, SlotIsLastReport
  <2> QED
    BY <1>6, <2>1 DEF DataGive, Leaving, Torn
<1>7. CASE WipeDone
  BY <1>7 DEF WipeDone, Freed, Leaving, Torn
<1>8. ASSUME NEW f \in Fields, DataStore(f) PROVE Goal
  BY <1>8 DEF DataStore, Leaving, Torn
<1>9. ASSUME NEW p \in Pieces, Wipe(p) PROVE Goal
  BY <1>9 DEF Wipe, Leaving, Torn
<1>10. CASE PollBegin
  BY <1>10 DEF PollBegin, Leaving, Torn
<1>11. CASE PollTake
  BY <1>11 DEF PollTake, Leaving, Torn, FlagIsYoung
<1>12. CASE PollConsume
  <2>1. ~Leaving => \A f \in Fields : pad.data[f] = sent
    BY <1>12 DEF PollConsume
  <2>2. ~Leaving => ~Torn(pad.data)
    BY <2>1, OneNumberIsWhole
  <2>3. Leaving <=> Leaving'
    BY <1>12 DEF PollConsume, Leaving
  <2> QED
    BY <1>12, <2>2, <2>3 DEF PollConsume, Consumed, Torn
<1>13. CASE PollGive
  BY <1>13 DEF PollGive, Leaving, Torn
<1>14. CASE PollEnd
  <2>1. ~Torn(Neutral)
    BY OneNumberIsWhole DEF Neutral
  <2>2. CASE status = "INVALID_DEVICE"
    <3>1. mine' = FALSE
      BY <1>14, <2>2 DEF PollEnd, OnePad
    <3>2. state'.data = Neutral
      BY <1>14, <3>1 DEF PollEnd, Taken, ClearedState
    <3>3. ~Torn(state'.data)
      BY <2>1, <3>2
    <3>4. slot'.updated /\ btPc' # "store" /\ ~Leaving' => ~Leaving
      BY <1>14 DEF PollEnd, Leaving, FlagNeedsPad
    <3> QED
      BY <1>14, <3>3, <3>4 DEF PollEnd
  <2>3. CASE status # "INVALID_DEVICE"
    <3>1. Leaving <=> Leaving'
      BY <1>14, <2>3 DEF PollEnd, Leaving
    <3>2. state'.data \in {Neutral, state.data}
          \/ (status = "SUCCESS" /\ state'.data = pad.data)
      BY <1>14 DEF PollEnd, Taken, ClearedState, OnePad
    <3>3. ~Leaving => ~Torn(state'.data)
      BY <1>14, <2>1, <3>2 DEF PollEnd
    <3> QED
      BY <1>14, <3>1, <3>3 DEF PollEnd
  <2> QED
    BY <2>2, <2>3
<1>15. ASSUME NEW f \in Fields, PollCopy(f) PROVE Goal
  BY <1>15 DEF PollCopy, Leaving, Torn
<1> QED
  BY <1>2, <1>3, <1>4, <1>5, <1>6, <1>7, <1>8, <1>9, <1>10, <1>11, <1>12,
     <1>13, <1>14, <1>15 DEF Next, Bluetooth, Poll

\* A torn report is in use only while its pad is gone, if no pad comes back
\* before one poll has missed it: the unlocked memset tears the copy of a pad
\* that leaves, and the poll that misses the pad clears what was torn.
THEOREM TornWhileGone ==
    ASSUME ~FastReconnect
    PROVE  Spec => []TornOnlyWhileGone
<1>1. ASSUME IInv, WholeInv, [Next]_vars PROVE WholeInv'
  <2>1. CASE Next
    BY <1>1, <2>1, StepMissed, StepWhole DEF WholeInv
  <2>2. CASE UNCHANGED vars
    BY <1>1, <2>2 DEF vars, bt, app, WholeInv, MissedIsCurrent, OnePad,
                      WholeInSlot, WholeInCopy, WholeWhenTaken, Leaving, Torn
  <2> QED
    BY <1>1, <2>1, <2>2
<1>2. WholeInv => TornOnlyWhileGone
  BY DEF WholeInv, WholeWhenTaken, Leaving, TornOnlyWhileGone
<1> QED
  BY <1>1, <1>2, InitWhole, Invariance, PTL DEF Spec

=============================================================================
