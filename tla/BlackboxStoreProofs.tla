------------------------- MODULE BlackboxStoreProofs -------------------------
(***************************************************************************)
(* Proofs about BlackboxStore, for any number of launches: recovery and    *)
(* pruning leave owned sessions alone, no active session is removed, and a *)
(* launch that records has recovered the sessions whose owners are gone,   *)
(* those that a disk error kept from it excepted.                          *)
(***************************************************************************)
EXTENDS BlackboxStore, TLAPS

\* Process s has not published its session yet.
Fresh(s) ==
    \/ pc[s] = "idle"
    \/ /\ reason[s] = "launch"
       /\ pc[s] \in {"quota_wait", "recover_list", "recover", "recover_write",
                     "prune_list", "prune", "remove", "own", "publish"}

\* Process s records: its session is published and not finished.
Recording(s) ==
    \/ pc[s] \in {"recording", "writer_failed", "save"}
    \/ /\ reason[s] # "launch"
       /\ pc[s] \in {"quota_wait", "recover_list", "recover", "recover_write",
                     "prune_list", "prune", "remove"}

\* Nobody has heard of a session that is not published.
FreshIsUnseen ==
    \A s \in Process : Fresh(s) =>
        /\ json[s] = "none"
        /\ \A p \in Process : s \notin todo[p] /\ target[p] # s

\* The session about to be rewritten or removed has no owner.
TargetHasNoOwner ==
    \A p \in Process : pc[p] \in {"recover_write", "remove"} =>
        target[p] \in Process /\ ~owned[target[p]]

\* Only a launch recovers and makes a session, which it locks before others
\* see it.
LaunchMakesSession ==
    \A s \in Process :
        /\ pc[s] \in {"idle", "recover_list", "recover", "recover_write",
                      "own", "publish"} => reason[s] = "launch"
        /\ pc[s] = "publish" => owned[s]

\* A process that records owns its session, and session.json says active.
RecordingIsActive ==
    \A s \in Process : Recording(s) => owned[s] /\ json[s] = "active"

\* A session once read as finished is finished or removed.
FinishedStays ==
    \A p, s \in Process :
        view[p][s] \in Old => json[s] \in Old \cup {"removed"}

\* The session about to be removed was read as finished.
TargetIsFinished ==
    \A p \in Process : pc[p] = "remove" => view[p][target[p]] \in Old

IInv == /\ TypeOK /\ FreshIsUnseen /\ LaunchMakesSession
        /\ TargetHasNoOwner /\ RecordingIsActive
        /\ FinishedStays /\ TargetIsFinished

\* An empty directory satisfies the invariant.
LEMMA InitIInv == Init => IInv
  BY StoreAssumption
  DEF Init, IInv, TypeOK, FreshIsUnseen, LaunchMakesSession, TargetHasNoOwner,
      RecordingIsActive, FinishedStays, TargetIsFinished, Fresh, Recording,
      Old, Gone, Process, Label, SessionState

\* The invariant reads all variables but quotaLock and due.
LEMMA StutterIInv == ASSUME IInv, UNCHANGED vars PROVE IInv'
  BY DEF vars, IInv, TypeOK, FreshIsUnseen, LaunchMakesSession,
         TargetHasNoOwner, RecordingIsActive, FinishedStays, TargetIsFinished,
         Fresh, Recording

\* Every step keeps every variable in its type.
LEMMA StepType ==
    ASSUME TypeOK, NEW p \in Process, Step(p)
    PROVE  TypeOK'
<1> USE DEF TypeOK, Goto, locks, Label, SessionState
<1>1. CASE Launch(p)
  BY <1>1 DEF Launch
<1>2. CASE TakeQuotaLock(p)
  BY <1>2 DEF TakeQuotaLock
<1>3. CASE RecoverList(p)
  BY <1>3 DEF RecoverList, List
<1>4. CASE RecoverWrite(p)
  <2>1. json' \in [Process -> SessionState]
    BY <1>4 DEF RecoverWrite
  <2>2. due' \in [Process -> SUBSET Process]
    BY <1>4 DEF RecoverWrite
  <2>3. QED
    BY <1>4, <2>1, <2>2 DEF RecoverWrite
<1>5. CASE RecoverDone(p)
  BY <1>5 DEF RecoverDone
<1>6. CASE PruneList(p)
  <2>1. CASE List(p)
    BY <1>6, <2>1 DEF PruneList, List
  <2>2. CASE UNCHANGED <<view, todo>>
    BY <1>6, <2>2 DEF PruneList
  <2>3. QED
    BY <1>6, <2>1, <2>2 DEF PruneList
<1>7. CASE Remove(p)
  BY <1>7 DEF Remove
<1>8. CASE PruneDone(p)
  BY <1>8 DEF PruneDone, DropList
<1>9. CASE \E s \in Process : RecoverTry(p, s)
  <2> PICK s \in Process : RecoverTry(p, s)
    BY <1>9
  <2>1. todo' \in [Process -> SUBSET Process]
    BY DEF RecoverTry, NextListed
  <2>2. /\ pc' \in [Process -> Label]
        /\ target' \in [Process -> Process \cup {0}]
    BY ZenonT(60) DEF RecoverTry
  <2>3. QED
    BY <2>1, <2>2 DEF RecoverTry
<1>10. CASE \E s \in Process : PruneTry(p, s)
  <2> PICK s \in Process : PruneTry(p, s)
    BY <1>10
  <2>1. todo' \in [Process -> SUBSET Process]
    BY DEF PruneTry, NextListed
  <2>2. /\ pc' \in [Process -> Label]
        /\ target' \in [Process -> Process \cup {0}]
    BY ZenonT(60) DEF PruneTry
  <2>3. QED
    BY <2>1, <2>2 DEF PruneTry
<1>11. CASE Own(p)
  BY <1>11 DEF Own
<1>12. CASE PublishSession(p)
  BY <1>12 DEF PublishSession
<1>13. CASE \E why \in {"record", "close"} : EnforceQuota(p, why)
  BY <1>13 DEF EnforceQuota
<1>14. CASE Save(p)
  BY <1>14 DEF Save
<1>15. CASE Release(p)
  BY <1>15 DEF Release
<1>16. CASE Crash(p)
  BY <1>16 DEF Crash, DropList
<1>17. CASE \E s \in Process : RecoverSkip(p, s) \/ PruneSkip(p, s)
  <2> PICK s \in Process : RecoverSkip(p, s) \/ PruneSkip(p, s)
    BY <1>17
  <2>1. todo' \in [Process -> SUBSET Process]
    BY DEF RecoverSkip, PruneSkip, NextListed
  <2>2. due' \in [Process -> SUBSET Process]
    BY DEF RecoverSkip, PruneSkip
  <2>3. QED
    BY <2>1, <2>2 DEF RecoverSkip, PruneSkip
<1>18. CASE WriterFails(p)
  BY <1>18 DEF WriterFails
<1>19. QED
  BY <1>1, <1>2, <1>3, <1>4, <1>5, <1>6, <1>7, <1>8, <1>9, <1>10, <1>11,
     <1>12, <1>13, <1>14, <1>15, <1>16, <1>17, <1>18 DEF Step

\* Every step preserves the invariant.
LEMMA StepIInv ==
    ASSUME IInv, NEW p \in Process, Step(p)
    PROVE  IInv'
<1> USE DEF IInv, TypeOK, Goto, locks
<1>1. TypeOK'
  BY StepType
<1>2. CASE Launch(p)
  <2>1. FreshIsUnseen'
    BY <1>2 DEF Launch, FreshIsUnseen, Fresh, LaunchMakesSession
  <2>2. LaunchMakesSession'
    BY <1>2 DEF Launch, LaunchMakesSession
  <2>3. TargetHasNoOwner'
    BY <1>2 DEF Launch, TargetHasNoOwner
  <2>4. RecordingIsActive'
    BY <1>2 DEF Launch, RecordingIsActive, Recording, LaunchMakesSession
  <2>5. FinishedStays'
    BY <1>2 DEF Launch, FinishedStays
  <2>6. TargetIsFinished'
    BY <1>2 DEF Launch, TargetIsFinished
  <2>7. QED
    BY <1>1, <2>1, <2>2, <2>3, <2>4, <2>5, <2>6
<1>3. CASE TakeQuotaLock(p)
  <2>1. FreshIsUnseen'
    BY <1>3 DEF TakeQuotaLock, FreshIsUnseen, Fresh
  <2>2. LaunchMakesSession'
    BY <1>3 DEF TakeQuotaLock, LaunchMakesSession
  <2>3. TargetHasNoOwner'
    BY <1>3 DEF TakeQuotaLock, TargetHasNoOwner
  <2>4. RecordingIsActive'
    BY <1>3 DEF TakeQuotaLock, RecordingIsActive, Recording
  <2>5. FinishedStays'
    BY <1>3 DEF TakeQuotaLock, FinishedStays
  <2>6. TargetIsFinished'
    BY <1>3 DEF TakeQuotaLock, TargetIsFinished
  <2>7. QED
    BY <1>1, <2>1, <2>2, <2>3, <2>4, <2>5, <2>6
<1>4. CASE RecoverList(p)
  <2>1. FreshIsUnseen'
    BY <1>4 DEF RecoverList, FreshIsUnseen, Fresh, List, Gone
  <2>2. LaunchMakesSession'
    BY <1>4 DEF RecoverList, LaunchMakesSession
  <2>3. TargetHasNoOwner'
    BY <1>4 DEF RecoverList, TargetHasNoOwner
  <2>4. RecordingIsActive'
    BY <1>4 DEF RecoverList, RecordingIsActive, Recording
  <2>5. FinishedStays'
    BY <1>4 DEF RecoverList, FinishedStays, List
  <2>6. TargetIsFinished'
    BY <1>4 DEF RecoverList, List, TargetIsFinished
  <2>7. QED
    BY <1>1, <2>1, <2>2, <2>3, <2>4, <2>5, <2>6
<1>5. CASE RecoverWrite(p)
  <2>1. FreshIsUnseen'
    <3> SUFFICES ASSUME NEW s \in Process, Fresh(s)'
                 PROVE  /\ json'[s] = "none"
                        /\ \A q \in Process :
                               s \notin todo'[q] /\ target'[q] # s
      BY DEF FreshIsUnseen
    <3>1. Fresh(s)
      BY <1>5 DEF RecoverWrite, Fresh
    <3>2. /\ json[s] = "none"
          /\ \A q \in Process : s \notin todo[q] /\ target[q] # s
      BY <3>1 DEF FreshIsUnseen
    <3>3. json'[s] = "none"
      BY <1>5, <3>2 DEF RecoverWrite
    <3>4. \A q \in Process : s \notin todo'[q] /\ target'[q] # s
      BY <1>5, <3>2 DEF Process, RecoverWrite
    <3>5. QED
      BY <3>3, <3>4
  <2>2. LaunchMakesSession'
    BY <1>5 DEF RecoverWrite, LaunchMakesSession
  <2>3. TargetHasNoOwner'
    BY <1>5 DEF RecoverWrite, TargetHasNoOwner
  <2>4. RecordingIsActive'
    BY <1>5 DEF RecoverWrite, RecordingIsActive, Recording, TargetHasNoOwner
  <2>5. FinishedStays'
    BY <1>5 DEF RecoverWrite, FinishedStays, Old
  <2>6. TargetIsFinished'
    BY <1>5 DEF RecoverWrite, TargetIsFinished
  <2>7. QED
    BY <1>1, <2>1, <2>2, <2>3, <2>4, <2>5, <2>6
<1>6. CASE RecoverDone(p)
  <2>1. FreshIsUnseen'
    BY <1>6 DEF RecoverDone, FreshIsUnseen, Fresh
  <2>2. LaunchMakesSession'
    BY <1>6 DEF RecoverDone, LaunchMakesSession
  <2>3. TargetHasNoOwner'
    BY <1>6 DEF RecoverDone, TargetHasNoOwner
  <2>4. RecordingIsActive'
    BY <1>6 DEF RecoverDone, RecordingIsActive, Recording
  <2>5. FinishedStays'
    BY <1>6 DEF RecoverDone, FinishedStays
  <2>6. TargetIsFinished'
    BY <1>6 DEF RecoverDone, TargetIsFinished
  <2>7. QED
    BY <1>1, <2>1, <2>2, <2>3, <2>4, <2>5, <2>6
<1>7. CASE PruneList(p)
  <2>1. FreshIsUnseen'
    BY <1>7 DEF PruneList, FreshIsUnseen, Fresh, List, Gone
  <2>2. LaunchMakesSession'
    BY <1>7 DEF PruneList, LaunchMakesSession
  <2>3. TargetHasNoOwner'
    BY <1>7 DEF PruneList, TargetHasNoOwner
  <2>4. RecordingIsActive'
    BY <1>7 DEF PruneList, RecordingIsActive, Recording
  <2>5. FinishedStays'
    BY <1>7 DEF PruneList, FinishedStays, List
  <2>6. TargetIsFinished'
    BY <1>7 DEF PruneList, List, TargetIsFinished
  <2>7. QED
    BY <1>1, <2>1, <2>2, <2>3, <2>4, <2>5, <2>6
<1>8. CASE Remove(p)
  <2>1. FreshIsUnseen'
    <3> SUFFICES ASSUME NEW s \in Process, Fresh(s)'
                 PROVE  /\ json'[s] = "none"
                        /\ \A q \in Process :
                               s \notin todo'[q] /\ target'[q] # s
      BY DEF FreshIsUnseen
    <3>1. Fresh(s)
      BY <1>8 DEF Remove, Fresh
    <3>2. /\ json[s] = "none"
          /\ \A q \in Process : s \notin todo[q] /\ target[q] # s
      BY <3>1 DEF FreshIsUnseen
    <3>3. json'[s] = "none"
      BY <1>8, <3>2 DEF Remove
    <3>4. \A q \in Process : target'[q] # s
      BY <1>8, <3>2 DEF Process, Remove
    <3>5. \A q \in Process : s \notin todo'[q]
      BY <1>8, <3>2 DEF Remove
    <3>6. QED
      BY <3>3, <3>4, <3>5
  <2>2. LaunchMakesSession'
    BY <1>8 DEF Remove, LaunchMakesSession
  <2>3. TargetHasNoOwner'
    BY <1>8 DEF Remove, TargetHasNoOwner
  <2>4. RecordingIsActive'
    BY <1>8 DEF Remove, RecordingIsActive, Recording, TargetHasNoOwner
  <2>5. FinishedStays'
    BY <1>8 DEF Remove, FinishedStays, Old
  <2>6. TargetIsFinished'
    BY <1>8 DEF Remove, TargetIsFinished
  <2>7. QED
    BY <1>1, <2>1, <2>2, <2>3, <2>4, <2>5, <2>6
<1>9. CASE PruneDone(p)
  <2>1. FreshIsUnseen'
    BY <1>9 DEF PruneDone, DropList, FreshIsUnseen, Fresh
  <2>2. LaunchMakesSession'
    BY <1>9 DEF PruneDone, DropList, LaunchMakesSession
  <2>3. TargetHasNoOwner'
    BY <1>9 DEF PruneDone, DropList, TargetHasNoOwner
  <2>4. RecordingIsActive'
    BY <1>9 DEF PruneDone, DropList, RecordingIsActive, Recording
  <2>5. FinishedStays'
    BY <1>9 DEF PruneDone, DropList, FinishedStays, Old
  <2>6. TargetIsFinished'
    BY <1>9 DEF PruneDone, DropList, TargetIsFinished
  <2>7. QED
    BY <1>1, <2>1, <2>2, <2>3, <2>4, <2>5, <2>6
<1>10. CASE \E s \in Process : RecoverTry(p, s)
  <2>1. FreshIsUnseen'
    BY <1>10 DEF RecoverTry, FreshIsUnseen, Fresh, NextListed
  <2>2. LaunchMakesSession'
    BY <1>10 DEF RecoverTry, LaunchMakesSession
  <2>3. TargetHasNoOwner'
    BY <1>10 DEF RecoverTry, TargetHasNoOwner, NextListed, Recoverable, MayTouch
  <2>4. RecordingIsActive'
    BY <1>10 DEF RecoverTry, RecordingIsActive, Recording, LaunchMakesSession
  <2>5. FinishedStays'
    BY <1>10 DEF RecoverTry, FinishedStays
  <2>6. TargetIsFinished'
    BY <1>10 DEF RecoverTry, TargetIsFinished
  <2>7. QED
    BY <1>1, <2>1, <2>2, <2>3, <2>4, <2>5, <2>6
<1>11. CASE \E s \in Process : PruneTry(p, s)
  <2>1. FreshIsUnseen'
    BY <1>11 DEF PruneTry, FreshIsUnseen, Fresh, NextListed
  <2>2. LaunchMakesSession'
    BY <1>11 DEF PruneTry, LaunchMakesSession
  <2>3. TargetHasNoOwner'
    BY <1>11 DEF PruneTry, TargetHasNoOwner, NextListed, Removable, MayTouch
  <2>4. RecordingIsActive'
    BY <1>11 DEF PruneTry, RecordingIsActive, Recording
  <2>5. FinishedStays'
    BY <1>11 DEF PruneTry, FinishedStays
  <2>6. TargetIsFinished'
    BY <1>11 DEF PruneTry, TargetIsFinished, Removable
  <2>7. QED
    BY <1>1, <2>1, <2>2, <2>3, <2>4, <2>5, <2>6
<1>12. CASE Own(p)
  <2>1. FreshIsUnseen'
    BY <1>12 DEF Own, FreshIsUnseen, Fresh, LaunchMakesSession
  <2>2. LaunchMakesSession'
    BY <1>12 DEF Own, LaunchMakesSession
  <2>3. TargetHasNoOwner'
    BY <1>12
    DEF Own, TargetHasNoOwner, FreshIsUnseen, Fresh, LaunchMakesSession
  <2>4. RecordingIsActive'
    BY <1>12 DEF Own, RecordingIsActive, Recording, LaunchMakesSession
  <2>5. FinishedStays'
    BY <1>12 DEF Own, FinishedStays
  <2>6. TargetIsFinished'
    BY <1>12 DEF Own, TargetIsFinished
  <2>7. QED
    BY <1>1, <2>1, <2>2, <2>3, <2>4, <2>5, <2>6
<1>13. CASE PublishSession(p)
  <2>1. FreshIsUnseen'
    BY <1>13 DEF PublishSession, FreshIsUnseen, Fresh
  <2>2. LaunchMakesSession'
    BY <1>13 DEF PublishSession, LaunchMakesSession
  <2>3. TargetHasNoOwner'
    BY <1>13 DEF PublishSession, TargetHasNoOwner
  <2>4. RecordingIsActive'
    BY <1>13
    DEF PublishSession, RecordingIsActive, Recording, LaunchMakesSession
  <2>5. FinishedStays'
    BY <1>13
    DEF PublishSession, FinishedStays, FreshIsUnseen, Fresh,
        LaunchMakesSession, Old
  <2>6. TargetIsFinished'
    BY <1>13 DEF PublishSession, TargetIsFinished
  <2>7. QED
    BY <1>1, <2>1, <2>2, <2>3, <2>4, <2>5, <2>6
<1>14. CASE \E why \in {"record", "close"} : EnforceQuota(p, why)
  <2>1. FreshIsUnseen'
    BY <1>14 DEF EnforceQuota, FreshIsUnseen, Fresh
  <2>2. LaunchMakesSession'
    BY <1>14 DEF EnforceQuota, LaunchMakesSession
  <2>3. TargetHasNoOwner'
    BY <1>14 DEF EnforceQuota, TargetHasNoOwner
  <2>4. RecordingIsActive'
    BY <1>14 DEF EnforceQuota, RecordingIsActive, Recording
  <2>5. FinishedStays'
    BY <1>14 DEF EnforceQuota, FinishedStays
  <2>6. TargetIsFinished'
    BY <1>14 DEF EnforceQuota, TargetIsFinished
  <2>7. QED
    BY <1>1, <2>1, <2>2, <2>3, <2>4, <2>5, <2>6
<1>15. CASE Save(p)
  <2>1. FreshIsUnseen'
    BY <1>15 DEF Save, FreshIsUnseen, Fresh
  <2>2. LaunchMakesSession'
    BY <1>15 DEF Save, LaunchMakesSession
  <2>3. TargetHasNoOwner'
    BY <1>15 DEF Save, TargetHasNoOwner
  <2>4. RecordingIsActive'
    BY <1>15 DEF Save, RecordingIsActive, Recording
  <2>5. FinishedStays'
    BY <1>15 DEF Save, FinishedStays, RecordingIsActive, Recording, Old
  <2>6. TargetIsFinished'
    BY <1>15 DEF Save, TargetIsFinished
  <2>7. QED
    BY <1>1, <2>1, <2>2, <2>3, <2>4, <2>5, <2>6
<1>16. CASE Release(p)
  <2>1. FreshIsUnseen'
    BY <1>16 DEF Release, FreshIsUnseen, Fresh
  <2>2. LaunchMakesSession'
    BY <1>16 DEF Release, LaunchMakesSession
  <2>3. TargetHasNoOwner'
    BY <1>16 DEF Release, TargetHasNoOwner
  <2>4. RecordingIsActive'
    BY <1>16 DEF Release, RecordingIsActive, Recording
  <2>5. FinishedStays'
    BY <1>16 DEF Release, FinishedStays
  <2>6. TargetIsFinished'
    BY <1>16 DEF Release, TargetIsFinished
  <2>7. QED
    BY <1>1, <2>1, <2>2, <2>3, <2>4, <2>5, <2>6
<1>17. CASE Crash(p)
  <2>1. FreshIsUnseen'
    <3> SUFFICES ASSUME NEW s \in Process, Fresh(s)'
                 PROVE  /\ json'[s] = "none"
                        /\ \A q \in Process :
                               s \notin todo'[q] /\ target'[q] # s
      BY DEF FreshIsUnseen
    <3>1. Fresh(s)
      BY <1>17 DEF Crash, Fresh
    <3>2. /\ json[s] = "none"
          /\ \A q \in Process : s \notin todo[q] /\ target[q] # s
      BY <3>1 DEF FreshIsUnseen
    <3>3. json'[s] = "none"
      BY <1>17, <3>2 DEF Crash
    <3>4. \A q \in Process : s \notin todo'[q] /\ target'[q] # s
      BY <1>17, <3>2 DEF Process, Crash, DropList
    <3>5. QED
      BY <3>3, <3>4
  <2>2. LaunchMakesSession'
    BY <1>17 DEF Crash, LaunchMakesSession
  <2>3. TargetHasNoOwner'
    BY <1>17 DEF Crash, TargetHasNoOwner
  <2>4. RecordingIsActive'
    BY <1>17 DEF Crash, RecordingIsActive, Recording
  <2>5. FinishedStays'
    BY <1>17 DEF Crash, DropList, FinishedStays, Old
  <2>6. TargetIsFinished'
    BY <1>17 DEF Crash, DropList, TargetIsFinished
  <2>7. QED
    BY <1>1, <2>1, <2>2, <2>3, <2>4, <2>5, <2>6
<1>18. CASE \E s \in Process : RecoverSkip(p, s) \/ PruneSkip(p, s)
  <2>1. UNCHANGED <<pc, reason, locks, json, view, target>>
    BY <1>18 DEF RecoverSkip, PruneSkip
  <2>2. \A q \in Process : todo'[q] \subseteq todo[q]
    BY <1>18 DEF RecoverSkip, PruneSkip, NextListed
  <2>3. FreshIsUnseen'
    BY <2>1, <2>2 DEF FreshIsUnseen, Fresh
  <2>4. LaunchMakesSession' /\ TargetHasNoOwner'
    BY <2>1 DEF LaunchMakesSession, TargetHasNoOwner
  <2>5. RecordingIsActive' /\ FinishedStays' /\ TargetIsFinished'
    BY <2>1 DEF RecordingIsActive, Recording, FinishedStays, TargetIsFinished
  <2>6. QED
    BY <1>1, <2>3, <2>4, <2>5
<1>19. CASE WriterFails(p)
  <2>1. FreshIsUnseen'
    BY <1>19 DEF WriterFails, FreshIsUnseen, Fresh
  <2>2. LaunchMakesSession' /\ TargetHasNoOwner'
    BY <1>19 DEF WriterFails, LaunchMakesSession, TargetHasNoOwner
  <2>3. RecordingIsActive'
    BY <1>19 DEF WriterFails, RecordingIsActive, Recording
  <2>4. FinishedStays' /\ TargetIsFinished'
    BY <1>19 DEF WriterFails, FinishedStays, TargetIsFinished
  <2>5. QED
    BY <1>1, <2>1, <2>2, <2>3, <2>4
<1>20. QED
  BY <1>2, <1>3, <1>4, <1>5, <1>6, <1>7, <1>8, <1>9, <1>10, <1>11, <1>12,
     <1>13, <1>14, <1>15, <1>16, <1>17, <1>18, <1>19 DEF Step

\* The invariant holds in every state.
THEOREM Invariance == Spec => []IInv
<1>1. IInv /\ [Next]_vars => IInv'
  BY StepIInv, StutterIInv DEF Next
<1>2. QED
  BY InitIInv, <1>1, PTL DEF Spec

\* Recovery and pruning skip every session that a running process owns:
\* session.json of an owned session changes only in a step of its process.
THEOREM OwnersAreSafe == Spec => OwnedSessionsUntouched
<1>1. ASSUME IInv, [Next]_vars
      PROVE  \A s \in Process :
                 owned[s] /\ json'[s] # json[s] => pc'[s] # pc[s]
  <2> USE DEF IInv, TypeOK, Goto
  <2>1. CASE UNCHANGED vars
    BY <2>1 DEF vars
  <2>2. ASSUME NEW p \in Process, Step(p)
        PROVE  \A s \in Process :
                   owned[s] /\ json'[s] # json[s] => pc'[s] # pc[s]
    <3>1. CASE RecoverWrite(p) \/ Remove(p)
      BY <1>1, <3>1 DEF RecoverWrite, Remove, TargetHasNoOwner
    <3>2. CASE PublishSession(p) \/ Save(p)
      BY <1>1, <3>2 DEF PublishSession, Save
    <3>3. CASE json' = json
      BY <3>3
    <3>4. QED
      BY <2>2, <3>1, <3>2, <3>3
      DEF Step, Launch, TakeQuotaLock, RecoverList, RecoverDone, PruneList,
          PruneDone, RecoverTry, RecoverSkip, PruneTry, PruneSkip, Own,
          EnforceQuota, WriterFails, Release, Crash
  <2>3. QED
    BY <1>1, <2>1, <2>2 DEF Next
<1>2. QED
  BY Invariance, <1>1, PTL DEF Spec, OwnedSessionsUntouched

\* The quota removes finished sessions only: no session that session.json
\* calls active is removed.
THEOREM ActiveIsNotRemoved == Spec => OnlyFinishedRemoved
<1>1. ASSUME IInv, [Next]_vars
      PROVE  \A s \in Process : json[s] = "active" => json'[s] # "removed"
  <2> USE DEF IInv, TypeOK
  <2>1. CASE UNCHANGED vars
    BY <2>1 DEF vars
  <2>2. ASSUME NEW p \in Process, Step(p)
        PROVE  \A s \in Process : json[s] = "active" => json'[s] # "removed"
    <3>1. CASE Remove(p)
      <4>1. target[p] \in Process /\ json[target[p]] # "active"
        BY <1>1, <3>1 DEF Remove, TargetHasNoOwner, TargetIsFinished,
                           FinishedStays, Old
      <4>2. \A s \in Process : s # target[p] => json'[s] = json[s]
        <5>1. \/ json' = [json EXCEPT ![target[p]] = "removed"]
              \/ json' = json
          BY <3>1 DEF Remove
        <5>2. QED
          BY <1>1, <4>1, <5>1
      <4>3. json'[target[p]] # "removed" \/ json[target[p]] # "active"
        BY <4>1
      <4>4. QED
        BY <4>2, <4>3
    <3>2. CASE RecoverWrite(p) \/ PublishSession(p) \/ Save(p)
      BY <1>1, <3>2 DEF RecoverWrite, PublishSession, Save
    <3>3. CASE json' = json
      BY <3>3
    <3>4. QED
      BY <2>2, <3>1, <3>2, <3>3
      DEF Step, Launch, TakeQuotaLock, RecoverList, RecoverDone, PruneList,
          PruneDone, RecoverTry, RecoverSkip, PruneTry, PruneSkip, Own,
          EnforceQuota, WriterFails, Release, Crash
  <2>3. QED
    BY <1>1, <2>1, <2>2 DEF Next
<1>2. QED
  BY Invariance, <1>1, PTL DEF Spec, OnlyFinishedRemoved

-----------------------------------------------------------------------------
(* Recovery.                                                                *)

\* The sessions a launch found dead stay dead and without an owner, so that
\* each is tried successfully when its turn comes.
DueIsDead ==
    /\ \A p \in Process : \A s \in due[p] : pc[s] = "dead"
    /\ \A s \in Process : pc[s] = "dead" => ~owned[s]

\* Process p has not looked for dead sessions yet.
BeforeList(p) ==
    \/ pc[p] \in {"idle", "recover_list"}
    \/ pc[p] = "quota_wait" /\ reason[p] = "launch"

\* A dead session that is still active is on the list of every launch that
\* found it, read as active, or is being rewritten, unless an I/O error has
\* kept the launch from it; no launch is past its recovery.
RecoveryIsPending ==
    \A p \in Process :
        /\ BeforeList(p) => due[p] = {}
        /\ \A s \in due[p] : json[s] = "active" /\ pc[p] # "dead" =>
              \/ /\ pc[p] \in {"recover", "recover_write"}
                 /\ s \in todo[p] /\ view[p][s] = "active"
              \/ pc[p] = "recover_write" /\ s = target[p]

RecoverInv == DueIsDead /\ RecoveryIsPending

\* A dead process takes no step, and no step makes its session active.
LEMMA DeadStays ==
    ASSUME TypeOK, DueIsDead, NEW p \in Process, Step(p)
    PROVE  /\ DueIsDead'
           /\ pc[p] # "dead"
           /\ \A s \in Process : pc[s] = "dead" /\ json'[s] = "active"
                                    => json[s] = "active"
<1> USE DEF TypeOK, DueIsDead, Goto, locks
<1>1. CASE Launch(p)
  BY <1>1 DEF Launch
<1>2. CASE TakeQuotaLock(p)
  BY <1>2 DEF TakeQuotaLock
<1>3. CASE RecoverList(p)
  BY <1>3 DEF RecoverList
<1>4. CASE RecoverWrite(p)
  BY <1>4 DEF RecoverWrite
<1>5. CASE RecoverDone(p)
  BY <1>5 DEF RecoverDone
<1>6. CASE PruneList(p)
  BY <1>6 DEF PruneList
<1>7. CASE Remove(p)
  BY <1>7 DEF Remove
<1>8. CASE PruneDone(p)
  BY <1>8 DEF PruneDone
<1>9. CASE \E s \in Process : RecoverTry(p, s) \/ PruneTry(p, s)
  BY <1>9 DEF RecoverTry, PruneTry
<1>10. CASE Own(p)
  BY <1>10 DEF Own
<1>11. CASE PublishSession(p)
  BY <1>11 DEF PublishSession
<1>12. CASE \E why \in {"record", "close"} : EnforceQuota(p, why)
  BY <1>12 DEF EnforceQuota
<1>13. CASE Save(p)
  BY <1>13 DEF Save
<1>14. CASE Release(p)
  BY <1>14 DEF Release
<1>15. CASE Crash(p)
  BY <1>15 DEF Crash
<1>16. CASE \E s \in Process : RecoverSkip(p, s) \/ PruneSkip(p, s)
  BY <1>16 DEF RecoverSkip, PruneSkip
<1>17. CASE WriterFails(p)
  BY <1>17 DEF WriterFails
<1> QED
  BY <1>1, <1>2, <1>3, <1>4, <1>5, <1>6, <1>7, <1>8, <1>9, <1>10, <1>11,
     <1>12, <1>13, <1>14, <1>15, <1>16, <1>17 DEF Step

\* A step of process p changes the list, the target, the label and the
\* history of no other process.
LEMMA OthersUnchanged ==
    ASSUME TypeOK, NEW p \in Process, Step(p), NEW q \in Process, q # p
    PROVE  /\ pc'[q] = pc[q] /\ reason'[q] = reason[q]
           /\ view'[q] = view[q] /\ todo'[q] = todo[q]
           /\ target'[q] = target[q] /\ due'[q] = due[q]
<1> USE DEF TypeOK, Goto, locks
<1>1. CASE Launch(p) \/ TakeQuotaLock(p) \/ RecoverWrite(p) \/ RecoverDone(p)
  BY <1>1 DEF Launch, TakeQuotaLock, RecoverWrite, RecoverDone
<1>2. CASE RecoverList(p) \/ PruneList(p)
  BY <1>2 DEF RecoverList, PruneList, List
<1>3. CASE Remove(p) \/ PruneDone(p) \/ Own(p) \/ PublishSession(p)
  BY <1>3 DEF Remove, PruneDone, DropList, Own, PublishSession
<1>4. CASE \E s \in Process : \/ RecoverTry(p, s) \/ RecoverSkip(p, s)
                             \/ PruneTry(p, s) \/ PruneSkip(p, s)
  BY <1>4 DEF RecoverTry, RecoverSkip, PruneTry, PruneSkip, NextListed
<1>5. CASE \E why \in {"record", "close"} : EnforceQuota(p, why)
  BY <1>5 DEF EnforceQuota
<1>6. CASE WriterFails(p) \/ Save(p) \/ Release(p) \/ Crash(p)
  BY <1>6 DEF WriterFails, Save, Release, Crash, DropList
<1> QED
  BY <1>1, <1>2, <1>3, <1>4, <1>5, <1>6 DEF Step

\* A dead session that is active leaves a launch's list only to be rewritten.
LEMMA StepRecovery ==
    ASSUME IInv, RecoverInv, NEW p \in Process, Step(p)
    PROVE  RecoverInv'
<1> DEFINE Pending(q) ==
        /\ BeforeList(q) => due[q] = {}
        /\ \A s \in due[q] : json[s] = "active" /\ pc[q] # "dead" =>
              \/ /\ pc[q] \in {"recover", "recover_write"}
                 /\ s \in todo[q] /\ view[q][s] = "active"
              \/ pc[q] = "recover_write" /\ s = target[q]
<1>1. TypeOK /\ DueIsDead /\ \A q \in Process : Pending(q)
  BY DEF IInv, RecoverInv, RecoveryIsPending
<1>2. /\ DueIsDead' /\ pc[p] # "dead"
      /\ \A s \in Process : pc[s] = "dead" /\ json'[s] = "active"
                               => json[s] = "active"
  BY <1>1, DeadStays
<1>3. \A q \in Process : due[q] \subseteq Process
  BY <1>1 DEF TypeOK
<1>4. ASSUME NEW q \in Process, q # p PROVE Pending(q)'
  <2>1. /\ pc'[q] = pc[q] /\ reason'[q] = reason[q]
        /\ view'[q] = view[q] /\ todo'[q] = todo[q]
        /\ target'[q] = target[q] /\ due'[q] = due[q]
    BY <1>1, <1>4, OthersUnchanged
  <2> QED
    BY <1>1, <1>2, <1>3, <2>1 DEF DueIsDead, BeforeList
<1>5. Pending(p)'
  <2> USE <1>1 DEF TypeOK, Goto, locks, BeforeList
  <2>1. CASE Launch(p)
    BY <2>1 DEF Launch
  <2>2. CASE TakeQuotaLock(p)
    BY <2>2 DEF TakeQuotaLock
  <2>3. CASE RecoverList(p)
    BY <2>3 DEF RecoverList, List, Gone
  <2>4. CASE RecoverWrite(p)
    <3>1. target[p] \in Process
      BY <2>4 DEF IInv, TargetHasNoOwner, RecoverWrite
    <3>2. /\ pc'[p] = "recover" /\ pc[p] = "recover_write"
          /\ UNCHANGED <<view, todo>>
      BY <2>4 DEF RecoverWrite
    <3>3. /\ due'[p] \subseteq due[p]
          /\ target[p] \in due'[p] => json'[target[p]] = "interrupted"
          /\ \A s \in Process : s # target[p] => json'[s] = json[s]
      BY <1>3, <2>4, <3>1 DEF RecoverWrite
    <3>4. ASSUME NEW s \in due'[p], json'[s] = "active"
          PROVE  s \in todo[p] /\ view[p][s] = "active"
      <4>1. s \in due[p] /\ s \in Process /\ s # target[p]
        BY <1>3, <3>3, <3>4
      <4>2. json[s] = "active"
        BY <3>3, <3>4, <4>1
      <4>3. QED
        BY <3>2, <4>1, <4>2
    <3> QED
      BY <3>2, <3>4
  <2>5. CASE RecoverDone(p)
    BY <2>5 DEF RecoverDone
  <2>6. CASE PruneList(p)
    BY <2>6 DEF PruneList
  <2>7. CASE Remove(p)
    BY <1>3, <2>7 DEF Remove
  <2>8. CASE PruneDone(p)
    BY <2>8 DEF PruneDone
  <2>9. ASSUME NEW s \in Process, RecoverTry(p, s) PROVE Pending(p)'
    <3>1. /\ pc[p] = "recover" /\ s \in todo[p]
          /\ todo'[p] = todo[p] \ {s}
          /\ UNCHANGED <<json, view, due, reason>>
      BY <2>9 DEF RecoverTry, NextListed
    <3>2. CASE Recoverable(p, s) /\ MayTouch(s)
      <4>1. pc'[p] = "recover_write" /\ target'[p] = s
        BY <2>9, <3>2 DEF RecoverTry
      <4> QED
        BY <3>1, <4>1
    <3>3. CASE ~(Recoverable(p, s) /\ MayTouch(s))
      <4>1. pc'[p] = pc[p]
        BY <2>9, <3>3 DEF RecoverTry
      <4>2. s \in due[p] => view[p][s] # "active"
        BY <3>3 DEF Recoverable, MayTouch, DueIsDead
      <4> QED
        BY <3>1, <4>1, <4>2
    <3> QED
      BY <3>2, <3>3
  <2>10. ASSUME NEW s \in Process, PruneTry(p, s) PROVE Pending(p)'
    BY <2>10 DEF PruneTry
  <2>11. CASE Own(p)
    BY <2>11 DEF Own
  <2>12. CASE PublishSession(p)
    BY <2>12 DEF PublishSession, DueIsDead
  <2>13. ASSUME NEW why \in {"record", "close"}, EnforceQuota(p, why)
         PROVE  Pending(p)'
    BY <2>13 DEF EnforceQuota
  <2>14. CASE Save(p)
    BY <2>14 DEF Save, DueIsDead
  <2>15. CASE Release(p)
    BY <2>15 DEF Release
  <2>16. CASE Crash(p)
    BY <2>16 DEF Crash
  <2>17. ASSUME NEW s \in Process, RecoverSkip(p, s) PROVE Pending(p)'
    <3>1. /\ pc[p] = "recover" /\ todo'[p] = todo[p] \ {s}
          /\ due'[p] = due[p] \ {s}
          /\ UNCHANGED <<pc, reason, json, view, target>>
      BY <2>17 DEF RecoverSkip, NextListed
    <3> QED
      BY <3>1
  <2>18. ASSUME NEW s \in Process, PruneSkip(p, s) PROVE Pending(p)'
    BY <2>18 DEF PruneSkip
  <2>19. CASE WriterFails(p)
    BY <2>19 DEF WriterFails
  <2> QED
    BY <2>1, <2>2, <2>3, <2>4, <2>5, <2>6, <2>7, <2>8, <2>9, <2>10, <2>11,
       <2>12, <2>13, <2>14, <2>15, <2>16, <2>17, <2>18, <2>19 DEF Step
<1> QED
  BY <1>2, <1>4, <1>5 DEF RecoverInv, RecoveryIsPending

\* For any number of launches, crashes at any point, disk errors and other
\* launches that recover and prune at the same time: of the sessions it found
\* dead, a launch that starts recording leaves active only those that an I/O
\* error kept it from reading, locking or rewriting.
THEOREM RecoveryIsComplete == Spec => []LaunchRecovers
<1>1. Init => RecoverInv
  BY DEF Init, RecoverInv, DueIsDead, RecoveryIsPending
<1>2. IInv /\ RecoverInv /\ [Next]_vars => RecoverInv'
  <2> SUFFICES ASSUME IInv, RecoverInv, [Next]_vars PROVE RecoverInv'
    OBVIOUS
  <2>1. CASE Next
    BY <2>1, StepRecovery DEF Next
  <2>2. CASE UNCHANGED vars
    BY <2>2 DEF vars, RecoverInv, DueIsDead, RecoveryIsPending,
                BeforeList
  <2> QED
    BY <2>1, <2>2
<1>3. RecoverInv => LaunchRecovers
  BY DEF RecoverInv, RecoveryIsPending, LaunchRecovers
<1> QED
  BY <1>1, <1>2, <1>3, Invariance, PTL DEF Spec
=============================================================================
