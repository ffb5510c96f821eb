---------------------------- MODULE BlackboxStore ----------------------------
(***************************************************************************)
(* A logs directory shared by several ground-station processes             *)
(* (tools/ground_station/blackbox.py): how a launch recovers the sessions  *)
(* that crashed processes left active, how the quota removes old sessions, *)
(* and the two advisory locks, .quota.lock and .active.lock, that guard    *)
(* both.  Every launch makes one session, so process p owns session p;     *)
(* launches are numbered in the order of their start times.  Inside a      *)
(* session see Blackbox.                                                   *)
(*                                                                         *)
(* Usage is left to choice: the quota may be exceeded whenever the code    *)
(* looks and satisfied after any removal.  The disk may fail: a session    *)
(* that cannot be read, locked, rewritten or removed is passed over, and a *)
(* running process may lose its writer.  An error that ends a launch, or a *)
(* close(), keeps the locks until the process ends: to the directory it is *)
(* a Crash.                                                                *)
(***************************************************************************)
EXTENDS Integers

CONSTANT Launches   \* bound: number of launches

ASSUME StoreAssumption == Launches \in Nat \ {0}

Process == 1 .. Launches

VARIABLES
    pc,         \* where each process is
    reason,     \* why it enforces the quota: "launch", "record" or "close"
    quotaLock,  \* holder of .quota.lock; 0 if free
    owned,      \* whether .active.lock of a session is held by its process
    json,       \* state in session.json; "none" before, "removed" at the end
    view,       \* the states a process read in _session_directories
    todo,       \* the sessions of that list still to be looked at
    target,     \* the session whose lock it has just tried; 0 if none
    due         \* history: sessions dead when the launch read the list, less
                \* those an I/O error kept it from recovering

vars == <<pc, reason, quotaLock, owned, json, view, todo, target, due>>
locks == <<quotaLock, owned>>

SessionState == {"none", "active", "completed", "interrupted", "removed"}
Old == {"completed", "interrupted"}
Gone == {"none", "removed"}
Label == {"idle", "quota_wait", "recover_list", "recover", "recover_write",
          "prune_list", "prune", "remove", "own", "publish", "recording",
          "writer_failed", "save", "release", "exited", "dead"}

Init ==
    /\ pc = [p \in Process |-> "idle"]
    /\ reason = [p \in Process |-> "launch"]
    /\ quotaLock = 0
    /\ owned = [p \in Process |-> FALSE]
    /\ json = [p \in Process |-> "none"]
    /\ view = [p \in Process |-> json]
    /\ todo = [p \in Process |-> {}]
    /\ target = [p \in Process |-> 0]
    /\ due = [p \in Process |-> {}]

Goto(p, l) == pc' = [pc EXCEPT ![p] = l]

\* _session_directories: the list the process walks, oldest session first.
List(p) ==
    /\ view' = [view EXCEPT ![p] = json]
    /\ todo' = [todo EXCEPT ![p] = {s \in Process : json[s] \notin Gone}]

\* The list goes with the call or the process that made it.
DropList(p) ==
    /\ view' = [view EXCEPT ![p] = [s \in Process |-> "none"]]
    /\ todo' = [todo EXCEPT ![p] = {}]

\* s is the next session of the list.
NextListed(p, s) ==
    /\ s \in todo[p] /\ \A t \in todo[p] : s <= t
    /\ todo' = [todo EXCEPT ![p] = @ \ {s}]

-----------------------------------------------------------------------------
(* The launch: recovery, pruning, and the new session.                      *)

Launch(p) ==
    /\ pc[p] = "idle" /\ \A q \in 1 .. p - 1 : pc[q] # "idle"
    /\ Goto(p, "quota_wait")
    /\ UNCHANGED <<reason, locks, json, view, todo, target, due>>

\* A launch first recovers; a running process goes straight to pruning.
TakeQuotaLock(p) ==
    /\ pc[p] = "quota_wait" /\ quotaLock = 0
    /\ quotaLock' = p
    /\ Goto(p, IF reason[p] = "launch" THEN "recover_list" ELSE "prune_list")
    /\ UNCHANGED <<reason, owned, json, view, todo, target, due>>

RecoverList(p) ==
    /\ pc[p] = "recover_list"
    /\ List(p)
    /\ due' = [due EXCEPT ![p] = {s \in Process : pc[s] = "dead"}]
    /\ Goto(p, "recover")
    /\ UNCHANGED <<reason, locks, json, target>>

\* Wrong variant: a lock that is held does not stop the recovery.
MayTouch_Ignore(s) == TRUE

\* The lock of session s is acquired and released: nobody owns it.
MayTouch(s) == ~owned[s]

\* Wrong variant: only the session before this launch is looked at.
Recoverable_Last(p, s) == view[p][s] = "active" /\ s = p - 1

\* Only sessions read as active are tried.
Recoverable(p, s) == view[p][s] = "active"

RecoverTry(p, s) ==
    /\ pc[p] = "recover" /\ NextListed(p, s)
    /\ IF Recoverable(p, s) /\ MayTouch(s)
       THEN /\ target' = [target EXCEPT ![p] = s]
            /\ Goto(p, "recover_write")
       ELSE UNCHANGED <<target, pc>>
    /\ UNCHANGED <<reason, locks, json, view, due>>

\* The next session is passed over: its session.json cannot be read, or the
\* test of its lock fails.
RecoverSkip(p, s) ==
    /\ pc[p] = "recover" /\ NextListed(p, s)
    /\ due' = [due EXCEPT ![p] = @ \ {s}]
    /\ UNCHANGED <<pc, reason, locks, json, view, target>>

\* session.json is replaced by what was read, marked interrupted; when that
\* fails the session stays as it is, and recovery goes on with the next one.
RecoverWrite(p) ==
    /\ pc[p] = "recover_write"
    /\ \/ /\ json' = [json EXCEPT ![target[p]] = "interrupted"]
          /\ UNCHANGED due
       \/ /\ due' = [due EXCEPT ![p] = @ \ {target[p]}]
          /\ UNCHANGED json
    /\ target' = [target EXCEPT ![p] = 0]
    /\ Goto(p, "recover")
    /\ UNCHANGED <<reason, locks, view, todo>>

RecoverDone(p) ==
    /\ pc[p] = "recover" /\ todo[p] = {}
    /\ Goto(p, "prune_list")
    /\ UNCHANGED <<reason, locks, json, view, todo, target, due>>

\* Usage exceeds the quota, or not.
PruneList(p) ==
    /\ pc[p] = "prune_list"
    /\ \/ List(p)
       \/ UNCHANGED <<view, todo>>
    /\ Goto(p, "prune")
    /\ UNCHANGED <<reason, locks, json, target, due>>

\* Wrong variant: sessions in any state are removed if nobody owns them.
Removable_Any(p, s) == s # p

\* Only sessions read as finished are tried, never the process's own.
Removable(p, s) == s # p /\ view[p][s] \in Old

PruneTry(p, s) ==
    /\ pc[p] = "prune" /\ NextListed(p, s)
    /\ IF Removable(p, s) /\ MayTouch(s)
       THEN /\ target' = [target EXCEPT ![p] = s]
            /\ Goto(p, "remove")
       ELSE UNCHANGED <<target, pc>>
    /\ UNCHANGED <<reason, locks, json, view, due>>

\* As RecoverSkip.
PruneSkip(p, s) ==
    /\ pc[p] = "prune" /\ NextListed(p, s)
    /\ UNCHANGED <<pc, reason, locks, json, view, target, due>>

\* The directory is removed; usage may be low enough afterwards.  rmtree may
\* fail before or after it deleted session.json, and then the next session
\* is tried.
Remove(p) ==
    /\ pc[p] = "remove"
    /\ \/ /\ json' = [json EXCEPT ![target[p]] = "removed"]
          /\ \/ UNCHANGED todo
             \/ todo' = [todo EXCEPT ![p] = {}]
       \/ UNCHANGED <<json, todo>>
    /\ target' = [target EXCEPT ![p] = 0]
    /\ Goto(p, "prune")
    /\ UNCHANGED <<reason, locks, view, due>>

\* The quota lock is released.
PruneDone(p) ==
    /\ pc[p] = "prune" /\ todo[p] = {}
    /\ DropList(p)
    /\ quotaLock' = 0
    /\ Goto(p, IF reason[p] = "launch" THEN "own" ELSE "save")
    /\ UNCHANGED <<reason, owned, json, target, due>>

\* _create_session_dir, and the ownership lock of the new session.
Own(p) ==
    /\ pc[p] = "own"
    /\ owned' = [owned EXCEPT ![p] = TRUE]
    /\ Goto(p, "publish")
    /\ UNCHANGED <<reason, quotaLock, json, view, todo, target, due>>

\* The first session.json: from now on other processes see the session.
PublishSession(p) ==
    /\ pc[p] = "publish"
    /\ json' = [json EXCEPT ![p] = "active"]
    /\ Goto(p, "recording")
    /\ UNCHANGED <<reason, locks, view, todo, target, due>>

-----------------------------------------------------------------------------
(* Recording and closing.                                                   *)

\* The writer enforces the quota every ten seconds, close() once.
EnforceQuota(p, why) ==
    /\ \/ pc[p] = "recording"
       \/ pc[p] = "writer_failed" /\ why = "close"
    /\ reason' = [reason EXCEPT ![p] = why]
    /\ Goto(p, "quota_wait")
    /\ UNCHANGED <<locks, json, view, todo, target, due>>

\* A disk error, in the recording or in the periodic quota check or save, ends
\* the writer: only close() is left.
WriterFails(p) ==
    /\ \/ pc[p] = "recording"
       \/ pc[p] \in {"quota_wait", "save"} /\ reason[p] = "record"
    /\ Goto(p, "writer_failed")
    /\ UNCHANGED <<reason, locks, json, view, todo, target, due>>

\* session.json is replaced, outside the quota lock.
Save(p) ==
    /\ pc[p] = "save"
    /\ json' = [json EXCEPT ![p] = IF reason[p] = "close" THEN "completed"
                                   ELSE "active"]
    /\ Goto(p, IF reason[p] = "close" THEN "release" ELSE "recording")
    /\ UNCHANGED <<reason, locks, view, todo, target, due>>

Release(p) ==
    /\ pc[p] = "release"
    /\ owned' = [owned EXCEPT ![p] = FALSE]
    /\ Goto(p, "exited")
    /\ UNCHANGED <<reason, quotaLock, json, view, todo, target, due>>

\* A killed process loses its locks and its memory.
Crash(p) ==
    /\ pc[p] \notin {"idle", "exited", "dead"}
    /\ Goto(p, "dead")
    /\ owned' = [owned EXCEPT ![p] = FALSE]
    /\ quotaLock' = IF quotaLock = p THEN 0 ELSE quotaLock
    /\ DropList(p)
    /\ target' = [target EXCEPT ![p] = 0]
    /\ UNCHANGED <<reason, json, due>>

Step(p) ==
    \/ Launch(p) \/ TakeQuotaLock(p)
    \/ RecoverList(p) \/ RecoverWrite(p) \/ RecoverDone(p)
    \/ PruneList(p) \/ Remove(p) \/ PruneDone(p)
    \/ \E s \in Process : \/ RecoverTry(p, s) \/ RecoverSkip(p, s)
                          \/ PruneTry(p, s) \/ PruneSkip(p, s)
    \/ Own(p) \/ PublishSession(p)
    \/ \E why \in {"record", "close"} : EnforceQuota(p, why)
    \/ WriterFails(p) \/ Save(p) \/ Release(p) \/ Crash(p)

Next == \E p \in Process : Step(p)

Spec == Init /\ [][Next]_vars

-----------------------------------------------------------------------------
(* Properties.                                                              *)

\* Every variable stays in its type.
TypeOK ==
    /\ pc \in [Process -> Label]
    /\ reason \in [Process -> {"launch", "record", "close"}]
    /\ quotaLock \in Process \cup {0}
    /\ owned \in [Process -> BOOLEAN]
    /\ json \in [Process -> SessionState]
    /\ view \in [Process -> [Process -> SessionState]]
    /\ todo \in [Process -> SUBSET Process]
    /\ target \in [Process -> Process \cup {0}]
    /\ due \in [Process -> SUBSET Process]

\* "Multiple ground-station processes can safely share one logs directory:
\* recovery and pruning skip every session that is still owned by a running
\* process" (tools/ground_station/README.md): session.json of an owned session
\* changes only in a step of its own process.
OwnedSessionsUntouched ==
    [][\A s \in Process :
           owned[s] /\ json'[s] # json[s] => pc'[s] # pc[s]]_vars

\* "A session left active by a crash is marked interrupted on the next launch"
\* (tools/ground_station/README.md), as far as the disk allows: once a launch
\* starts recording, a session that was dead when it read the directory is
\* still active only if an I/O error kept this very launch from reading,
\* locking or rewriting it - neither a session owned by another process, nor
\* another launch, nor an error on another session gets in the way.  The next
\* launch finds it dead and tries again.
LaunchRecovers ==
    \A p \in Process : pc[p] \in {"own", "publish", "recording"} =>
        \A s \in due[p] : json[s] # "active"

\* A session is removed only once it is finished: what an active session had
\* recorded is never deleted.
OnlyFinishedRemoved ==
    [][\A s \in Process : json[s] = "active" => json'[s] # "removed"]_vars

\* "During a clean shutdown, the recorder ... marks the session complete": a
\* completed session is never marked interrupted afterwards.
CompletedStaysCompleted ==
    [][\A s \in Process :
           json[s] = "completed" => json'[s] # "interrupted"]_vars

=============================================================================
