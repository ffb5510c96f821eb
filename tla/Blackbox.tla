------------------------------ MODULE Blackbox ------------------------------
(***************************************************************************)
(* One session of the blackbox recorder of the ground station,             *)
(* tools/ground_station/blackbox.py: the viewer thread that offers items   *)
(* and closes the recorder, the writer thread, the compressor thread, the  *)
(* session's files, a crash of the process at any moment and the recovery  *)
(* by the next launch.                                                     *)
(*                                                                         *)
(* Items and chunks are numbered in the order in which they are made.  A   *)
(* chunk file is the set of items it holds; the tail torn by a crash ends  *)
(* the file and hides nothing before it.  Elapsed time and file sizes are  *)
(* left to choice: a chunk may rotate, a flush, a quota scan or a timeout  *)
(* may be due, and the quota may be exceeded, whenever the code looks.     *)
(* Other sessions and other processes are in BlackboxStore.                *)
(***************************************************************************)
EXTENDS Integers, Sequences, FiniteSets, FiniteSetsExt

CONSTANT
    Scenarios    \* the bounds and faults under which a session may run

ChunkKind == {"raw", "csv"}

\* queue is BlackboxConfig.queue_size; kinds are the items offered ("csv" is a
\* sample); items bounds what is offered besides the closing event, rotations
\* the chunks closed before the end and prunes the chunks pruned.  A hostile
\* session may meet I/O errors, a close() that times out and a crash.
Scenario == [queue: Nat \ {0}, kinds: SUBSET (ChunkKind \cup {"event"}),
             items: Nat, rotations: Nat, prunes: Nat, hostile: BOOLEAN]

ASSUME BlackboxAssumption == Scenarios \subseteq Scenario

Item == [kind: ChunkKind \cup {"event"}, id: Int]
Stop == [kind |-> "stop", id |-> 0]
ChunkState == {"compressing", "compressed", "compression_failed", "pruned",
               "uncompressed_after_interruption"}
SessionState == {"active", "completed", "completed_with_errors", "interrupted"}

VARIABLES
    scenario,       \* the scenario of this session
    vpc,            \* viewer thread: where it is in close(), or "dead"
    offered,        \* history: items offered by the viewer
    notices,        \* history: items offered by the writer about pruning
    queue,          \* _queue
    stopRequested,  \* _stop_requested
    healthy,        \* _healthy
    errors,         \* _errors # []
    dropped,        \* _dropped_items
    state,          \* _metadata["state"]
    wpc,            \* writer thread
    hand,           \* writer: the item it took, as a sequence
    current,        \* _raw_path, _csv_path: the open chunk per kind; 0: none
    buffered,       \* items in the stream buffer of the open chunk, per kind
    candidates,     \* _enforce_quota_locked: the chunks it may still prune
    chunks,         \* _chunks: the inventory, in the order of closing
    cpc,            \* compressor thread
    tasks,          \* _compress_queue: inventory indexes; 0 is None
    task,           \* compressor: the inventory index it works on
    kindOf,         \* files: the kind of each chunk ever opened
    stored,         \* files: the items in each chunk
    plain, gz, tmp, \* files: the chunks with a .sbb/.csv, .gz, .gz.tmp file
    events,         \* files: the items in events.jsonl
    saved,          \* files: session.json
    pruned          \* history: chunks deleted by the quota

offers == <<offered, notices, stopRequested>>
viewer == <<vpc, offers>>
shared == <<queue, healthy, errors, dropped>>
writer == <<wpc, hand, current, buffered>>
compressor == <<cpc, task>>
files == <<kindOf, stored, plain, gz, tmp, events, saved, pruned>>
vars == <<scenario, viewer, shared, state, writer, candidates, chunks, compressor,
          tasks, files>>

NoStreams == [k \in ChunkKind |-> 0]
NoBuffers == [k \in ChunkKind |-> {}]

\* The session has just been created: session.json says "active".
Init ==
    /\ scenario \in Scenarios
    /\ vpc = "run" /\ offered = 0 /\ stopRequested = FALSE
    /\ queue = <<>> /\ healthy = TRUE /\ errors = FALSE /\ dropped = 0
    /\ state = "active"
    /\ wpc = "loop" /\ notices = 0 /\ hand = <<>>
    /\ current = NoStreams /\ buffered = NoBuffers
    /\ candidates = {} /\ chunks = <<>>
    /\ cpc = "idle" /\ task = 0 /\ tasks = <<>>
    /\ kindOf = <<>> /\ stored = <<>> /\ plain = {} /\ gz = {} /\ tmp = {}
    /\ events = {} /\ saved = [state |-> "active", chunks |-> <<>>]
    /\ pruned = {}

-----------------------------------------------------------------------------
(* The queue and the error flag.                                            *)

\* put_nowait with its overflow branch.
Enqueue(item) ==
    IF Len(queue) < scenario.queue
    THEN queue' = Append(queue, item) /\ UNCHANGED <<dropped, errors>>
    ELSE dropped' = dropped + 1 /\ errors' = TRUE /\ UNCHANGED queue

\* _put: nothing is taken, and nothing counted, once the recorder stops or
\* has failed.
Put(item) ==
    IF stopRequested \/ ~healthy THEN UNCHANGED <<queue, dropped, errors>>
    ELSE Enqueue(item)

SetError == healthy' = FALSE /\ errors' = TRUE

-----------------------------------------------------------------------------
(* The viewer thread.                                                       *)

\* raw(), sample(), event().
Offer(k) ==
    /\ vpc = "run" /\ offered < scenario.items
    /\ offered' = offered + 1
    /\ Put([kind |-> k, id |-> offered + 1])
    /\ UNCHANGED <<vpc, notices, stopRequested, healthy, state, writer,
                   candidates, chunks, compressor, tasks, files>>

\* close: the session_stop event, then _stop_requested.
Close ==
    /\ vpc = "run"
    /\ offered' = offered + 1
    /\ Put([kind |-> "event", id |-> offered + 1])
    /\ stopRequested' = TRUE
    /\ vpc' = "check_writer"
    /\ UNCHANGED <<notices, healthy, state, writer, candidates, chunks,
                   compressor, tasks, files>>

\* A writer that has ended already gets no stop item.
CheckWriter ==
    /\ vpc = "check_writer"
    /\ vpc' = IF wpc = "done" THEN "wait_writer" ELSE "put_stop"
    /\ UNCHANGED <<offers, shared, state, writer, candidates,
                   chunks, compressor, tasks, files>>

\* Wrong variant: a full queue is not waited for and the stop item is lost.
PutStop_NoWait ==
    /\ vpc = "put_stop"
    /\ queue' = IF Len(queue) < scenario.queue THEN Append(queue, Stop) ELSE queue
    /\ vpc' = "wait_writer"
    /\ UNCHANGED <<offers, healthy, errors, dropped, state,
                   writer, candidates, chunks, compressor, tasks, files>>

\* The stop item is queued as soon as there is room.
PutStop ==
    /\ vpc = "put_stop"
    /\ Len(queue) < scenario.queue
    /\ queue' = Append(queue, Stop)
    /\ vpc' = "wait_writer"
    /\ UNCHANGED <<offers, healthy, errors, dropped, state,
                   writer, candidates, chunks, compressor, tasks, files>>

\* The writer has ended: the compressor is told to end after its last chunk.
WaitWriter ==
    /\ vpc = "wait_writer"
    /\ wpc = "done"
    /\ tasks' = Append(tasks, 0)
    /\ vpc' = "wait_compressor"
    /\ UNCHANGED <<offers, shared, state, writer, candidates,
                   chunks, compressor, files>>

\* Wrong variant: a failed compression does not show in the state.
FinalState_HealthOnly ==
    IF healthy THEN "completed" ELSE "completed_with_errors"

\* The state a closed session ends in.
FinalState ==
    IF healthy /\ ~errors THEN "completed" ELSE "completed_with_errors"

\* The inventory indexes of the chunks of kind k that could be pruned.
Available(k) ==
    {i \in DOMAIN chunks :
        /\ chunks[i].state \in {"compressed", "compression_failed"}
        /\ kindOf[chunks[i].chunk] = k}

\* The newest of a set of indexes: those with fewer than n newer ones.
Newest(n, indexes) ==
    {i \in indexes : Cardinality({j \in indexes : j > i}) < n}

\* Wrong variant: only the newest chunk of each kind is protected.
Protected_One == UNION {Newest(1, Available(k)) : k \in ChunkKind}

\* The two newest available chunks of each kind are protected.
Protected == UNION {Newest(2, Available(k)) : k \in ChunkKind}

Prunable == (UNION {Available(k) : k \in ChunkKind}) \ Protected

\* The quota is exceeded or not when _enforce_quota_locked looks.
ScanQuota == candidates' \in {{}, Prunable}

\* close: the compressor has ended; the final state is set and the quota
\* enforced.
WaitCompressor ==
    /\ vpc = "wait_compressor"
    /\ cpc = "done"
    /\ state' = FinalState
    /\ ScanQuota
    /\ vpc' = "prune"
    /\ UNCHANGED <<offers, shared, writer, chunks, compressor,
                   tasks, files>>

\* close: session.json is replaced and the ownership lock released.
SaveFinal ==
    /\ vpc = "prune" /\ candidates = {}
    /\ saved' = [state |-> state, chunks |-> chunks]
    /\ vpc' = "closed"
    /\ UNCHANGED <<offers, shared, state, writer, candidates,
                   chunks, compressor, tasks, kindOf, stored, plain, gz, tmp,
                   events, pruned>>

SaveFinalFails ==
    /\ scenario.hostile
    /\ vpc = "prune" /\ candidates = {}
    /\ SetError
    /\ vpc' = "gave_up"
    /\ UNCHANGED <<offers, queue, dropped, state, writer,
                   candidates, chunks, compressor, tasks, files>>

\* close gives up: the queue stays full for 2 s, the writer needs more than
\* 15 s or the compressor more than 30 s.
Timeout ==
    /\ scenario.hostile
    /\ \/ vpc = "put_stop" /\ Len(queue) = scenario.queue
       \/ vpc = "wait_writer" /\ wpc # "done"
       \/ vpc = "wait_compressor" /\ cpc # "done"
    /\ SetError
    /\ vpc' = "gave_up"
    /\ UNCHANGED <<offers, queue, dropped, state, writer,
                   candidates, chunks, compressor, tasks, files>>

-----------------------------------------------------------------------------
(* Pruning the session's own chunks, by the writer or by close().           *)

\* The file that is deleted for inventory entry i.
FileGone(i) ==
    LET c == chunks[i].chunk
    IN  IF chunks[i].state = "compressed"
        THEN gz' = gz \ {c} /\ UNCHANGED plain
        ELSE plain' = plain \ {c} /\ UNCHANGED gz

FileExists(i) ==
    chunks[i].chunk \in (IF chunks[i].state = "compressed" THEN gz ELSE plain)

\* Deletes the oldest candidate; usage may be below the target afterwards.
PruneOne ==
    LET i == Min(candidates)
    IN  /\ candidates # {} /\ FileExists(i)
        /\ Cardinality(pruned) < scenario.prunes
        /\ FileGone(i)
        /\ chunks' = [chunks EXCEPT ![i].state = "pruned"]
        /\ pruned' = pruned \cup {chunks[i].chunk}
        /\ candidates' \in {{}, candidates \ {i}}
        /\ UNCHANGED <<kindOf, stored, tmp, events, saved>>

\* The file is gone already or cannot be deleted: the next candidate.
SkipOne ==
    /\ candidates # {}
    /\ ~FileExists(Min(candidates)) \/ scenario.hostile
       \/ Cardinality(pruned) = scenario.prunes
    /\ candidates' = candidates \ {Min(candidates)}
    /\ UNCHANGED <<chunks, files>>

ViewerPrunes ==
    /\ vpc = "prune"
    /\ PruneOne \/ SkipOne
    /\ UNCHANGED <<viewer, shared, state, writer, compressor, tasks>>

\* _enforce_quota_locked in the writer: after each chunk an event, unless the
\* recorder stops.
WriterPrunes ==
    /\ wpc = "prune"
    /\ \/ PruneOne /\ wpc' = IF stopRequested \/ ~healthy THEN "prune"
                             ELSE "prune_event"
       \/ SkipOne /\ UNCHANGED wpc
    /\ UNCHANGED <<viewer, shared, state, hand, current, buffered, compressor,
                   tasks>>

\* The event about the pruned chunk: _put has looked at _stop_requested
\* before, so it may be queued after the stop item.
PruneEvent ==
    /\ wpc = "prune_event"
    /\ notices' = notices + 1
    /\ Enqueue([kind |-> "event", id |-> -notices - 1])
    /\ wpc' = "prune"
    /\ UNCHANGED <<vpc, offered, stopRequested, healthy, state, hand, current,
                   buffered, candidates, chunks, compressor, tasks, files>>

-----------------------------------------------------------------------------
(* The writer thread.                                                       *)

Get ==
    /\ wpc = "loop" /\ queue # <<>>
    /\ queue' = Tail(queue)
    /\ IF Head(queue) = Stop
       THEN wpc' = "final_raw" /\ UNCHANGED hand
       ELSE wpc' = "write" /\ hand' = <<Head(queue)>>
    /\ UNCHANGED <<viewer, healthy, errors, dropped, state, current, buffered,
                   candidates, chunks, compressor, tasks, files>>

\* _write_event: events.jsonl is line buffered.
WriteEvent ==
    /\ wpc = "write" /\ hand[1].kind = "event"
    /\ events' = events \cup {hand[1].id}
    /\ hand' = <<>> /\ wpc' = "loop"
    /\ UNCHANGED <<viewer, shared, state, current, buffered, candidates,
                   chunks, compressor, tasks, kindOf, stored, plain, gz, tmp,
                   saved, pruned>>

\* The first part of _close_chunk: the stream is flushed, synced and closed,
\* and the chunk entered in the inventory.
EnterChunk(k) ==
    /\ stored' = [stored EXCEPT ![current[k]] = @ \cup buffered[k]]
    /\ current' = [current EXCEPT ![k] = 0]
    /\ buffered' = [buffered EXCEPT ![k] = {}]
    /\ chunks' = Append(chunks, [chunk |-> current[k],
                                 state |-> "compressing"])

\* Wrong variant: the stream is closed without its buffer.
CloseChunk_NoFlush(k) ==
    /\ current' = [current EXCEPT ![k] = 0]
    /\ buffered' = [buffered EXCEPT ![k] = {}]
    /\ chunks' = Append(chunks, [chunk |-> current[k],
                                 state |-> "compressing"])
    /\ tasks' = Append(tasks, Len(chunks) + 1)
    /\ UNCHANGED stored

\* _close_chunk: the chunk is also handed to the compressor.
CloseChunk(k) ==
    /\ EnterChunk(k)
    /\ tasks' = Append(tasks, Len(chunks) + 1)

\* The open chunk is too large or too old for the item at hand.
Rotate ==
    /\ wpc = "write" /\ hand[1].kind \in ChunkKind
    /\ current[hand[1].kind] # 0 /\ Len(chunks) < scenario.rotations
    /\ CloseChunk(hand[1].kind)
    /\ UNCHANGED <<viewer, shared, state, wpc, hand, candidates, compressor,
                   kindOf, plain, gz, tmp, events, saved, pruned>>

\* _write_raw, _write_sample: opens a chunk if there is none.
Write ==
    LET k == hand[1].kind
    IN  /\ wpc = "write" /\ k \in ChunkKind
        /\ \/ /\ current[k] # 0
              /\ UNCHANGED <<current, kindOf, stored, plain>>
           \/ /\ current[k] = 0
              /\ current' = [current EXCEPT ![k] = Len(kindOf) + 1]
              /\ kindOf' = Append(kindOf, k)
              /\ stored' = Append(stored, {})
              /\ plain' = plain \cup {Len(kindOf) + 1}
        /\ buffered' = [buffered EXCEPT ![k] = @ \cup {hand[1].id}]
        /\ hand' = <<>> /\ wpc' = "loop"
        /\ UNCHANGED <<viewer, shared, state, candidates, chunks, compressor,
                       tasks, gz, tmp, events, saved, pruned>>

\* What every chunk holds once the buffers are written.
Flushed == [c \in DOMAIN stored |->
               stored[c] \cup UNION {buffered[k] : k \in
                                         {j \in ChunkKind : current[j] = c}}]

Flush ==
    /\ wpc = "loop"
    /\ stored' = Flushed
    /\ buffered' = NoBuffers
    /\ UNCHANGED <<viewer, shared, state, wpc, hand, current, candidates,
                   chunks, compressor, tasks, kindOf, plain, gz, tmp, events,
                   saved, pruned>>

\* Every ten seconds, after a flush.
WriterQuota ==
    /\ wpc = "loop" /\ buffered = NoBuffers
    /\ ScanQuota
    /\ wpc' = "prune"
    /\ UNCHANGED <<viewer, shared, state, hand, current, buffered, chunks,
                   compressor, tasks, files>>

WriterSaves ==
    /\ wpc = "prune" /\ candidates = {}
    /\ saved' = [state |-> state, chunks |-> chunks]
    /\ wpc' = "loop"
    /\ UNCHANGED <<viewer, shared, state, hand, current, buffered, candidates,
                   chunks, compressor, tasks, kindOf, stored, plain, gz, tmp,
                   events, pruned>>

\* The chunk of kind k is dropped by a failing _close_chunk: the stream is
\* forgotten, its buffer perhaps written when the stream is collected.
LoseStream(k) ==
    /\ \E kept \in {{}, buffered[k]} :
          stored' = [stored EXCEPT ![current[k]] = @ \cup kept]
    /\ current' = [current EXCEPT ![k] = 0]
    /\ buffered' = [buffered EXCEPT ![k] = {}]
    /\ UNCHANGED chunks

\* _close_chunk fails: before the inventory, or between the inventory and the
\* compressor, which then never hears of the chunk.
CloseFails(k) ==
    /\ LoseStream(k) \/ EnterChunk(k)
    /\ UNCHANGED <<kindOf, plain, gz, tmp, events, saved, pruned>>

\* An exception in the loop: the item at hand is lost.
WriterFails ==
    /\ scenario.hostile
    /\ wpc \in {"loop", "write", "prune"}
    /\ SetError
    /\ hand' = <<>> /\ candidates' = {} /\ wpc' = "final_raw"
    /\ \/ UNCHANGED <<current, buffered, chunks, files>>
       \/ /\ wpc = "write" /\ hand[1].kind \in ChunkKind
          /\ current[hand[1].kind] # 0
          /\ CloseFails(hand[1].kind)
    /\ UNCHANGED <<viewer, queue, dropped, state, compressor, tasks>>

FinalKind == IF wpc = "final_raw" THEN "raw" ELSE "csv"

\* The finally block: both chunks are closed, then everything is synced.
FinalClose ==
    /\ wpc \in {"final_raw", "final_csv"}
    /\ \/ current[FinalKind] # 0 /\ CloseChunk(FinalKind)
       \/ /\ current[FinalKind] = 0
          /\ UNCHANGED <<stored, current, buffered, chunks, tasks>>
    /\ wpc' = IF wpc = "final_raw" THEN "final_csv" ELSE "final_flush"
    /\ UNCHANGED <<viewer, shared, state, hand, candidates, compressor,
                   kindOf, plain, gz, tmp, events, saved, pruned>>

FinalFlush ==
    /\ wpc = "final_flush"
    /\ wpc' = "done"
    /\ UNCHANGED <<viewer, shared, state, hand, current, buffered, candidates,
                   chunks, compressor, tasks, files>>

FinalFails ==
    /\ scenario.hostile
    /\ wpc \in {"final_raw", "final_csv", "final_flush"}
    /\ SetError
    /\ wpc' = "done"
    /\ \/ UNCHANGED <<current, buffered, chunks, files>>
       \/ wpc # "final_flush" /\ current[FinalKind] # 0
          /\ CloseFails(FinalKind)
    /\ UNCHANGED <<viewer, queue, dropped, state, hand, candidates,
                   compressor, tasks>>

-----------------------------------------------------------------------------
(* The compressor thread.                                                   *)

TaskChunk == chunks[task].chunk

GetTask ==
    /\ cpc = "idle" /\ tasks # <<>>
    /\ tasks' = Tail(tasks)
    /\ IF Head(tasks) = 0
       THEN cpc' = "done" /\ UNCHANGED task
       ELSE cpc' = "compress" /\ task' = Head(tasks)
    /\ UNCHANGED <<viewer, shared, state, writer, candidates, chunks, files>>

\* The temporary file is written and read back.
Compress ==
    /\ cpc = "compress"
    /\ tmp' = tmp \cup {TaskChunk}
    /\ cpc' = "replace"
    /\ UNCHANGED <<viewer, shared, state, writer, candidates, chunks, task,
                   tasks, kindOf, stored, plain, gz, events, saved, pruned>>

\* Wrong variant: the original is deleted before its replacement exists.
Replace_UnlinkFirst ==
    /\ cpc = "replace"
    /\ plain' = plain \ {TaskChunk}
    /\ cpc' = "unlink"
    /\ UNCHANGED <<viewer, shared, state, writer, candidates, chunks, task,
                   tasks, kindOf, stored, gz, tmp, events, saved, pruned>>

\* os.replace.
Replace ==
    /\ cpc = "replace"
    /\ tmp' = tmp \ {TaskChunk} /\ gz' = gz \cup {TaskChunk}
    /\ cpc' = "unlink"
    /\ UNCHANGED <<viewer, shared, state, writer, candidates, chunks, task,
                   tasks, kindOf, stored, plain, events, saved, pruned>>

Unlink ==
    /\ cpc = "unlink"
    /\ plain' = plain \ {TaskChunk}
    /\ cpc' = "record"
    /\ UNCHANGED <<viewer, shared, state, writer, candidates, chunks, task,
                   tasks, kindOf, stored, gz, tmp, events, saved, pruned>>

Record ==
    /\ cpc = "record"
    /\ chunks' = [chunks EXCEPT ![task].state = "compressed"]
    /\ cpc' = "idle" /\ task' = 0
    /\ UNCHANGED <<viewer, shared, state, writer, candidates, tasks, files>>

\* Any step may raise; a full or read-only disk also marks the recorder.
CompressFails ==
    /\ scenario.hostile
    /\ cpc \in {"compress", "replace", "unlink", "record"}
    /\ tmp' = tmp \ {TaskChunk}
    /\ chunks' = [chunks EXCEPT ![task].state = "compression_failed"]
    /\ errors' = TRUE /\ healthy' \in {healthy, FALSE}
    /\ cpc' = "idle" /\ task' = 0
    /\ UNCHANGED <<viewer, queue, dropped, state, writer, candidates, tasks,
                   kindOf, stored, plain, gz, events, saved, pruned>>

-----------------------------------------------------------------------------
(* The end of the process and the next launch.                              *)

\* The process is killed, or exits after close() gave up: memory is gone, of
\* each stream buffer a part may have been written.
Crash ==
    /\ vpc \notin {"closed", "dead"}
    /\ scenario.hostile \/ vpc = "gave_up"
    /\ \E n \in 0 .. scenario.items :
          stored' = [c \in DOMAIN stored |->
                        stored[c] \cup {x \in Flushed[c] : x <= n}]
    /\ vpc' = "dead"
    /\ wpc' = "done" /\ cpc' = "done" /\ task' = 0 /\ tasks' = <<>>
    /\ queue' = <<>> /\ hand' = <<>>
    /\ current' = NoStreams /\ buffered' = NoBuffers
    /\ candidates' = {} /\ chunks' = <<>>
    /\ UNCHANGED <<offers, healthy, errors, dropped, state,
                   kindOf, plain, gz, tmp, events, saved, pruned>>

\* The chunk files after the recovery: only temporary files are deleted.
Recovered == [plain |-> plain, tmp |-> {}]

\* _recover_interrupted_sessions_locked, for this session.  A temporary file
\* that cannot be deleted stays; so does session.json, which the next launch
\* tries again, when it cannot be replaced.
Recover ==
    /\ vpc = "dead" /\ saved.state = "active"
    /\ plain' = Recovered.plain /\ tmp' \in {Recovered.tmp, tmp}
    /\ \/ saved' = [state |-> "interrupted",
                    chunks |-> [i \in DOMAIN saved.chunks |->
                       IF saved.chunks[i].state = "compressing"
                       THEN [saved.chunks[i] EXCEPT
                                !.state = "uncompressed_after_interruption"]
                       ELSE saved.chunks[i]]]
       \/ UNCHANGED saved
    /\ UNCHANGED <<viewer, shared, state, writer, candidates, chunks,
                   compressor, tasks, kindOf, stored, gz, events, pruned>>

-----------------------------------------------------------------------------

Viewer == \/ \E k \in scenario.kinds : Offer(k)
          \/ Close \/ CheckWriter \/ PutStop \/ WaitWriter \/ WaitCompressor
          \/ ViewerPrunes \/ SaveFinal \/ SaveFinalFails \/ Timeout
Writer == \/ Get \/ WriteEvent \/ Rotate \/ Write \/ Flush
          \/ WriterQuota \/ WriterPrunes \/ PruneEvent \/ WriterSaves
          \/ WriterFails \/ FinalClose \/ FinalFlush \/ FinalFails
Compressor == \/ GetTask \/ Compress \/ Replace \/ Unlink \/ Record
              \/ CompressFails

Next == /\ Viewer \/ Writer \/ Compressor \/ Crash \/ Recover
        /\ UNCHANGED scenario

Spec == Init /\ [][Next]_vars

Closing == /\ \/ CheckWriter \/ PutStop \/ WaitWriter \/ WaitCompressor
              \/ ViewerPrunes \/ SaveFinal
           /\ UNCHANGED scenario
Writing == /\ \/ WriteEvent \/ Write \/ FinalClose \/ FinalFlush
              \/ WriterSaves \/ WriterPrunes \/ PruneEvent
           /\ UNCHANGED scenario

\* Each thread keeps running; the loop of the writer comes back to its queue,
\* since its timed flushes and scans are a second and more apart.
FairSpec ==
    /\ Spec
    /\ WF_vars(Closing)
    /\ WF_vars(Writing)
    /\ SF_vars(Get /\ UNCHANGED scenario)
    /\ WF_vars(Compressor /\ UNCHANGED scenario)

-----------------------------------------------------------------------------
(* Properties.                                                              *)

\* Chunk c has a file that can be read.
Readable(c) == c \in plain \cup gz

\* Every variable stays in its type; the item queue within scenario.queue and
\* every task of the compressor inside the inventory.
TypeOK ==
    /\ vpc \in {"run", "check_writer", "put_stop", "wait_writer",
                "wait_compressor", "prune", "closed", "gave_up", "dead"}
    /\ offered \in 0 .. scenario.items + 1 /\ stopRequested \in BOOLEAN
    /\ queue \in Seq(Item \cup {Stop}) /\ Len(queue) <= scenario.queue
    /\ healthy \in BOOLEAN /\ errors \in BOOLEAN /\ dropped \in Nat
    /\ state \in SessionState
    /\ wpc \in {"loop", "write", "prune", "prune_event", "final_raw",
                "final_csv", "final_flush", "done"}
    /\ hand \in Seq(Item) /\ Len(hand) <= 1
    /\ current \in [ChunkKind -> 0 .. Len(kindOf)]
    /\ buffered \in [ChunkKind -> SUBSET Nat]
    /\ candidates \subseteq 1 .. Len(chunks)
    /\ chunks \in Seq([chunk: 1 .. Len(kindOf), state: ChunkState])
    /\ cpc \in {"idle", "compress", "replace", "unlink", "record", "done"}
    /\ tasks \in Seq(0 .. Len(chunks)) /\ task \in 0 .. Len(chunks)
    /\ kindOf \in Seq(ChunkKind)
    /\ stored \in [1 .. Len(kindOf) -> SUBSET Nat]
    /\ plain \cup gz \cup tmp \cup pruned \subseteq 1 .. Len(kindOf)
    /\ events \subseteq Int /\ notices \in Nat
    /\ saved.state \in SessionState

\* Where an item can be found while the process runs.
Held == {queue[i].id : i \in DOMAIN queue}
           \cup {hand[i].id : i \in DOMAIN hand}
Kept == events \cup (UNION {buffered[k] : k \in ChunkKind})
               \cup (UNION {stored[c] : c \in {d \in DOMAIN stored :
                                                  Readable(d) \/ d \in pruned}})

\* As long as the recorder is healthy, every item offered is queued, written
\* or counted in dropped_items; none vanishes in a rotation, in a compression
\* that fails or when close() races the writer.
NoSilentLoss ==
    healthy /\ vpc # "dead"
        => Cardinality((Held \cup Kept) \ {Stop.id}) + dropped
               = offered + notices

\* "A session left active by a crash ... remains readable": at every moment,
\* also between two steps of a compression, every chunk ever opened has a
\* readable file unless the quota deleted it.
ChunksStayReadable ==
    \A c \in 1 .. Len(kindOf) : Readable(c) \/ c \in pruned

\* "During a clean shutdown, the recorder drains and syncs the writer before
\* it finishes compression and marks the session complete": a completed
\* session holds every item offered, and its inventory names the one file of
\* every chunk.
CompletedIsComplete ==
    saved.state = "completed" =>
        /\ dropped = 0 /\ 1 .. offered \subseteq Kept
        /\ UNION {buffered[k] : k \in ChunkKind} = {}
        /\ {saved.chunks[i].chunk : i \in DOMAIN saved.chunks}
              = 1 .. Len(kindOf)
        /\ \A i \in DOMAIN saved.chunks :
              LET c == saved.chunks[i].chunk
              IN  \/ saved.chunks[i].state = "pruned" /\ c \in pruned
                  \/ saved.chunks[i].state = "compressed"
                     /\ c \in gz \ (plain \cup tmp)

\* "... preserves the current chunk and at least the two newest completed
\* chunks of each kind": a pruned chunk has two newer closed chunks of its
\* kind that are not pruned.
NewestChunksKept ==
    \A i \in DOMAIN chunks :
        chunks[i].state = "pruned" =>
            Cardinality({j \in i + 1 .. Len(chunks) :
                /\ chunks[j].state # "pruned"
                /\ kindOf[chunks[j].chunk] = kindOf[chunks[i].chunk]}) >= 2

\* Without I/O errors close() needs none of its timeouts: viewer, writer and
\* compressor never wait for each other in a circle.
CloseCompletes ==
    ~scenario.hostile /\ vpc = "check_writer" ~> vpc = "closed"

=============================================================================
