--------------------------- MODULE BlackboxProofs ---------------------------
(***************************************************************************)
(* Proofs about one session of the blackbox recorder, for every scenario:  *)
(* any queue size, number of items, rotations and prunes, with and without *)
(* I/O errors, timeouts and a crash.                                       *)
(*                                                                         *)
(* ShapeInv is the ground the four results stand on.  A chunk stays        *)
(* readable because os.replace comes before unlink (ReadableInv); the      *)
(* newest chunks are kept because a candidate has two newer chunks that    *)
(* the scan protects and nobody but its own scan prunes (NewestInv); no    *)
(* item is lost because every step moves an item or counts it (LossInv);   *)
(* and a completed session is complete because the stop item is the last   *)
(* of the viewer's, the end of the compressor comes after its last chunk,  *)
(* and errors are never taken back (CompletionInv).                        *)
(***************************************************************************)
EXTENDS Blackbox, FiniteSetTheorems, SequenceTheorems, TLAPS

-----------------------------------------------------------------------------
(* The shape of the state.                                                  *)

Entry == [chunk: Nat \ {0}, state: ChunkState]

\* The compressor is at work on a chunk.
Working == cpc \in {"compress", "replace", "unlink", "record"}

\* The writer has not left its loop.
InLoop == wpc \in {"loop", "write", "prune", "prune_event"}

\* Chunks are numbered in the order in which they are opened.
FilesOK ==
    /\ kindOf \in Seq(ChunkKind)
    /\ stored \in Seq(SUBSET Nat) /\ Len(stored) = Len(kindOf)
    /\ plain \subseteq 1 .. Len(kindOf) /\ gz \subseteq 1 .. Len(kindOf)
    /\ tmp \subseteq 1 .. Len(kindOf) /\ pruned \subseteq 1 .. Len(kindOf)
    /\ events \in SUBSET Int

\* The inventory names chunks, and the tasks are places in the inventory.
InventoryOK ==
    /\ chunks \in Seq(Entry)
    /\ \A i \in DOMAIN chunks : chunks[i].chunk <= Len(kindOf)
    /\ candidates \subseteq DOMAIN chunks
    /\ tasks \in Seq(Nat)
    /\ \A j \in DOMAIN tasks : tasks[j] <= Len(chunks)
    /\ task \in 0 .. Len(chunks)
    /\ cpc \in {"idle", "compress", "replace", "unlink", "record", "done"}
    /\ Working <=> task # 0

\* An open chunk of kind k has a file of that kind; without one nothing of the
\* kind is buffered.
StreamsOK ==
    /\ current \in [ChunkKind -> Nat]
    /\ buffered \in [ChunkKind -> SUBSET Nat]
    /\ \A k \in ChunkKind :
           /\ current[k] <= Len(kindOf)
           /\ current[k] = 0 => buffered[k] = {}

\* The queue holds items, and the writer has one at hand while it writes.
QueueOK ==
    /\ queue \in Seq(Item \cup {Stop})
    /\ hand \in Seq(Item)
    /\ Len(hand) = IF wpc = "write" THEN 1 ELSE 0
    /\ \A i \in DOMAIN queue : queue[i].kind \in ChunkKind => queue[i].id > 0
    /\ \A i \in DOMAIN hand : hand[i].kind \in ChunkKind => hand[i].id > 0
    /\ wpc \in {"loop", "write", "prune", "prune_event", "final_raw",
                "final_csv", "final_flush", "done"}

\* The flags and counters of the viewer.
ViewerOK ==
    /\ scenario \in Scenario
    /\ vpc \in {"run", "check_writer", "put_stop", "wait_writer",
                "wait_compressor", "prune", "closed", "gave_up", "dead"}
    /\ offered \in Nat /\ notices \in Nat /\ dropped \in Nat
    /\ vpc = "run" => ~stopRequested
    /\ healthy \in BOOLEAN /\ errors \in BOOLEAN

ShapeInv == FilesOK /\ InventoryOK /\ StreamsOK /\ QueueOK /\ ViewerOK

\* The bounds of the queue and of the offers, and the states of the session.
BoundsInv ==
    /\ Len(queue) <= scenario.queue
    /\ offered <= scenario.items + 1
    /\ vpc = "run" => offered <= scenario.items
    /\ stopRequested \in BOOLEAN
    /\ state \in SessionState /\ saved.state \in SessionState

-----------------------------------------------------------------------------
(* Readable chunks.                                                         *)

\* Between os.replace and unlink both files exist, unless the quota took one.
ReplacedBeforeUnlink == cpc = "unlink" => TaskChunk \in gz \cup pruned

ReadableInv == ChunksStayReadable /\ ReplacedBeforeUnlink

-----------------------------------------------------------------------------
(* The newest chunks.                                                       *)

\* The kind of the chunk at a place in the inventory.
KindAt(i) == kindOf[chunks[i].chunk]

\* The chunk at i has a newer one, at j, of its kind that is neither pruned
\* nor about to be.
KeptAfter(i, j) ==
    /\ j \in DOMAIN chunks /\ j > i
    /\ chunks[j].state # "pruned" /\ j \notin candidates
    /\ KindAt(j) = KindAt(i)

\* What is pruned, or may be pruned in this scan, has two of them.
NewestInv ==
    \A i \in DOMAIN chunks :
        chunks[i].state = "pruned" \/ i \in candidates =>
            \E j, l \in DOMAIN chunks : j # l /\ KeptAfter(i, j) /\ KeptAfter(i, l)

-----------------------------------------------------------------------------
(* Items.                                                                   *)

Ids(q) == {q[i].id : i \in DOMAIN q}
Buffers == UNION {buffered[k] : k \in ChunkKind}
Stores == UNION {stored[c] : c \in DOMAIN stored}

\* The items that are queued, at hand or written.
Alive == (Ids(queue) \cup Ids(hand) \cup events \cup Buffers \cup Stores) \ {0}

\* Ids are used once: what is alive has been offered; as long as the recorder
\* is healthy the number of items alive and dropped is that of the offers.
LossInv ==
    vpc # "dead" =>
        /\ Alive \subseteq -notices .. offered
        /\ healthy => Cardinality(Alive) + dropped = offered + notices

\* Nothing that the viewer offered is queued behind the stop item.
StopIsLast ==
    vpc # "dead" =>
        /\ vpc \in {"run", "check_writer", "put_stop"} =>
               \A i \in DOMAIN queue : queue[i] # Stop
        /\ \A i, j \in DOMAIN queue :
               i < j /\ queue[i] = Stop => queue[j].id < 0
        /\ healthy /\ vpc \in {"run", "check_writer", "put_stop"} => InLoop
        /\ healthy /\ ~InLoop => \A i \in DOMAIN queue : queue[i].id < 0

\* A drop is an error.
DropsAreErrors == dropped > 0 => errors

-----------------------------------------------------------------------------
(* The inventory of a session without errors.                               *)

\* No two places of the inventory name the same chunk, and none the open one.
ChunksAreDistinct ==
    /\ \A i, j \in DOMAIN chunks : chunks[i].chunk = chunks[j].chunk => i = j
    /\ \A i \in DOMAIN chunks, k \in ChunkKind : chunks[i].chunk # current[k]
    /\ \A k, l \in ChunkKind : current[k] = current[l] /\ current[k] # 0 => k = l

\* Every chunk is in the inventory or open.
InventoryIsComplete ==
    healthy /\ vpc # "dead" =>
        \A c \in 1 .. Len(kindOf) :
            \/ \E i \in DOMAIN chunks : chunks[i].chunk = c
            \/ \E k \in ChunkKind : current[k] = c

\* The finally block has closed what it had to.
ClosedInOrder ==
    healthy =>
        /\ wpc \in {"final_csv", "final_flush", "done"} => current["raw"] = 0
        /\ wpc \in {"final_flush", "done"} => current["csv"] = 0

\* What has a task is being compressed; without errors, what is being
\* compressed has a task.
TasksInv ==
    /\ \A j \in DOMAIN tasks :
           tasks[j] # 0 => /\ chunks[tasks[j]].state = "compressing"
                           /\ tasks[j] # task
    /\ \A j, l \in DOMAIN tasks : tasks[j] = tasks[l] => j = l
    /\ task # 0 => chunks[task].state = "compressing"
    /\ ~errors =>
           \A i \in DOMAIN chunks :
               chunks[i].state = "compressing" =>
                   i = task \/ \E j \in DOMAIN tasks : tasks[j] = i
    /\ \A i \in candidates :
           chunks[i].state \in {"compressed", "compression_failed"}

\* The compressor is told to end once, after the last chunk.
EndIsLast ==
    /\ \A j \in DOMAIN tasks :
           tasks[j] = 0 => /\ j = Len(tasks) /\ wpc = "done"
                           /\ vpc \notin {"run", "check_writer", "put_stop",
                                          "wait_writer"}
    /\ vpc \in {"run", "check_writer", "put_stop", "wait_writer"} =>
           cpc # "done"
    /\ cpc = "done" => tasks = <<>> /\ wpc = "done" /\ task = 0
    /\ vpc \in {"wait_compressor", "prune", "closed"} => wpc = "done"
    /\ vpc \in {"prune", "closed"} => cpc = "done"

\* Without errors the files are what the inventory says.
FilesMatchInventory ==
    /\ vpc # "dead" /\ tmp # {} => cpc = "replace" /\ tmp = {TaskChunk}
    /\ ~errors =>
        \A i \in DOMAIN chunks :
            /\ chunks[i].state \in {"compressing", "compressed", "pruned"}
            /\ chunks[i].state = "pruned" => chunks[i].chunk \in pruned
            /\ chunks[i].state = "compressed" =>
                   chunks[i].chunk \in gz \ plain
            /\ i = task /\ cpc \in {"unlink", "record"} =>
                   chunks[i].chunk \in gz
            /\ i = task /\ cpc = "record" => chunks[i].chunk \notin plain

\* How a session comes to be called completed.
StateInv ==
    /\ state \in {"active", "completed", "completed_with_errors"}
    /\ vpc \notin {"prune", "closed", "gave_up", "dead"} => state = "active"
    /\ wpc # "done" => state = "active"
    /\ vpc \in {"prune", "closed"} /\ state = "completed" =>
           healthy /\ ~errors
    /\ saved.state = "completed" => vpc = "closed"
    /\ vpc = "closed" => saved = [state |-> state, chunks |-> chunks]

CompletionInv ==
    /\ StopIsLast /\ DropsAreErrors
    /\ ChunksAreDistinct /\ InventoryIsComplete /\ ClosedInOrder
    /\ TasksInv /\ EndIsLast /\ FilesMatchInventory /\ StateInv

-----------------------------------------------------------------------------
(* Sequences and sets.                                                      *)

\* A nonempty set of natural numbers has a least element.
LEMMA LeastElement ==
    ASSUME NEW S, S \subseteq Nat, S # {}
    PROVE  Min(S) \in S /\ \A x \in S : Min(S) <= x
<1>1. \E x \in S : \A y \in S : ~(<<y, x>> \in OpToRel(<, Nat))
  BY NatLessThanWellFounded, WFMin, Zenon
<1>2. PICK x \in S : \A y \in S : ~(<<y, x>> \in OpToRel(<, Nat))
  BY <1>1
<1>3. \A y \in S : x <= y
  <2> TAKE y \in S
  <2>1. x \in Nat /\ y \in Nat
    OBVIOUS
  <2>2. ~(y < x)
    BY <1>2, <2>1 DEF OpToRel
  <2> QED
    BY <2>1, <2>2
<1> QED
  BY <1>2, <1>3 DEF Min

\* What appending does, place by place.
LEMMA AppendFacts ==
    ASSUME NEW S, NEW s \in Seq(S), NEW e \in S
    PROVE  /\ Append(s, e) \in Seq(S)
           /\ Len(Append(s, e)) = Len(s) + 1
           /\ DOMAIN Append(s, e) = 1 .. Len(s) + 1
           /\ \A i \in 1 .. Len(s) : Append(s, e)[i] = s[i]
           /\ Append(s, e)[Len(s) + 1] = e
OBVIOUS

\* What a change of one entry's state does to an inventory.
LEMMA SetState ==
    ASSUME NEW s \in Seq(Entry), NEW i \in DOMAIN s, NEW st \in ChunkState
    PROVE  LET t == [s EXCEPT ![i].state = st]
           IN  /\ t \in Seq(Entry) /\ Len(t) = Len(s)
               /\ DOMAIN t = DOMAIN s
               /\ \A j \in DOMAIN s : /\ t[j].chunk = s[j].chunk
                                      /\ j # i => t[j] = s[j]
               /\ t[i].state = st
<1> DEFINE e == [s[i] EXCEPT !.state = st]
           t == [s EXCEPT ![i] = e]
<1>1. i \in 1 .. Len(s) /\ s[i] \in Entry
  OBVIOUS
<1>2. e \in Entry /\ e.chunk = s[i].chunk /\ e.state = st
  BY <1>1 DEF Entry
<1> HIDE DEF e
<1>3. /\ t \in Seq(Entry) /\ Len(t) = Len(s)
      /\ \A j \in 1 .. Len(s) : t[j] = IF j = i THEN e ELSE s[j]
  BY <1>1, <1>2, ExceptSeq
<1>4. t = [s EXCEPT ![i].state = st]
  BY DEF e
<1> HIDE DEF t
<1>5. DOMAIN t = 1 .. Len(t) /\ DOMAIN s = 1 .. Len(s)
  BY <1>3
<1> QED
  BY <1>1, <1>2, <1>3, <1>4, <1>5

\* What a change at one place does to the stored items.
LEMMA SetStored ==
    ASSUME NEW s \in Seq(SUBSET Nat), NEW i \in 1 .. Len(s),
           NEW e \in SUBSET Nat, NEW t, t = [s EXCEPT ![i] = e]
    PROVE  /\ t \in Seq(SUBSET Nat) /\ Len(t) = Len(s)
           /\ \A c \in 1 .. Len(s) : t[c] = IF c = i THEN e ELSE s[c]
BY ExceptSeq

-----------------------------------------------------------------------------
(* What the helpers of the actions do.                                      *)

\* The effect of the first part of _close_chunk.
LEMMA EnterChunkFacts ==
    ASSUME ShapeInv, NEW k \in ChunkKind, current[k] # 0, EnterChunk(k)
    PROVE  /\ stored' \in Seq(SUBSET Nat) /\ Len(stored') = Len(stored)
           /\ \A c \in DOMAIN stored :
                  stored'[c] = IF c = current[k] THEN stored[c] \cup buffered[k]
                               ELSE stored[c]
           /\ current' \in [ChunkKind -> Nat]
           /\ \A l \in ChunkKind :
                  current'[l] = IF l = k THEN 0 ELSE current[l]
           /\ buffered' \in [ChunkKind -> SUBSET Nat]
           /\ \A l \in ChunkKind :
                  buffered'[l] = IF l = k THEN {} ELSE buffered[l]
           /\ chunks' \in Seq(Entry) /\ Len(chunks') = Len(chunks) + 1
           /\ \A i \in DOMAIN chunks : chunks'[i] = chunks[i]
           /\ chunks'[Len(chunks) + 1].chunk = current[k]
           /\ chunks'[Len(chunks) + 1].state = "compressing"
<1> USE DEF ShapeInv, FilesOK, InventoryOK, StreamsOK, EnterChunk
<1>1. current[k] \in 1 .. Len(stored) /\ stored \in Seq(SUBSET Nat)
  OBVIOUS
<1>2. /\ stored' \in Seq(SUBSET Nat) /\ Len(stored') = Len(stored)
      /\ \A c \in 1 .. Len(stored) :
             stored'[c] = IF c = current[k] THEN stored[c] \cup buffered[k]
                          ELSE stored[c]
  <2> DEFINE e == stored[current[k]] \cup buffered[k]
  <2>1. e \in SUBSET Nat
    BY <1>1
  <2>2. stored' = [stored EXCEPT ![current[k]] = e]
    OBVIOUS
  <2> HIDE DEF e, ShapeInv, FilesOK, InventoryOK, StreamsOK, EnterChunk
  <2>3. /\ stored' \in Seq(SUBSET Nat) /\ Len(stored') = Len(stored)
        /\ \A c \in 1 .. Len(stored) :
               stored'[c] = IF c = current[k] THEN e ELSE stored[c]
    BY <1>1, <2>1, <2>2, SetStored
  <2> QED
    BY <2>3 DEF e
<1>3. /\ current' \in [ChunkKind -> Nat]
      /\ \A l \in ChunkKind : current'[l] = IF l = k THEN 0 ELSE current[l]
  OBVIOUS
<1>4. /\ buffered' \in [ChunkKind -> SUBSET Nat]
      /\ \A l \in ChunkKind :
             buffered'[l] = IF l = k THEN {} ELSE buffered[l]
  OBVIOUS
<1>5. /\ chunks' \in Seq(Entry) /\ Len(chunks') = Len(chunks) + 1
      /\ \A i \in DOMAIN chunks : chunks'[i] = chunks[i]
      /\ chunks'[Len(chunks) + 1].chunk = current[k]
      /\ chunks'[Len(chunks) + 1].state = "compressing"
  <2> DEFINE e == [chunk |-> current[k], state |-> "compressing"]
  <2>1. e \in Entry /\ e.chunk = current[k] /\ e.state = "compressing"
    BY DEF Entry, ChunkState
  <2>2. chunks' = Append(chunks, e)
    OBVIOUS
  <2>3. chunks \in Seq(Entry)
    OBVIOUS
  <2> HIDE DEF e, ShapeInv, FilesOK, InventoryOK, StreamsOK, EnterChunk
  <2>4. /\ Len(chunks') = Len(chunks) + 1 /\ chunks' \in Seq(Entry)
        /\ DOMAIN chunks = 1 .. Len(chunks)
        /\ \A i \in 1 .. Len(chunks) : chunks'[i] = chunks[i]
        /\ chunks'[Len(chunks) + 1] = e
    BY <2>1, <2>2, <2>3, AppendFacts
  <2> QED
    BY <2>1, <2>4
<1> QED
  BY <1>2, <1>3, <1>4, <1>5

\* The effect of handing the chunk to the compressor.
LEMMA CloseChunkFacts ==
    ASSUME ShapeInv, NEW k \in ChunkKind, current[k] # 0, CloseChunk(k)
    PROVE  /\ EnterChunk(k)
           /\ tasks' \in Seq(Nat) /\ Len(tasks') = Len(tasks) + 1
           /\ \A j \in DOMAIN tasks : tasks'[j] = tasks[j]
           /\ tasks'[Len(tasks) + 1] = Len(chunks) + 1
<1>1. EnterChunk(k) /\ tasks' = Append(tasks, Len(chunks) + 1)
  BY DEF CloseChunk
<1>2. tasks \in Seq(Nat) /\ Len(chunks) + 1 \in Nat
  BY DEF ShapeInv, InventoryOK
<1> QED
  BY <1>1, <1>2, SMTT(30)

\* The effect of forgetting an open stream.
LEMMA LoseStreamFacts ==
    ASSUME ShapeInv, NEW k \in ChunkKind, current[k] # 0, LoseStream(k)
    PROVE  /\ stored' \in Seq(SUBSET Nat) /\ Len(stored') = Len(stored)
           /\ \A c \in DOMAIN stored :
                  stored'[c] \in {stored[c], stored[c] \cup buffered[k]}
           /\ current' \in [ChunkKind -> Nat]
           /\ \A l \in ChunkKind :
                  current'[l] = IF l = k THEN 0 ELSE current[l]
           /\ buffered' \in [ChunkKind -> SUBSET Nat]
           /\ \A l \in ChunkKind :
                  buffered'[l] = IF l = k THEN {} ELSE buffered[l]
           /\ UNCHANGED chunks
<1> USE DEF ShapeInv, FilesOK, InventoryOK, StreamsOK, LoseStream
<1>1. PICK kept \in {{}, buffered[k]} :
          stored' = [stored EXCEPT ![current[k]] = @ \cup kept]
  OBVIOUS
<1> DEFINE e == stored[current[k]] \cup kept
<1>2. e \in SUBSET Nat /\ current[k] \in 1 .. Len(stored)
      /\ stored \in Seq(SUBSET Nat)
  OBVIOUS
<1>3. stored' = [stored EXCEPT ![current[k]] = e]
  BY <1>1
<1>4. e \in {stored[current[k]], stored[current[k]] \cup buffered[k]}
  OBVIOUS
<1> HIDE DEF e, ShapeInv, FilesOK, InventoryOK, StreamsOK, LoseStream
<1>5. /\ stored' \in Seq(SUBSET Nat) /\ Len(stored') = Len(stored)
      /\ \A c \in 1 .. Len(stored) :
             stored'[c] = IF c = current[k] THEN e ELSE stored[c]
  BY <1>2, <1>3, SetStored
<1> QED
  BY <1>4, <1>5 DEF ShapeInv, FilesOK, StreamsOK, LoseStream

\* The effect of a failing _close_chunk.
LEMMA CloseFailsFacts ==
    ASSUME ShapeInv, NEW k \in ChunkKind, current[k] # 0, CloseFails(k)
    PROVE  /\ stored' \in Seq(SUBSET Nat) /\ Len(stored') = Len(stored)
           /\ \A c \in DOMAIN stored :
                  stored'[c] \in {stored[c], stored[c] \cup buffered[k]}
           /\ current' \in [ChunkKind -> Nat]
           /\ \A l \in ChunkKind :
                  current'[l] = IF l = k THEN 0 ELSE current[l]
           /\ buffered' \in [ChunkKind -> SUBSET Nat]
           /\ \A l \in ChunkKind :
                  buffered'[l] = IF l = k THEN {} ELSE buffered[l]
           /\ UNCHANGED chunks \/ EnterChunk(k)
           /\ UNCHANGED <<kindOf, plain, gz, tmp, events, saved, pruned>>
<1>1. UNCHANGED <<kindOf, plain, gz, tmp, events, saved, pruned>>
  BY DEF CloseFails
<1>2. CASE LoseStream(k)
  BY <1>1, <1>2, LoseStreamFacts
<1>3. CASE EnterChunk(k)
  <2> HIDE DEF ShapeInv, CloseFails, EnterChunk
  <2>1. \A c \in DOMAIN stored :
            stored'[c] = IF c = current[k] THEN stored[c] \cup buffered[k]
                         ELSE stored[c]
    BY <1>3, EnterChunkFacts, Zenon
  <2>2. \A c \in DOMAIN stored :
            stored'[c] \in {stored[c], stored[c] \cup buffered[k]}
    BY <2>1, Zenon
  <2> QED
    BY <1>1, <1>3, <2>2, EnterChunkFacts, Zenon
<1> QED
  BY <1>2, <1>3 DEF CloseFails

\* The effect of pruning the oldest candidate.
LEMMA PruneFacts ==
    ASSUME ShapeInv, PruneOne
    PROVE  \E i \in candidates :
               LET c == chunks[i].chunk
               IN  /\ i \in DOMAIN chunks
                   /\ chunks' \in Seq(Entry) /\ Len(chunks') = Len(chunks)
                   /\ \A j \in DOMAIN chunks :
                          /\ chunks'[j].chunk = chunks[j].chunk
                          /\ j # i => chunks'[j] = chunks[j]
                   /\ chunks'[i].state = "pruned"
                   /\ pruned' = pruned \cup {c}
                   /\ candidates' \subseteq candidates \ {i}
                   /\ \/ /\ chunks[i].state = "compressed"
                         /\ gz' = gz \ {c} /\ plain' = plain
                      \/ /\ chunks[i].state # "compressed"
                         /\ plain' = plain \ {c} /\ gz' = gz
                   /\ UNCHANGED <<kindOf, stored, tmp, events, saved>>
<1> DEFINE i == Min(candidates)
<1>1. candidates \subseteq Nat /\ candidates # {} /\ chunks \in Seq(Entry)
      /\ candidates \subseteq DOMAIN chunks
  BY DEF ShapeInv, InventoryOK, PruneOne
<1>2. i \in candidates
  BY <1>1, LeastElement
<1> HIDE DEF i
<1>3. /\ FileGone(i)
      /\ chunks' = [chunks EXCEPT ![i].state = "pruned"]
      /\ pruned' = pruned \cup {chunks[i].chunk}
      /\ candidates' \in {{}, candidates \ {i}}
      /\ UNCHANGED <<kindOf, stored, tmp, events, saved>>
  BY DEF PruneOne, i
<1>4. "pruned" \in ChunkState
  BY DEF ChunkState
<1>5. /\ chunks' \in Seq(Entry) /\ Len(chunks') = Len(chunks)
      /\ \A j \in DOMAIN chunks : /\ chunks'[j].chunk = chunks[j].chunk
                                  /\ j # i => chunks'[j] = chunks[j]
      /\ chunks'[i].state = "pruned"
  BY <1>1, <1>2, <1>3, <1>4, SetState
<1>6. candidates' \subseteq candidates \ {i}
  BY <1>3
<1> WITNESS i \in candidates
<1> QED
  BY <1>1, <1>2, <1>3, <1>5, <1>6 DEF FileGone

\* A function on 1 .. n is a sequence.
LEMMA FunctionIsSeq ==
    ASSUME NEW n \in Nat, NEW S, NEW f \in [1 .. n -> S]
    PROVE  f \in Seq(S) /\ Len(f) = n
<1>1. f \in Seq(S)
  BY SeqDef
<1> QED
  BY <1>1

\* What every chunk holds once the buffers are written.
LEMMA FlushedFacts ==
    ASSUME ShapeInv
    PROVE  /\ DOMAIN Flushed = 1 .. Len(stored)
           /\ \A c \in DOMAIN stored :
                  /\ Flushed[c] \in SUBSET Nat
                  /\ stored[c] \subseteq Flushed[c]
                  /\ Flushed[c] \subseteq stored[c] \cup Buffers
           /\ \A k \in ChunkKind :
                  current[k] # 0 => buffered[k] \subseteq Flushed[current[k]]
BY DEF ShapeInv, FilesOK, StreamsOK, Flushed, Buffers

\* The effect of a flush.
LEMMA FlushFacts ==
    ASSUME ShapeInv, stored' = Flushed
    PROVE  stored' \in Seq(SUBSET Nat) /\ Len(stored') = Len(stored)
<1>1. Flushed \in [1 .. Len(stored) -> SUBSET Nat]
  BY FlushedFacts DEF Flushed, ShapeInv, FilesOK
<1>2. Len(stored) \in Nat
  BY DEF ShapeInv, FilesOK
<1> QED
  BY <1>1, <1>2, FunctionIsSeq, Zenon

\* The buffers after a flush.
LEMMA NoBuffersType ==
    NoBuffers \in [ChunkKind -> SUBSET Nat]
    /\ \A k \in ChunkKind : NoBuffers[k] = {}
BY DEF NoBuffers

\* The item at hand while the writer writes.
LEMMA HandFacts ==
    ASSUME QueueOK, wpc = "write"
    PROVE  /\ Len(hand) = 1 /\ DOMAIN hand = {1} /\ hand[1] \in Item
           /\ hand[1].id \in Int
           /\ hand[1].kind \in ChunkKind => hand[1].id \in Nat \ {0}
<1>1. hand \in Seq(Item) /\ Len(hand) = 1
  BY DEF QueueOK
<1>2. DOMAIN hand = {1} /\ hand[1] \in Item
  BY <1>1
<1>3. hand[1].id \in Int
  BY <1>2 DEF Item
<1>4. hand[1].kind \in ChunkKind => hand[1].id > 0
  BY <1>2 DEF QueueOK
<1> QED
  BY <1>1, <1>2, <1>3, <1>4

\* The effect of _write_raw and _write_sample.
LEMMA WriteFacts ==
    ASSUME ShapeInv, Write
    PROVE  LET k == hand[1].kind
           IN  /\ k \in ChunkKind /\ hand[1].id \in Nat
               /\ buffered' \in [ChunkKind -> SUBSET Nat]
               /\ \A l \in ChunkKind :
                      buffered'[l] = IF l = k THEN buffered[l] \cup {hand[1].id}
                                     ELSE buffered[l]
               /\ kindOf' \in Seq(ChunkKind)
               /\ Len(kindOf') >= Len(kindOf)
               /\ \A c \in DOMAIN kindOf : kindOf'[c] = kindOf[c]
               /\ stored' \in Seq(SUBSET Nat) /\ Len(stored') = Len(kindOf')
               /\ \A c \in DOMAIN stored : stored'[c] = stored[c]
               /\ \A c \in DOMAIN stored' \ DOMAIN stored : stored'[c] = {}
               /\ current' \in [ChunkKind -> Nat]
               /\ \A l \in ChunkKind \ {k} : current'[l] = current[l]
               /\ \/ /\ current[k] # 0
                     /\ UNCHANGED <<current, kindOf, stored, plain>>
                  \/ /\ current[k] = 0 /\ current'[k] = Len(kindOf) + 1
                     /\ Len(kindOf') = Len(kindOf) + 1
                     /\ kindOf'[Len(kindOf) + 1] = k
                     /\ plain' = plain \cup {Len(kindOf) + 1}
<1> DEFINE k == hand[1].kind
<1>1. k \in ChunkKind /\ wpc = "write"
  BY DEF Write
<1>2. hand[1].id \in Nat
  BY <1>1, HandFacts DEF ShapeInv
<1>3. buffered' = [buffered EXCEPT ![k] = @ \cup {hand[1].id}]
  BY DEF Write
<1>4. /\ kindOf \in Seq(ChunkKind) /\ stored \in Seq(SUBSET Nat)
      /\ Len(stored) = Len(kindOf)
      /\ current \in [ChunkKind -> Nat]
      /\ buffered \in [ChunkKind -> SUBSET Nat]
  BY DEF ShapeInv, FilesOK, StreamsOK
<1>5. \/ /\ current[k] # 0
         /\ UNCHANGED <<current, kindOf, stored, plain>>
      \/ /\ current[k] = 0
         /\ current' = [current EXCEPT ![k] = Len(kindOf) + 1]
         /\ kindOf' = Append(kindOf, k)
         /\ stored' = Append(stored, {})
         /\ plain' = plain \cup {Len(kindOf) + 1}
  BY DEF Write
<1> HIDE DEF k
<1>6. /\ buffered' \in [ChunkKind -> SUBSET Nat]
      /\ \A l \in ChunkKind :
             buffered'[l] = IF l = k THEN buffered[l] \cup {hand[1].id}
                            ELSE buffered[l]
  BY <1>1, <1>2, <1>3, <1>4
<1>7. CASE current[k] # 0 /\ UNCHANGED <<current, kindOf, stored, plain>>
  BY <1>1, <1>2, <1>4, <1>6, <1>7 DEF k
<1>8. CASE /\ current[k] = 0
           /\ current' = [current EXCEPT ![k] = Len(kindOf) + 1]
           /\ kindOf' = Append(kindOf, k)
           /\ stored' = Append(stored, {})
           /\ plain' = plain \cup {Len(kindOf) + 1}
  <2>1. Len(kindOf) + 1 \in Nat /\ {} \in SUBSET Nat
    BY <1>4
  <2>2. /\ kindOf' \in Seq(ChunkKind) /\ Len(kindOf') = Len(kindOf) + 1
        /\ DOMAIN kindOf = 1 .. Len(kindOf)
        /\ \A c \in 1 .. Len(kindOf) : kindOf'[c] = kindOf[c]
        /\ kindOf'[Len(kindOf) + 1] = k
    BY <1>1, <1>4, <1>8, AppendFacts
  <2>3. /\ stored' \in Seq(SUBSET Nat) /\ Len(stored') = Len(stored) + 1
        /\ DOMAIN stored = 1 .. Len(stored)
        /\ DOMAIN stored' = 1 .. Len(stored) + 1
        /\ \A c \in 1 .. Len(stored) : stored'[c] = stored[c]
        /\ stored'[Len(stored) + 1] = {}
    BY <1>4, <1>8, <2>1, AppendFacts
  <2>4. /\ current' \in [ChunkKind -> Nat]
        /\ current'[k] = Len(kindOf) + 1
        /\ \A l \in ChunkKind \ {k} : current'[l] = current[l]
    BY <1>1, <1>4, <1>8, <2>1
  <2>5. \A c \in DOMAIN stored' \ DOMAIN stored : stored'[c] = {}
    BY <1>4, <2>3
  <2> QED
    BY <1>1, <1>2, <1>4, <1>6, <1>8, <2>2, <2>3, <2>4, <2>5 DEF k
<1> QED
  BY <1>5, <1>7, <1>8

-----------------------------------------------------------------------------
(* The shape of the state is kept.                                          *)

\* The initial state has the shape.
LEMMA InitShape == Init => ShapeInv
<1> SUFFICES ASSUME Init PROVE ShapeInv
  OBVIOUS
<1>1. \A S : <<>> \in Seq(S) /\ Len(<<>>) = 0 /\ DOMAIN <<>> = {}
  OBVIOUS
<1>2. FilesOK
  BY <1>1 DEF Init, FilesOK
<1>3. InventoryOK
  BY <1>1 DEF Init, InventoryOK, Working
<1>4. StreamsOK
  BY <1>1 DEF Init, StreamsOK, NoStreams, NoBuffers
<1>5. QueueOK
  BY <1>1 DEF Init, QueueOK
<1>6. ViewerOK
  BY BlackboxAssumption DEF Init, ViewerOK
<1> QED
  BY <1>2, <1>3, <1>4, <1>5, <1>6 DEF ShapeInv

\* An entry of the inventory names a chunk.
LEMMA EntryFacts ==
    ASSUME ShapeInv, NEW i \in DOMAIN chunks
    PROVE  /\ chunks[i].chunk \in 1 .. Len(kindOf)
           /\ chunks[i].state \in ChunkState
           /\ i \in 1 .. Len(chunks) /\ Len(chunks) \in Nat
<1>1. chunks \in Seq(Entry) /\ chunks[i].chunk <= Len(kindOf)
      /\ kindOf \in Seq(ChunkKind)
  BY DEF ShapeInv, InventoryOK, FilesOK
<1>2. chunks[i] \in Entry /\ Len(kindOf) \in Nat
  BY <1>1
<1>3. chunks[i].chunk \in Nat \ {0} /\ chunks[i].state \in ChunkState
  BY <1>2 DEF Entry
<1> QED
  BY <1>1, <1>2, <1>3

\* The chunk at which the compressor works.
LEMMA TaskFacts ==
    ASSUME ShapeInv, cpc \in {"compress", "replace", "unlink", "record"}
    PROVE  task \in DOMAIN chunks /\ TaskChunk \in 1 .. Len(kindOf)
<1>1. task \in DOMAIN chunks
  BY DEF ShapeInv, InventoryOK, Working
<1> QED
  BY <1>1, EntryFacts DEF TaskChunk

\* A step leaves the files alone, or is one of those that change them.
LEMMA StepFiles == ShapeInv /\ [Next]_vars => FilesOK'
<1> SUFFICES ASSUME ShapeInv, [Next]_vars PROVE FilesOK'
  OBVIOUS
<1>1. FilesOK
  BY DEF ShapeInv
<1> USE DEF viewer, offers, shared, writer, compressor, files
<1>2. CASE UNCHANGED <<kindOf, stored, plain, gz, tmp, pruned, events>>
  BY <1>1, <1>2 DEF FilesOK
<1>3. CASE PruneOne
  <2>1. PICK i \in candidates :
          /\ i \in DOMAIN chunks
          /\ pruned' = pruned \cup {chunks[i].chunk}
          /\ gz' \subseteq gz /\ plain' \subseteq plain
          /\ UNCHANGED <<kindOf, stored, tmp, events, saved>>
    BY <1>3, PruneFacts
  <2>2. chunks[i].chunk \in 1 .. Len(kindOf)
    BY <2>1, EntryFacts
  <2> QED
    BY <1>1, <2>1, <2>2 DEF FilesOK
<1>4. CASE WriteEvent
  <2>1. hand[1].id \in Int
    BY <1>4, HandFacts DEF ShapeInv, WriteEvent
  <2> QED
    BY <1>1, <1>4, <2>1 DEF FilesOK, WriteEvent
<1>5. ASSUME NEW k \in ChunkKind, current[k] # 0, EnterChunk(k),
             UNCHANGED <<kindOf, plain, gz, tmp, pruned, events>>
      PROVE  FilesOK'
  BY <1>1, <1>5, EnterChunkFacts DEF FilesOK
<1>6. CASE Rotate
  BY <1>5, <1>6 DEF Rotate, CloseChunk
<1>7. CASE Write
  <2>1. /\ kindOf' \in Seq(ChunkKind) /\ Len(kindOf') >= Len(kindOf)
        /\ stored' \in Seq(SUBSET Nat) /\ Len(stored') = Len(kindOf')
        /\ \/ plain' = plain
           \/ /\ Len(kindOf') = Len(kindOf) + 1
              /\ plain' = plain \cup {Len(kindOf) + 1}
    BY <1>7, WriteFacts
  <2>2. UNCHANGED <<gz, tmp, events, pruned>>
    BY <1>7 DEF Write
  <2>3. Len(kindOf) \in Nat /\ Len(kindOf') \in Nat
    BY <1>1, <2>1 DEF FilesOK
  <2>4. 1 .. Len(kindOf) \subseteq 1 .. Len(kindOf')
    BY <2>1, <2>3
  <2>5. plain' \subseteq 1 .. Len(kindOf')
    <3>1. plain \subseteq 1 .. Len(kindOf')
      BY <1>1, <2>4 DEF FilesOK
    <3>2. \/ plain' = plain
          \/ /\ Len(kindOf') = Len(kindOf) + 1
             /\ plain' = plain \cup {Len(kindOf')}
      BY <2>1
    <3>3. Len(kindOf') = Len(kindOf) + 1 => Len(kindOf') \in 1 .. Len(kindOf')
      BY <2>3
    <3> QED
      BY <3>1, <3>2, <3>3
  <2> QED
    BY <1>1, <2>1, <2>2, <2>4, <2>5 DEF FilesOK
<1>8. CASE Flush
  BY <1>1, <1>8, FlushFacts DEF FilesOK, Flush
<1>9. ASSUME NEW k \in ChunkKind, current[k] # 0, CloseFails(k)
      PROVE  FilesOK'
  BY <1>1, <1>9, CloseFailsFacts DEF FilesOK
<1>10. CASE WriterFails
  BY <1>2, <1>9, <1>10 DEF WriterFails
<1>11. CASE FinalClose
  BY <1>2, <1>5, <1>11 DEF FinalClose, FinalKind, ChunkKind, CloseChunk
<1>12. CASE FinalFails
  BY <1>2, <1>9, <1>12 DEF FinalFails, FinalKind, ChunkKind
<1>13. CASE Compress \/ Replace \/ Unlink \/ CompressFails
  <2>1. TaskChunk \in 1 .. Len(kindOf)
    BY <1>13, TaskFacts DEF Compress, Replace, Unlink, CompressFails
  <2> QED
    BY <1>1, <1>13, <2>1 DEF FilesOK, Compress, Replace, Unlink, CompressFails
<1>14. CASE Crash
  <2>1. PICK n \in 0 .. scenario.items :
          stored' = [c \in DOMAIN stored |->
                        stored[c] \cup {x \in Flushed[c] : x <= n}]
    BY <1>14 DEF Crash
  <2>2. stored' \in [1 .. Len(stored) -> SUBSET Nat]
    BY <1>1, <2>1, FlushedFacts DEF FilesOK
  <2>3. stored' \in Seq(SUBSET Nat) /\ Len(stored') = Len(stored)
    BY <1>1, <2>2, FunctionIsSeq DEF FilesOK
  <2> QED
    BY <1>1, <1>14, <2>3 DEF FilesOK, Crash
<1>15. CASE Recover
  BY <1>1, <1>15 DEF FilesOK, Recover, Recovered
<1>16. CASE UNCHANGED vars
  BY <1>2, <1>16 DEF vars
<1>17. CASE Viewer
  BY <1>2, <1>3, <1>17 DEF Viewer, Offer, Close, CheckWriter, PutStop,
     WaitWriter, WaitCompressor, ViewerPrunes, SkipOne, SaveFinal,
     SaveFinalFails, Timeout
<1>18. CASE Writer
  BY <1>2, <1>3, <1>4, <1>6, <1>7, <1>8, <1>10, <1>11, <1>12, <1>18
     DEF Writer, Get, WriterQuota, WriterPrunes, SkipOne, PruneEvent,
         WriterSaves, FinalFlush
<1>19. CASE Compressor
  BY <1>2, <1>13, <1>19 DEF Compressor, GetTask, Record, Compress, Replace,
     Unlink, CompressFails
<1> QED
  BY <1>14, <1>15, <1>16, <1>17, <1>18, <1>19 DEF Next

\* The inventory and the tasks of the compressor.
LEMMA StepInventory == ShapeInv /\ [Next]_vars => InventoryOK'
<1> SUFFICES ASSUME ShapeInv, [Next]_vars PROVE InventoryOK'
  OBVIOUS
<1>1. InventoryOK /\ kindOf \in Seq(ChunkKind)
  BY DEF ShapeInv, FilesOK
<1> USE DEF viewer, offers, shared, writer, compressor, files
<1>2. CASE UNCHANGED <<kindOf, chunks, candidates, tasks, task, cpc>>
  BY <1>1, <1>2 DEF InventoryOK, Working
<1>3. CASE /\ candidates' \subseteq candidates
           /\ UNCHANGED <<kindOf, chunks, tasks, task, cpc>>
  BY <1>1, <1>3 DEF InventoryOK, Working
<1>4. CASE PruneOne /\ UNCHANGED <<tasks, task, cpc>>
  <2>1. /\ chunks' \in Seq(Entry) /\ Len(chunks') = Len(chunks)
        /\ \A j \in DOMAIN chunks : chunks'[j].chunk = chunks[j].chunk
        /\ candidates' \subseteq candidates
        /\ UNCHANGED kindOf
    <3>1. PICK i \in candidates :
              /\ i \in DOMAIN chunks
              /\ chunks' \in Seq(Entry) /\ Len(chunks') = Len(chunks)
              /\ \A j \in DOMAIN chunks : chunks'[j].chunk = chunks[j].chunk
              /\ candidates' \subseteq candidates \ {i}
              /\ UNCHANGED kindOf
      BY <1>4, PruneFacts
    <3> QED
      BY <3>1
  <2>2. DOMAIN chunks' = DOMAIN chunks
    BY <1>1, <2>1 DEF InventoryOK
  <2> QED
    BY <1>1, <1>4, <2>1, <2>2 DEF InventoryOK, Working
<1>5. ASSUME NEW k \in ChunkKind, current[k] # 0, CloseChunk(k),
             UNCHANGED <<kindOf, candidates, task, cpc>>
      PROVE  InventoryOK'
  <2>1. /\ chunks' \in Seq(Entry) /\ Len(chunks') = Len(chunks) + 1
        /\ \A i \in DOMAIN chunks : chunks'[i] = chunks[i]
        /\ chunks'[Len(chunks) + 1].chunk = current[k]
        /\ tasks' \in Seq(Nat) /\ Len(tasks') = Len(tasks) + 1
        /\ \A j \in DOMAIN tasks : tasks'[j] = tasks[j]
        /\ tasks'[Len(tasks) + 1] = Len(chunks) + 1
    BY <1>5, CloseChunkFacts, EnterChunkFacts
  <2>2. /\ DOMAIN chunks' = DOMAIN chunks \cup {Len(chunks) + 1}
        /\ DOMAIN tasks' = DOMAIN tasks \cup {Len(tasks) + 1}
        /\ Len(chunks) \in Nat /\ Len(tasks) \in Nat
    BY <1>1, <2>1, SMTT(30) DEF InventoryOK
  <2>3. current[k] <= Len(kindOf)
    BY <1>5 DEF ShapeInv, StreamsOK
  <2>4. \A i \in DOMAIN chunks' : chunks'[i].chunk <= Len(kindOf')
    BY <1>1, <1>5, <2>1, <2>2, <2>3 DEF InventoryOK
  <2>5. \A j \in DOMAIN tasks' : tasks'[j] <= Len(chunks')
    BY <1>1, <2>1, <2>2, SMTT(30) DEF InventoryOK
  <2>6. task' \in 0 .. Len(chunks') /\ candidates' \subseteq DOMAIN chunks'
    BY <1>1, <1>5, <2>1, <2>2 DEF InventoryOK
  <2> QED
    BY <1>1, <1>5, <2>1, <2>4, <2>5, <2>6 DEF InventoryOK, Working
<1>6. CASE WaitCompressor \/ WriterQuota
  <2>1. Prunable \subseteq DOMAIN chunks
    BY DEF Prunable, Available
  <2> QED
    BY <1>1, <1>6, <2>1 DEF InventoryOK, Working, WaitCompressor, WriterQuota,
       ScanQuota
<1>7. CASE WaitWriter
  <2>1. 0 \in Nat /\ tasks \in Seq(Nat) /\ tasks' = Append(tasks, 0)
    BY <1>1, <1>7 DEF InventoryOK, WaitWriter
  <2>2. /\ tasks' \in Seq(Nat) /\ DOMAIN tasks' = 1 .. Len(tasks) + 1
        /\ \A j \in 1 .. Len(tasks) : tasks'[j] = tasks[j]
        /\ tasks'[Len(tasks) + 1] = 0
    BY <2>1, AppendFacts
  <2>3. Len(chunks) \in Nat /\ Len(tasks) \in Nat
        /\ DOMAIN tasks = 1 .. Len(tasks)
    BY <1>1 DEF InventoryOK
  <2>4. ASSUME NEW j \in DOMAIN tasks' PROVE tasks'[j] <= Len(chunks)
    <3>1. CASE j = Len(tasks) + 1
      BY <2>2, <2>3, <3>1
    <3>2. CASE j # Len(tasks) + 1
      <4>1. j \in DOMAIN tasks /\ tasks'[j] = tasks[j]
        BY <2>2, <2>3, <3>2
      <4> QED
        BY <1>1, <4>1 DEF InventoryOK
    <3> QED
      BY <3>1, <3>2
  <2> QED
    BY <1>1, <1>7, <2>2, <2>4 DEF InventoryOK, Working, WaitWriter
<1>8. CASE GetTask
  <2>1. tasks \in Seq(Nat) /\ tasks # <<>> /\ tasks' = Tail(tasks)
    BY <1>1, <1>8 DEF InventoryOK, GetTask
  <2>2. /\ tasks' \in Seq(Nat) /\ 1 \in DOMAIN tasks /\ Head(tasks) = tasks[1]
        /\ Head(tasks) \in Nat
        /\ \A j \in DOMAIN tasks' : /\ j + 1 \in DOMAIN tasks
                                    /\ tasks'[j] = tasks[j + 1]
    BY <2>1
  <2>3. Head(tasks) \in 0 .. Len(chunks)
    BY <1>1, <2>2 DEF InventoryOK
  <2>4. \A j \in DOMAIN tasks' : tasks'[j] <= Len(chunks)
    BY <1>1, <2>2 DEF InventoryOK
  <2>5. /\ task' \in 0 .. Len(chunks) /\ (Working <=> task # 0)'
        /\ cpc' \in {"done", "compress"}
    BY <1>1, <1>8, <2>3 DEF InventoryOK, Working, GetTask
  <2> QED
    BY <1>1, <1>8, <2>2, <2>4, <2>5 DEF InventoryOK, GetTask
<1>9. CASE Record \/ CompressFails
  <2>1. /\ task \in DOMAIN chunks /\ chunks \in Seq(Entry)
        /\ {"compressed", "compression_failed"} \subseteq ChunkState
    BY <1>1, <1>9, TaskFacts DEF Record, CompressFails, InventoryOK, ChunkState
  <2>2. /\ chunks' \in Seq(Entry) /\ Len(chunks') = Len(chunks)
        /\ DOMAIN chunks' = DOMAIN chunks
        /\ \A j \in DOMAIN chunks : chunks'[j].chunk = chunks[j].chunk
    <3>1. PICK st \in ChunkState : chunks' = [chunks EXCEPT ![task].state = st]
      BY <1>9, <2>1 DEF Record, CompressFails
    <3> QED
      BY <2>1, <3>1, SetState
  <2>3. Len(chunks) \in Nat
    BY <2>1
  <2>4. cpc' = "idle" /\ task' = 0 /\ UNCHANGED <<candidates, tasks, kindOf>>
    BY <1>9 DEF Record, CompressFails
  <2>5. /\ \A i \in DOMAIN chunks' : chunks'[i].chunk <= Len(kindOf')
        /\ candidates' \subseteq DOMAIN chunks'
        /\ \A j \in DOMAIN tasks' : tasks'[j] <= Len(chunks')
    BY <1>1, <2>2, <2>4 DEF InventoryOK
  <2> QED
    BY <1>1, <2>2, <2>3, <2>4, <2>5 DEF InventoryOK, Working
<1>10. CASE Compress \/ Replace \/ Unlink
  BY <1>1, <1>10 DEF InventoryOK, Working, Compress, Replace, Unlink
<1>11. CASE Write
  <2>1. Len(kindOf) \in Nat /\ Len(kindOf') \in Nat /\ Len(kindOf) <= Len(kindOf')
    BY <1>1, <1>11, WriteFacts
  <2>2. \A i \in DOMAIN chunks : chunks[i].chunk <= Len(kindOf')
    BY <2>1, EntryFacts
  <2> QED
    BY <1>1, <1>11, <2>2 DEF InventoryOK, Working, Write
<1>12. CASE Crash
  BY <1>1, <1>12 DEF InventoryOK, Working, Crash
<1>13. CASE Rotate
  BY <1>5, <1>13 DEF Rotate
<1>14. CASE FinalClose
  BY <1>2, <1>5, <1>14 DEF FinalClose, FinalKind, ChunkKind
<1>15. CASE WriterFails \/ FinalFails
  <2>1. /\ candidates' \subseteq candidates
        /\ UNCHANGED <<kindOf, tasks, task, cpc>>
    BY <1>15 DEF WriterFails, FinalFails, CloseFails
  <2>2. CASE UNCHANGED chunks
    BY <1>3, <2>1, <2>2
  <2>3. ASSUME NEW k \in ChunkKind, current[k] # 0, EnterChunk(k)
        PROVE  InventoryOK'
    <3>1. /\ chunks' \in Seq(Entry) /\ Len(chunks') = Len(chunks) + 1
          /\ \A i \in DOMAIN chunks : chunks'[i] = chunks[i]
          /\ chunks'[Len(chunks) + 1].chunk = current[k]
      BY <2>3, EnterChunkFacts
    <3>2. /\ DOMAIN chunks' = DOMAIN chunks \cup {Len(chunks) + 1}
          /\ Len(chunks) \in Nat
      BY <1>1, <3>1, SMTT(30) DEF InventoryOK
    <3>3. current[k] <= Len(kindOf)
      BY <2>3 DEF ShapeInv, StreamsOK
    <3>4. \A i \in DOMAIN chunks' : chunks'[i].chunk <= Len(kindOf')
      BY <1>1, <2>1, <3>1, <3>2, <3>3 DEF InventoryOK
    <3>5. \A j \in DOMAIN tasks' : tasks'[j] <= Len(chunks')
      BY <1>1, <2>1, <3>1, <3>2, SMTT(30) DEF InventoryOK
    <3>6. task' \in 0 .. Len(chunks') /\ candidates' \subseteq DOMAIN chunks'
      BY <1>1, <2>1, <3>1, <3>2 DEF InventoryOK
    <3> QED
      BY <1>1, <2>1, <3>1, <3>4, <3>5, <3>6 DEF InventoryOK, Working
  <2> QED
    BY <1>15, <2>2, <2>3
       DEF WriterFails, FinalFails, CloseFails, LoseStream, FinalKind, ChunkKind
<1>16. CASE SkipOne /\ UNCHANGED <<tasks, task, cpc>>
  BY <1>3, <1>16 DEF SkipOne
<1>17. CASE ViewerPrunes \/ WriterPrunes
  BY <1>4, <1>16, <1>17 DEF ViewerPrunes, WriterPrunes
<1>18. CASE UNCHANGED vars
  BY <1>2, <1>18 DEF vars
<1>19. CASE Viewer
  BY <1>2, <1>6, <1>7, <1>17, <1>19 DEF Viewer, Offer, Close, CheckWriter,
     PutStop, SaveFinal, SaveFinalFails, Timeout
<1>20. CASE Writer
  BY <1>2, <1>6, <1>11, <1>13, <1>14, <1>15, <1>17, <1>20
     DEF Writer, Get, WriteEvent, Flush, PruneEvent, WriterSaves, FinalFlush
<1>21. CASE Compressor
  BY <1>8, <1>9, <1>10, <1>21 DEF Compressor
<1>22. CASE Recover
  BY <1>2, <1>22 DEF Recover
<1> QED
  BY <1>12, <1>18, <1>19, <1>20, <1>21, <1>22 DEF Next

\* The open chunks and their buffers.
LEMMA StepStreams == ShapeInv /\ [Next]_vars => StreamsOK'
<1> SUFFICES ASSUME ShapeInv, [Next]_vars PROVE StreamsOK'
  OBVIOUS
<1>1. StreamsOK /\ kindOf \in Seq(ChunkKind) /\ Len(kindOf) \in Nat
  BY DEF ShapeInv, FilesOK
<1> USE DEF viewer, offers, shared, writer, compressor, files
<1>2. CASE UNCHANGED <<kindOf, current, buffered>>
  BY <1>1, <1>2 DEF StreamsOK
<1>3. CASE Flush
  BY <1>1, <1>3, NoBuffersType DEF StreamsOK, Flush
<1>4. CASE Crash
  BY <1>1, <1>4, NoBuffersType DEF StreamsOK, Crash, NoStreams
<1>5. CASE Write
  <2>1. Len(kindOf') \in Nat /\ Len(kindOf) <= Len(kindOf')
    BY <1>1, <1>5, WriteFacts
  <2>2. /\ current' \in [ChunkKind -> Nat]
        /\ buffered' \in [ChunkKind -> SUBSET Nat]
    BY <1>5, WriteFacts
  <2>3. ASSUME NEW l \in ChunkKind
        PROVE  /\ current'[l] <= Len(kindOf')
               /\ current'[l] = 0 => buffered'[l] = {}
    <3> DEFINE k == hand[1].kind
    <3>1. CASE l # k
      <4>1. current'[l] = current[l] /\ buffered'[l] = buffered[l]
        BY <1>5, <3>1, WriteFacts
      <4> QED
        BY <1>1, <2>1, <4>1 DEF StreamsOK
    <3>2. CASE l = k
      <4>1. \/ current'[k] = current[k] /\ current[k] # 0
            \/ current'[k] = Len(kindOf) + 1 /\ Len(kindOf') = Len(kindOf) + 1
        BY <1>5, WriteFacts
      <4> QED
        BY <1>1, <2>1, <3>2, <4>1 DEF StreamsOK
    <3> QED
      BY <3>1, <3>2
  <2> QED
    BY <2>2, <2>3 DEF StreamsOK
<1>6. ASSUME NEW k \in ChunkKind, current[k] # 0, EnterChunk(k),
             UNCHANGED kindOf
      PROVE  StreamsOK'
  <2>1. /\ current' \in [ChunkKind -> Nat]
        /\ \A l \in ChunkKind : current'[l] = IF l = k THEN 0 ELSE current[l]
        /\ buffered' \in [ChunkKind -> SUBSET Nat]
        /\ \A l \in ChunkKind :
               buffered'[l] = IF l = k THEN {} ELSE buffered[l]
        /\ UNCHANGED kindOf
    BY <1>6, EnterChunkFacts
  <2>2. \A l \in ChunkKind : /\ current'[l] <= Len(kindOf')
                             /\ current'[l] = 0 => buffered'[l] = {}
    BY <1>1, <2>1 DEF StreamsOK
  <2> QED
    BY <2>1, <2>2 DEF StreamsOK
<1>7. ASSUME NEW k \in ChunkKind, current[k] # 0, CloseFails(k)
      PROVE  StreamsOK'
  <2>1. /\ current' \in [ChunkKind -> Nat]
        /\ \A l \in ChunkKind : current'[l] = IF l = k THEN 0 ELSE current[l]
        /\ buffered' \in [ChunkKind -> SUBSET Nat]
        /\ \A l \in ChunkKind :
               buffered'[l] = IF l = k THEN {} ELSE buffered[l]
        /\ UNCHANGED kindOf
    BY <1>7, CloseFailsFacts
  <2>2. \A l \in ChunkKind : /\ current'[l] <= Len(kindOf')
                             /\ current'[l] = 0 => buffered'[l] = {}
    BY <1>1, <2>1 DEF StreamsOK
  <2> QED
    BY <2>1, <2>2 DEF StreamsOK
<1>8. CASE Rotate
  BY <1>6, <1>8 DEF Rotate, CloseChunk
<1>9. CASE FinalClose
  BY <1>2, <1>6, <1>9 DEF FinalClose, FinalKind, ChunkKind, CloseChunk
<1>10. CASE WriterFails
  BY <1>2, <1>7, <1>10 DEF WriterFails
<1>11. CASE FinalFails
  BY <1>2, <1>7, <1>11 DEF FinalFails, FinalKind, ChunkKind
<1>12. CASE UNCHANGED vars
  BY <1>2, <1>12 DEF vars
<1>13. CASE Viewer
  BY <1>2, <1>13 DEF Viewer, Offer, Close, CheckWriter, PutStop, WaitWriter,
     WaitCompressor, ViewerPrunes, PruneOne, SkipOne, SaveFinal,
     SaveFinalFails, Timeout
<1>14. CASE Writer
  BY <1>2, <1>3, <1>5, <1>8, <1>9, <1>10, <1>11, <1>14
     DEF Writer, Get, WriteEvent, WriterQuota, WriterPrunes, PruneOne, SkipOne,
         PruneEvent, WriterSaves, FinalFlush
<1>15. CASE Compressor
  BY <1>2, <1>15 DEF Compressor, GetTask, Compress, Replace, Unlink, Record,
     CompressFails
<1>16. CASE Recover
  BY <1>2, <1>16 DEF Recover
<1> QED
  BY <1>4, <1>12, <1>13, <1>14, <1>15, <1>16 DEF Next

\* An item that the viewer or the writer may offer.
LEMMA ItemFacts ==
    ASSUME NEW k \in ChunkKind \cup {"event"}, NEW n \in Int,
           k \in ChunkKind => n > 0,
           NEW e, e = [kind |-> k, id |-> n]
    PROVE  e \in Item /\ e.kind = k /\ e.id = n
BY DEF Item

\* A queue that grows by one item.
LEMMA QueueGrows ==
    ASSUME QueueOK, NEW e \in Item \cup {Stop},
           e.kind \in ChunkKind => e.id > 0,
           queue' \in {queue, Append(queue, e)},
           UNCHANGED hand,
           wpc' = "write" <=> wpc = "write",
           wpc' \in {"loop", "write", "prune", "prune_event", "final_raw",
                     "final_csv", "final_flush", "done"}
    PROVE  QueueOK'
<1>1. queue \in Seq(Item \cup {Stop})
  BY DEF QueueOK
<1>2. queue' \in Seq(Item \cup {Stop})
  BY <1>1
<1>3. \A i \in DOMAIN queue' : \/ queue'[i] = e
                               \/ i \in DOMAIN queue /\ queue'[i] = queue[i]
  BY <1>1
<1>4. \A i \in DOMAIN queue' : queue'[i].kind \in ChunkKind => queue'[i].id > 0
  BY <1>3 DEF QueueOK
<1> QED
  BY <1>2, <1>4 DEF QueueOK

\* The queue and the item at hand.
LEMMA StepQueue == ShapeInv /\ [Next]_vars => QueueOK'
<1> SUFFICES ASSUME ShapeInv, [Next]_vars PROVE QueueOK'
  OBVIOUS
<1>1. QueueOK /\ ViewerOK
  BY DEF ShapeInv
<1> USE DEF viewer, offers, shared, writer, compressor, files
<1>2. CASE UNCHANGED <<queue, hand, wpc>>
  BY <1>1, <1>2 DEF QueueOK
<1>3. CASE /\ UNCHANGED <<queue, hand>> /\ wpc # "write" /\ wpc' # "write"
           /\ wpc' \in {"loop", "write", "prune", "prune_event", "final_raw",
                        "final_csv", "final_flush", "done"}
  BY <1>1, <1>3 DEF QueueOK
<1>4. CASE /\ UNCHANGED queue /\ hand' = <<>> /\ wpc' # "write"
           /\ wpc' \in {"loop", "write", "prune", "prune_event", "final_raw",
                        "final_csv", "final_flush", "done"}
  BY <1>1, <1>4 DEF QueueOK
<1>5. ASSUME NEW k \in scenario.kinds, Offer(k) PROVE QueueOK'
  <2>1. PICK e : e = [kind |-> k, id |-> offered + 1]
    OBVIOUS
  <2>2. offered + 1 \in Int /\ offered + 1 > 0 /\ k \in ChunkKind \cup {"event"}
    BY <1>1 DEF ViewerOK, Scenario
  <2>3. e \in Item /\ e.kind = k /\ e.id = offered + 1
    BY <2>1, <2>2, ItemFacts
  <2>4. queue' \in {queue, Append(queue, e)} /\ UNCHANGED <<hand, wpc>>
    BY <1>5, <2>1 DEF Offer, Put, Enqueue
  <2> QED
    BY <1>1, <2>2, <2>3, <2>4, QueueGrows DEF QueueOK
<1>6. CASE Close
  <2>1. PICK e : e = [kind |-> "event", id |-> offered + 1]
    OBVIOUS
  <2>2. offered + 1 \in Int /\ offered + 1 > 0
    BY <1>1 DEF ViewerOK
  <2>3. e \in Item /\ e.kind = "event" /\ e.id = offered + 1
    BY <2>1, <2>2, ItemFacts
  <2>4. queue' \in {queue, Append(queue, e)} /\ UNCHANGED <<hand, wpc>>
    BY <1>6, <2>1 DEF Close, Put, Enqueue
  <2> QED
    BY <1>1, <2>2, <2>3, <2>4, QueueGrows DEF QueueOK
<1>7. CASE PruneEvent
  <2>1. PICK e : e = [kind |-> "event", id |-> -notices - 1]
    OBVIOUS
  <2>2. -notices - 1 \in Int /\ "event" \notin ChunkKind
    BY <1>1 DEF ViewerOK, ChunkKind
  <2>3. e \in Item /\ e.kind = "event"
    BY <2>1, <2>2, ItemFacts
  <2>4. /\ queue' \in {queue, Append(queue, e)}
        /\ UNCHANGED hand /\ wpc = "prune_event" /\ wpc' = "prune"
    BY <1>7, <2>1 DEF PruneEvent, Enqueue
  <2> QED
    BY <1>1, <2>2, <2>3, <2>4, QueueGrows
<1>8. CASE PutStop
  <2>1. Stop.kind = "stop" /\ "stop" \notin ChunkKind
    BY DEF Stop, ChunkKind
  <2>2. queue' = Append(queue, Stop) /\ UNCHANGED <<hand, wpc>>
    BY <1>8 DEF PutStop
  <2> QED
    BY <1>1, <2>1, <2>2, QueueGrows DEF QueueOK
<1>9. CASE Get
  <2>1. queue \in Seq(Item \cup {Stop}) /\ queue # <<>> /\ queue' = Tail(queue)
    BY <1>1, <1>9 DEF QueueOK, Get
  <2>2. /\ queue' \in Seq(Item \cup {Stop})
        /\ 1 \in DOMAIN queue /\ Head(queue) = queue[1]
        /\ Head(queue) \in Item \cup {Stop}
        /\ \A i \in DOMAIN queue' : /\ i + 1 \in DOMAIN queue
                                    /\ queue'[i] = queue[i + 1]
    BY <2>1
  <2>3. \A i \in DOMAIN queue' : queue'[i].kind \in ChunkKind => queue'[i].id > 0
    BY <1>1, <2>2 DEF QueueOK
  <2>4. CASE Head(queue) = Stop
    BY <1>1, <1>9, <2>2, <2>3, <2>4 DEF QueueOK, Get
  <2>5. CASE Head(queue) # Stop
    <3>1. wpc' = "write" /\ hand' = <<Head(queue)>> /\ Head(queue) \in Item
      BY <1>9, <2>2, <2>5 DEF Get
    <3>2. hand' \in Seq(Item) /\ Len(hand') = 1 /\ DOMAIN hand' = {1}
          /\ hand'[1] = Head(queue)
      BY <3>1
    <3>3. Head(queue).kind \in ChunkKind => Head(queue).id > 0
      BY <1>1, <2>2 DEF QueueOK
    <3> QED
      BY <2>2, <2>3, <3>1, <3>2, <3>3 DEF QueueOK
  <2> QED
    BY <2>4, <2>5
<1>10. CASE WriteEvent \/ Write \/ WriterFails
  BY <1>4, <1>10 DEF WriteEvent, Write, WriterFails
<1>11. CASE WriterPrunes \/ WriterQuota \/ WriterSaves \/ FinalClose
            \/ FinalFlush \/ FinalFails
  BY <1>2, <1>3, <1>11 DEF WriterPrunes, WriterQuota, WriterSaves, FinalClose,
     FinalFlush, FinalFails
<1>12. CASE Crash
  BY <1>1, <1>12 DEF QueueOK, Crash
<1>13. CASE Compressor
  BY <1>2, <1>13 DEF Compressor, GetTask, Compress, Replace, Unlink, Record,
     CompressFails
<1>14. CASE CheckWriter \/ WaitWriter \/ WaitCompressor \/ ViewerPrunes
            \/ SaveFinal \/ SaveFinalFails \/ Timeout \/ Recover
            \/ Rotate \/ Flush \/ UNCHANGED vars
  BY <1>2, <1>14 DEF CheckWriter, WaitWriter, WaitCompressor, ViewerPrunes,
     SaveFinal, SaveFinalFails, Timeout, Recover, Rotate, Flush, vars
<1> QED
  BY <1>5, <1>6, <1>7, <1>8, <1>9, <1>10, <1>11, <1>12, <1>13, <1>14
     DEF Next, Viewer, Writer

\* The flags and counters of the viewer.
LEMMA StepViewer == ShapeInv /\ [Next]_vars => ViewerOK'
<1> SUFFICES ASSUME ShapeInv, [Next]_vars PROVE ViewerOK'
  OBVIOUS
<1>1. ViewerOK
  BY DEF ShapeInv
<1> USE DEF viewer, offers, shared, writer, compressor, files
<1>2. UNCHANGED scenario
  BY DEF Next, vars
<1>3. CASE /\ UNCHANGED <<offered, notices, dropped, stopRequested>>
           /\ vpc' = vpc \/ vpc' \in {"put_stop", "wait_writer",
                  "wait_compressor", "prune", "closed", "gave_up", "dead"}
           /\ healthy' \in {healthy, FALSE} /\ errors' \in {errors, TRUE}
  <2>1. healthy' \in BOOLEAN /\ errors' \in BOOLEAN
    BY <1>1, <1>3, Zenon DEF ViewerOK
  <2> QED
    BY <1>1, <1>2, <1>3, <2>1 DEF ViewerOK
<1>4. ASSUME NEW item, Enqueue(item), UNCHANGED <<vpc, stopRequested, healthy>>,
             offered' \in {offered, offered + 1},
             notices' \in {notices, notices + 1}
      PROVE  ViewerOK'
  <2>1. dropped' \in {dropped, dropped + 1}
    BY <1>4 DEF Enqueue
  <2>2. errors' \in BOOLEAN
    BY <1>1, <1>4, Zenon DEF Enqueue, ViewerOK
  <2> QED
    BY <1>1, <1>2, <1>4, <2>1, <2>2 DEF ViewerOK
<1>5. ASSUME NEW k \in scenario.kinds, Offer(k) PROVE ViewerOK'
  <2>1. CASE stopRequested \/ ~healthy
    BY <1>1, <1>2, <1>5, <2>1 DEF ViewerOK, Offer, Put
  <2>2. CASE ~(stopRequested \/ ~healthy)
    BY <1>4, <1>5, <2>2 DEF Offer, Put
  <2> QED
    BY <2>1, <2>2
<1>6. CASE Close
  <2>1. dropped' \in {dropped, dropped + 1} /\ offered' = offered + 1
        /\ vpc' = "check_writer" /\ UNCHANGED <<notices, healthy>>
    BY <1>6 DEF Close, Put, Enqueue
  <2>2. errors' \in BOOLEAN
    BY <1>1, <1>6, Zenon DEF Close, Put, Enqueue, ViewerOK
  <2> QED
    BY <1>1, <1>2, <2>1, <2>2 DEF ViewerOK
<1>7. CASE PruneEvent
  BY <1>4, <1>7 DEF PruneEvent
<1>8. CASE Compressor
  BY <1>3, <1>8 DEF Compressor, GetTask, Compress, Replace, Unlink, Record,
     CompressFails
<1>9. CASE Writer /\ ~PruneEvent
  BY <1>3, <1>9 DEF Writer, Get, WriteEvent, Rotate, Write, Flush, WriterQuota,
     WriterPrunes, WriterSaves, WriterFails, FinalClose, FinalFlush, FinalFails,
     SetError
<1>10. CASE CheckWriter \/ PutStop \/ WaitWriter \/ WaitCompressor
            \/ ViewerPrunes \/ SaveFinal \/ SaveFinalFails \/ Timeout
            \/ Crash \/ Recover \/ UNCHANGED vars
  BY <1>3, <1>10 DEF CheckWriter, PutStop, WaitWriter, WaitCompressor,
     ViewerPrunes, SaveFinal, SaveFinalFails, Timeout, Crash, Recover, SetError,
     vars
<1> QED
  BY <1>5, <1>6, <1>7, <1>8, <1>9, <1>10 DEF Next, Viewer

\* Every state of a session has the shape.
THEOREM Shape == Spec => []ShapeInv
<1>1. ShapeInv /\ [Next]_vars => ShapeInv'
  BY StepFiles, StepInventory, StepStreams, StepQueue, StepViewer DEF ShapeInv
<1> QED
  BY InitShape, <1>1, PTL DEF Spec

-----------------------------------------------------------------------------
(* Types and bounds.                                                        *)

\* A step keeps the queue within its size, and the last item offered is the
\* closing event.
LEMMA StepBounds == ShapeInv /\ BoundsInv /\ [Next]_vars => BoundsInv'
<1> SUFFICES ASSUME ShapeInv, BoundsInv, [Next]_vars PROVE BoundsInv'
  OBVIOUS
<1> USE DEF viewer, offers, shared, writer, compressor, files
<1>1. /\ scenario \in Scenario /\ scenario' = scenario
      /\ offered \in Nat /\ queue \in Seq(Item \cup {Stop})
  BY DEF ShapeInv, ViewerOK, QueueOK, Next, vars
<1>2. scenario.queue \in Nat /\ scenario.items \in Nat /\ scenario.queue > 0
  BY <1>1 DEF Scenario
<1>3. Len(queue') <= scenario.queue
  <2>1. Len(queue) \in Nat /\ Len(queue) <= scenario.queue
    BY <1>1 DEF BoundsInv
  <2>2. CASE queue' = queue \/ queue' = <<>>
    BY <1>2, <2>1, <2>2
  <2>3. CASE queue # <<>> /\ queue' = Tail(queue)
    BY <1>1, <1>2, <2>1, <2>3
  <2>4. CASE \E e : queue' = Append(queue, e) /\ Len(queue) < scenario.queue
    BY <1>1, <1>2, <2>1, <2>4
  <2>5. CASE Viewer
    BY <2>2, <2>4, <2>5 DEF Viewer, Offer, Close, Put, Enqueue, CheckWriter,
       PutStop, WaitWriter, WaitCompressor, ViewerPrunes, SaveFinal,
       SaveFinalFails, Timeout
  <2>6. CASE Writer
    BY <2>2, <2>3, <2>4, <2>6 DEF Writer, Get, WriteEvent, Rotate, Write, Flush,
       WriterQuota, WriterPrunes, PruneEvent, Enqueue, WriterSaves, WriterFails,
       FinalClose, FinalFlush, FinalFails
  <2>7. CASE Compressor \/ Crash \/ Recover \/ UNCHANGED vars
    BY <2>2, <2>7 DEF Compressor, GetTask, Compress, Replace, Unlink, Record,
       CompressFails, Crash, Recover, vars
  <2> QED
    BY <2>5, <2>6, <2>7 DEF Next
<1>4. offered' <= scenario.items + 1 /\ (vpc' = "run" => offered' <= scenario.items)
  <2>1. /\ offered <= scenario.items + 1
        /\ vpc = "run" => offered <= scenario.items
    BY DEF BoundsInv
  <2>2. CASE offered' = offered /\ (vpc' = "run" => vpc = "run")
    BY <2>1, <2>2
  <2>3. ASSUME NEW k \in scenario.kinds, Offer(k) PROVE offered' <= scenario.items
    BY <1>1, <1>2, <2>3 DEF Offer
  <2>4. CASE Close
    BY <1>1, <1>2, <2>1, <2>4 DEF Close
  <2>5. CASE \E k \in scenario.kinds : Offer(k)
    <3>1. offered' <= scenario.items
      BY <2>3, <2>5
    <3>2. offered' \in Nat
      BY <1>1, <2>5 DEF Offer
    <3> QED
      BY <1>2, <3>1, <3>2
  <2>6. CASE Viewer
    BY <2>2, <2>4, <2>5, <2>6 DEF Viewer, CheckWriter, PutStop, WaitWriter,
       WaitCompressor, ViewerPrunes, SaveFinal, SaveFinalFails, Timeout
  <2>7. CASE Writer
    BY <2>2, <2>7 DEF Writer, Get, WriteEvent, Rotate, Write, Flush,
       WriterQuota, WriterPrunes, PruneEvent, WriterSaves, WriterFails,
       FinalClose, FinalFlush, FinalFails
  <2>8. CASE Compressor \/ Crash \/ Recover \/ UNCHANGED vars
    BY <2>2, <2>8 DEF Compressor, GetTask, Compress, Replace, Unlink, Record,
       CompressFails, Crash, Recover, vars
  <2> QED
    BY <2>6, <2>7, <2>8 DEF Next
<1>5. stopRequested' \in BOOLEAN
  <2>1. stopRequested' = stopRequested \/ stopRequested' = TRUE
    BY DEF Next, vars, Viewer, Offer, Close, CheckWriter, PutStop, WaitWriter,
       WaitCompressor, ViewerPrunes, SaveFinal, SaveFinalFails, Timeout, Writer,
       Get, WriteEvent, Rotate, Write, Flush, WriterQuota, WriterPrunes,
       PruneEvent, WriterSaves, WriterFails, FinalClose, FinalFlush, FinalFails,
       Compressor, GetTask, Compress, Replace, Unlink, Record, CompressFails,
       Crash, Recover
  <2> QED
    BY <2>1, Zenon DEF BoundsInv
<1>6. state' \in SessionState /\ saved'.state \in SessionState
  <2> USE DEF BoundsInv
  <2>1. CASE WaitCompressor
    <3>1. state' = FinalState /\ UNCHANGED saved
      BY <2>1 DEF WaitCompressor
    <3>2. FinalState \in SessionState
      BY DEF FinalState, SessionState
    <3> QED
      BY <3>1, <3>2
  <2>2. CASE SaveFinal
    <3>1. UNCHANGED state /\ saved' = [state |-> state, chunks |-> chunks]
      BY <2>2 DEF SaveFinal
    <3> QED
      BY <3>1
  <2>3. CASE Recover
    <3>1. UNCHANGED state /\ (saved'.state = "interrupted" \/ UNCHANGED saved)
      BY <2>3 DEF Recover
    <3> QED
      BY <3>1 DEF SessionState
  <2>4. CASE Viewer
    BY <2>4, <2>1, <2>2 DEF Viewer, Offer, Close, CheckWriter, PutStop,
       WaitWriter, ViewerPrunes, PruneOne, SkipOne, SaveFinalFails, Timeout
  <2>5. CASE Writer
    BY <2>5 DEF Writer, Get, WriteEvent, Rotate, Write, Flush, WriterQuota,
       WriterPrunes, PruneOne, SkipOne, PruneEvent, WriterSaves, WriterFails,
       CloseFails, FinalClose, FinalFlush, FinalFails
  <2>6. CASE Compressor \/ Crash \/ UNCHANGED vars
    BY <2>6 DEF Compressor, GetTask, Compress, Replace, Unlink, Record,
       CompressFails, Crash, vars
  <2> QED
    BY <2>4, <2>5, <2>6, <2>3 DEF Next
<1> QED
  BY <1>1, <1>3, <1>4, <1>5, <1>6 DEF BoundsInv

\* Every variable keeps its type, the item queue its bound, and every task of
\* the compressor is a place in the inventory, whatever the scenario.
THEOREM TypeCorrect == Spec => []TypeOK
<1>1. Init => BoundsInv
  <2> SUFFICES ASSUME Init PROVE BoundsInv
    OBVIOUS
  <2>1. scenario \in Scenario
    BY BlackboxAssumption DEF Init
  <2>2. scenario.queue \in Nat /\ scenario.items \in Nat
    BY <2>1 DEF Scenario
  <2>3. Len(queue) = 0 /\ offered = 0 /\ stopRequested = FALSE
    BY DEF Init
  <2>4. state \in SessionState /\ saved.state \in SessionState
    BY DEF Init, SessionState
  <2>5. stopRequested \in BOOLEAN
    BY <2>3, Zenon
  <2> QED
    BY <2>2, <2>3, <2>4, <2>5 DEF BoundsInv
<1>2. ShapeInv /\ BoundsInv => TypeOK
  <2> SUFFICES ASSUME ShapeInv, BoundsInv PROVE TypeOK
    OBVIOUS
  <2>1. /\ scenario.items \in Nat /\ Len(kindOf) \in Nat /\ Len(chunks) \in Nat
        /\ kindOf \in Seq(ChunkKind) /\ chunks \in Seq(Entry)
        /\ tasks \in Seq(Nat) /\ stored \in Seq(SUBSET Nat)
        /\ Len(stored) = Len(kindOf)
    BY DEF ShapeInv, ViewerOK, Scenario, FilesOK, InventoryOK
  <2>2. offered \in 0 .. scenario.items + 1
    BY <2>1 DEF BoundsInv, ShapeInv, ViewerOK
  <2>3. /\ queue \in Seq(Item \cup {Stop}) /\ Len(queue) <= scenario.queue
        /\ hand \in Seq(Item) /\ Len(hand) <= 1
    BY DEF BoundsInv, ShapeInv, QueueOK
  <2>4. current \in [ChunkKind -> 0 .. Len(kindOf)]
    BY <2>1 DEF ShapeInv, StreamsOK
  <2>5. chunks \in Seq([chunk: 1 .. Len(kindOf), state: ChunkState])
    <3> DEFINE E == [chunk: 1 .. Len(kindOf), state: ChunkState]
    <3>1. \A i \in 1 .. Len(chunks) : chunks[i] \in E
      <4> TAKE i \in 1 .. Len(chunks)
      <4>1. chunks[i] \in Entry /\ i \in DOMAIN chunks
        BY <2>1
      <4>2. chunks[i].chunk \in 1 .. Len(kindOf) /\ chunks[i].state \in ChunkState
        BY <4>1, EntryFacts
      <4> QED
        BY <4>1, <4>2 DEF Entry
    <3> HIDE DEF E
    <3>2. chunks \in [1 .. Len(chunks) -> E]
      BY <2>1, <3>1
    <3>3. chunks \in Seq(E)
      BY <2>1, <3>2, FunctionIsSeq
    <3> QED
      BY <3>3 DEF E
  <2>6. tasks \in Seq(0 .. Len(chunks))
    <3>1. Len(tasks) \in Nat /\ DOMAIN tasks = 1 .. Len(tasks)
      BY <2>1
    <3>2. \A j \in 1 .. Len(tasks) : tasks[j] \in 0 .. Len(chunks)
      BY <2>1, <3>1 DEF ShapeInv, InventoryOK
    <3>3. tasks \in [1 .. Len(tasks) -> 0 .. Len(chunks)]
      BY <2>1, <3>1, <3>2
    <3> QED
      BY <3>1, <3>3, FunctionIsSeq
  <2>7. stored \in [1 .. Len(kindOf) -> SUBSET Nat]
    BY <2>1
  <2>8. /\ plain \cup gz \cup tmp \cup pruned \subseteq 1 .. Len(kindOf)
        /\ events \subseteq Int
    BY DEF ShapeInv, FilesOK
  <2>9. candidates \subseteq 1 .. Len(chunks) /\ task \in 0 .. Len(chunks)
    BY <2>1 DEF ShapeInv, InventoryOK
  <2>10. /\ stopRequested \in BOOLEAN
         /\ state \in SessionState /\ saved.state \in SessionState
    BY DEF BoundsInv
  <2>11. buffered \in [ChunkKind -> SUBSET Nat]
    BY DEF ShapeInv, StreamsOK
  <2> QED
    BY <2>1, <2>2, <2>3, <2>4, <2>5, <2>6, <2>7, <2>8, <2>9, <2>10, <2>11
       DEF TypeOK, ShapeInv, ViewerOK, QueueOK, InventoryOK
<1>3. ShapeInv /\ BoundsInv /\ [Next]_vars => BoundsInv'
  BY StepBounds
<1> QED
  BY Shape, <1>1, <1>2, <1>3, PTL DEF Spec

-----------------------------------------------------------------------------
(* Every chunk stays readable.                                              *)

\* No step takes the last file of a chunk but the quota.
LEMMA StepReadable == ShapeInv /\ ReadableInv /\ [Next]_vars => ReadableInv'
<1> SUFFICES ASSUME ShapeInv, ReadableInv, [Next]_vars PROVE ReadableInv'
  OBVIOUS
<1> USE DEF viewer, offers, shared, writer, compressor, files
<1>1. /\ chunks \in Seq(Entry) /\ kindOf \in Seq(ChunkKind)
      /\ \A c \in 1 .. Len(kindOf) : c \in plain \cup gz \cup pruned
      /\ cpc = "unlink" => TaskChunk \in gz \cup pruned
  BY DEF ShapeInv, InventoryOK, FilesOK, ReadableInv, ChunksStayReadable,
         Readable, ReplacedBeforeUnlink
<1>2. SUFFICES /\ \A c \in 1 .. Len(kindOf') : c \in plain' \cup gz' \cup pruned'
               /\ cpc' = "unlink" => TaskChunk' \in gz' \cup pruned'
  BY DEF ReadableInv, ChunksStayReadable, Readable, ReplacedBeforeUnlink
<1>3. CASE UNCHANGED <<kindOf, plain, gz, pruned, chunks, task, cpc>>
  BY <1>1, <1>3 DEF TaskChunk
<1>4. CASE PruneOne /\ UNCHANGED <<task, cpc>>
  <2>1. PICK i \in candidates :
          /\ i \in DOMAIN chunks
          /\ \A j \in DOMAIN chunks : chunks'[j].chunk = chunks[j].chunk
          /\ pruned' = pruned \cup {chunks[i].chunk}
          /\ gz \subseteq gz' \cup {chunks[i].chunk}
          /\ plain \subseteq plain' \cup {chunks[i].chunk}
          /\ UNCHANGED kindOf
    BY <1>4, PruneFacts
  <2>2. cpc = "unlink" => TaskChunk' = TaskChunk
    BY <1>4, <2>1, TaskFacts DEF TaskChunk
  <2> QED
    BY <1>1, <1>4, <2>1, <2>2
<1>5. ASSUME NEW k \in ChunkKind, current[k] # 0, EnterChunk(k),
             UNCHANGED <<kindOf, plain, gz, pruned, task, cpc>>
      PROVE  /\ \A c \in 1 .. Len(kindOf') : c \in plain' \cup gz' \cup pruned'
             /\ cpc' = "unlink" => TaskChunk' \in gz' \cup pruned'
  <2>1. cpc = "unlink" => TaskChunk' = TaskChunk
    BY <1>5, EnterChunkFacts, TaskFacts DEF TaskChunk
  <2> QED
    BY <1>1, <1>5, <2>1
<1>6. CASE Write
  <2>1. \/ Len(kindOf') = Len(kindOf) /\ plain' = plain
        \/ /\ Len(kindOf') = Len(kindOf) + 1
           /\ plain' = plain \cup {Len(kindOf) + 1}
    BY <1>6, WriteFacts
  <2>2. UNCHANGED <<gz, pruned, chunks, task, cpc>> /\ Len(kindOf) \in Nat
    BY <1>1, <1>6 DEF Write
  <2> QED
    BY <1>1, <2>1, <2>2 DEF TaskChunk
<1>7. CASE Compress \/ Replace \/ Record \/ GetTask \/ CompressFails
  BY <1>1, <1>7 DEF Compress, Replace, Record, GetTask, CompressFails, TaskChunk
<1>8. CASE Unlink
  BY <1>1, <1>8 DEF Unlink
<1>9. CASE Crash
  BY <1>1, <1>9 DEF Crash
<1>10. CASE Recover
  BY <1>1, <1>10 DEF Recover, Recovered, TaskChunk
<1>11. CASE Rotate
  BY <1>5, <1>11 DEF Rotate, CloseChunk
<1>12. CASE FinalClose
  BY <1>3, <1>5, <1>12 DEF FinalClose, FinalKind, ChunkKind, CloseChunk
<1>13. CASE ViewerPrunes \/ WriterPrunes
  BY <1>3, <1>4, <1>13 DEF ViewerPrunes, WriterPrunes, SkipOne
<1>14. CASE UNCHANGED vars
  BY <1>3, <1>14 DEF vars
<1>15. CASE Viewer
  BY <1>3, <1>13, <1>15 DEF Viewer, Offer, Close, CheckWriter, PutStop,
     WaitWriter, WaitCompressor, SaveFinal, SaveFinalFails, Timeout
<1>16. CASE WriterFails \/ FinalFails
  <2>1. UNCHANGED <<kindOf, plain, gz, pruned, task, cpc>>
    BY <1>16 DEF WriterFails, FinalFails, CloseFails
  <2>2. \/ UNCHANGED chunks
        \/ \E k \in ChunkKind : current[k] # 0 /\ EnterChunk(k)
    BY <1>16 DEF WriterFails, FinalFails, CloseFails, LoseStream, FinalKind,
       ChunkKind
  <2> QED
    BY <1>3, <1>5, <2>1, <2>2
<1>17. CASE Writer
  BY <1>3, <1>6, <1>11, <1>12, <1>13, <1>17, <1>16 DEF Writer, Get, WriteEvent,
     Flush, WriterQuota, PruneEvent, WriterSaves, FinalFlush
<1> QED
  BY <1>7, <1>8, <1>9, <1>10, <1>14, <1>15, <1>17 DEF Next, Compressor

\* At every moment, also between two steps of a compression, of close() or of
\* the recovery, every chunk ever opened has a readable file unless the quota
\* deleted it.
THEOREM ChunksReadable == Spec => []ChunksStayReadable
<1>1. Init => ReadableInv
  BY DEF Init, ReadableInv, ChunksStayReadable, ReplacedBeforeUnlink
<1>2. ShapeInv /\ ReadableInv /\ [Next]_vars => ReadableInv'
  BY StepReadable
<1>3. ReadableInv => ChunksStayReadable
  BY DEF ReadableInv
<1> QED
  BY Shape, <1>1, <1>2, <1>3, PTL DEF Spec

-----------------------------------------------------------------------------
(* The newest chunks are kept.                                              *)

\* A nonempty set of numbers with a bound has a greatest element.
LEMMA GreatestElement ==
    ASSUME NEW n \in Nat, NEW S, S \subseteq 1 .. n, S # {}
    PROVE  \E m \in S : \A x \in S : x <= m
<1> DEFINE T == {n - x : x \in S}
<1>1. T \subseteq Nat /\ T # {}
  <2>1. \A x \in S : n - x \in Nat
    OBVIOUS
  <2>2. PICK x : x \in S
    OBVIOUS
  <2>3. n - x \in T
    BY <2>2
  <2> QED
    BY <2>1, <2>3
<1>2. Min(T) \in T /\ \A y \in T : Min(T) <= y
  BY <1>1, LeastElement
<1>3. PICK m \in S : Min(T) = n - m
  BY <1>2
<1>4. \A x \in S : n - m <= n - x
  BY <1>2, <1>3
<1>5. \A x \in S : x <= m
  BY <1>4
<1> QED
  BY <1>5

\* What is not among the two newest of a set has two of those after it.
LEMMA TwoNewest ==
    ASSUME NEW n \in Nat, NEW S, S \subseteq 1 .. n,
           NEW i \in S, i \notin Newest(2, S)
    PROVE  \E j, l \in Newest(2, S) : j # l /\ j > i /\ l > i
<1> DEFINE T == {j \in S : j > i}
<1>1. IsFiniteSet(1 .. n)
  BY FS_Interval
<1>2. IsFiniteSet(S) /\ IsFiniteSet(T)
  BY <1>1, FS_Subset
<1>3. Cardinality(T) \in Nat /\ ~(Cardinality(T) < 2)
  BY <1>2, FS_CardinalityType DEF Newest
<1>4. T \subseteq 1 .. n
  OBVIOUS
<1> HIDE DEF T
<1>5. T # {}
  BY <1>3, FS_EmptySet
<1>6. PICK m \in T : \A x \in T : x <= m
  BY <1>4, <1>5, GreatestElement
<1>7. Cardinality(T \ {m}) = Cardinality(T) - 1
  BY <1>2, <1>6, FS_RemoveElement
<1>8. T \ {m} # {} /\ T \ {m} \subseteq 1 .. n
  BY <1>3, <1>4, <1>7, FS_EmptySet
<1>9. PICK l \in T \ {m} : \A x \in T \ {m} : x <= l
  BY <1>8, GreatestElement
<1>10. {j \in S : j > m} = {} /\ {j \in S : j > l} \subseteq {m}
  <2>1. m \in S /\ m > i /\ l \in S /\ l > i /\ S \subseteq Int
    BY <1>6, <1>9 DEF T
  <2>2. \A x \in S : x > m => FALSE
    BY <1>6, <2>1 DEF T
  <2>3. \A x \in S : x > l => x = m
    BY <1>9, <2>1 DEF T
  <2> QED
    BY <2>2, <2>3
<1>11. Cardinality({j \in S : j > m}) = 0
  BY <1>10, FS_EmptySet
<1>12. Cardinality({j \in S : j > l}) < 2
  <2>1. IsFiniteSet({m}) /\ Cardinality({m}) = 1
    BY FS_Singleton
  <2>2. /\ Cardinality({j \in S : j > l}) <= Cardinality({m})
        /\ IsFiniteSet({j \in S : j > l})
    BY <1>10, <2>1, FS_Subset
  <2>3. Cardinality({j \in S : j > l}) \in Nat
    BY <2>2, FS_CardinalityType
  <2> QED
    BY <2>1, <2>2, <2>3
<1>13. m \in Newest(2, S) /\ l \in Newest(2, S)
  BY <1>6, <1>9, <1>11, <1>12 DEF Newest, T
<1> QED
  BY <1>6, <1>9, <1>13 DEF T

\* What a scan may prune has two chunks of its kind after it that the scan
\* protects.
LEMMA PrunableFacts ==
    ASSUME ShapeInv, NEW i \in Prunable
    PROVE  /\ i \in DOMAIN chunks
           /\ \E j, l \in DOMAIN chunks :
                  /\ j # l /\ j > i /\ l > i
                  /\ KindAt(j) = KindAt(i) /\ KindAt(l) = KindAt(i)
                  /\ chunks[j].state # "pruned" /\ chunks[l].state # "pruned"
                  /\ j \notin Prunable /\ l \notin Prunable
<1>1. PICK k \in ChunkKind : i \in Available(k)
  BY DEF Prunable
<1>2. i \notin Newest(2, Available(k))
  <2>1. Newest(2, Available(k)) \subseteq Protected
    BY Zenon DEF Protected
  <2>2. i \notin Protected
    BY Zenon DEF Prunable
  <2> QED
    BY <2>1, <2>2, Zenon
<1>3. Available(k) \subseteq 1 .. Len(chunks) /\ Len(chunks) \in Nat
  BY DEF Available, ShapeInv, InventoryOK
<1>4. PICK j, l \in Newest(2, Available(k)) : j # l /\ j > i /\ l > i
  BY <1>1, <1>2, <1>3, TwoNewest
<1>5. j \in Available(k) /\ l \in Available(k)
  BY DEF Newest
<1>6. j \notin Prunable /\ l \notin Prunable
  <2>1. Newest(2, Available(k)) \subseteq Protected
    BY Zenon DEF Protected
  <2>2. j \in Protected /\ l \in Protected
    BY <1>4, <2>1, Zenon
  <2> QED
    BY <2>2, Zenon DEF Prunable
<1> QED
  BY <1>1, <1>4, <1>5, <1>6 DEF Available, KindAt

\* A scan keeps two chunks after every pruned one and every candidate.
LEMMA ScanKeepsNewest ==
    ASSUME ShapeInv, NewestInv, ScanQuota, UNCHANGED <<chunks, kindOf>>
    PROVE  NewestInv'
<1> SUFFICES ASSUME NEW i \in DOMAIN chunks,
                    chunks[i].state = "pruned" \/ i \in candidates'
             PROVE  \E j, l \in DOMAIN chunks :
                        j # l /\ KeptAfter(i, j)' /\ KeptAfter(i, l)'
  BY DEF NewestInv
<1>1. DOMAIN chunks \subseteq Nat
  BY DEF ShapeInv, InventoryOK
<1>2. candidates' = {} \/ candidates' = Prunable
  BY DEF ScanQuota
<1>3. \A j : KeptAfter(i, j)' <=>
                /\ j \in DOMAIN chunks /\ j > i
                /\ chunks[j].state # "pruned" /\ j \notin candidates'
                /\ KindAt(j) = KindAt(i)
  BY DEF KeptAfter, KindAt
<1>4. ASSUME NEW h \in DOMAIN chunks, h = i \/ h > i, KindAt(h) = KindAt(i),
             h \in Prunable, candidates' = Prunable
      PROVE  \E j, l \in DOMAIN chunks :
                 j # l /\ KeptAfter(i, j)' /\ KeptAfter(i, l)'
  <2>1. PICK j, l \in DOMAIN chunks :
            /\ j # l /\ j > h /\ l > h
            /\ KindAt(j) = KindAt(h) /\ KindAt(l) = KindAt(h)
            /\ chunks[j].state # "pruned" /\ chunks[l].state # "pruned"
            /\ j \notin Prunable /\ l \notin Prunable
    BY <1>4, PrunableFacts
  <2>2. j > i /\ l > i
    BY <1>1, <1>4, <2>1
  <2> QED
    BY <1>3, <1>4, <2>1, <2>2
<1>5. CASE i \in candidates'
  BY <1>2, <1>4, <1>5
<1>6. CASE chunks[i].state = "pruned"
  <2>1. PICK j, l \in DOMAIN chunks :
            j # l /\ KeptAfter(i, j) /\ KeptAfter(i, l)
    BY <1>6 DEF NewestInv
  <2>2. /\ j > i /\ KindAt(j) = KindAt(i) /\ chunks[j].state # "pruned"
        /\ l > i /\ KindAt(l) = KindAt(i) /\ chunks[l].state # "pruned"
    BY <2>1 DEF KeptAfter
  <2>3. CASE j \in candidates'
    BY <1>2, <1>4, <2>2, <2>3
  <2>4. CASE l \in candidates'
    BY <1>2, <1>4, <2>2, <2>4
  <2>5. CASE j \notin candidates' /\ l \notin candidates'
    BY <1>3, <2>1, <2>2, <2>5
  <2> QED
    BY <2>3, <2>4, <2>5
<1> QED
  BY <1>5, <1>6

\* A step that neither prunes nor proposes anything, and keeps the entries
\* with their chunks, keeps the two newest.
LEMMA SameNewest ==
    ASSUME ShapeInv, NewestInv,
           DOMAIN chunks \subseteq DOMAIN chunks',
           candidates' \subseteq candidates,
           \A i \in DOMAIN chunks' :
               chunks'[i].state = "pruned" \/ i \in candidates' =>
                   /\ i \in DOMAIN chunks
                   /\ chunks[i].state = "pruned" \/ i \in candidates,
           \A i \in DOMAIN chunks :
               /\ chunks'[i].chunk = chunks[i].chunk
               /\ kindOf'[chunks[i].chunk] = kindOf[chunks[i].chunk]
               /\ chunks[i].state # "pruned" /\ i \notin candidates =>
                      chunks'[i].state # "pruned"
    PROVE  NewestInv'
<1> SUFFICES ASSUME NEW i \in DOMAIN chunks',
                    chunks'[i].state = "pruned" \/ i \in candidates'
             PROVE  \E j, l \in DOMAIN chunks' :
                        j # l /\ KeptAfter(i, j)' /\ KeptAfter(i, l)'
  BY DEF NewestInv
<1>1. i \in DOMAIN chunks /\ (chunks[i].state = "pruned" \/ i \in candidates)
  OBVIOUS
<1>2. PICK j, l \in DOMAIN chunks :
          j # l /\ KeptAfter(i, j) /\ KeptAfter(i, l)
  BY <1>1 DEF NewestInv
<1>3. ASSUME NEW h \in DOMAIN chunks, KeptAfter(i, h) PROVE KeptAfter(i, h)'
  <2>1. /\ h > i /\ chunks[h].state # "pruned" /\ h \notin candidates
        /\ kindOf[chunks[h].chunk] = kindOf[chunks[i].chunk]
    BY <1>3 DEF KeptAfter, KindAt
  <2>2. chunks'[h].state # "pruned" /\ h \notin candidates' /\ h \in DOMAIN chunks'
    BY <2>1
  <2>3. kindOf'[chunks'[h].chunk] = kindOf'[chunks'[i].chunk]
    <3>1. /\ chunks'[h].chunk = chunks[h].chunk
          /\ kindOf'[chunks[h].chunk] = kindOf[chunks[h].chunk]
      OBVIOUS
    <3>2. /\ chunks'[i].chunk = chunks[i].chunk
          /\ kindOf'[chunks[i].chunk] = kindOf[chunks[i].chunk]
      BY <1>1
    <3> QED
      BY <2>1, <3>1, <3>2
  <2> QED
    BY <2>1, <2>2, <2>3 DEF KeptAfter, KindAt
<1> QED
  BY <1>2, <1>3

\* No step takes one of the two newest chunks of a kind.
LEMMA StepNewest == ShapeInv /\ NewestInv /\ [Next]_vars => NewestInv'
<1> SUFFICES ASSUME ShapeInv, NewestInv, [Next]_vars PROVE NewestInv'
  OBVIOUS
<1> USE DEF viewer, offers, shared, writer, compressor, files
<1>1. /\ chunks \in Seq(Entry) /\ kindOf \in Seq(ChunkKind)
      /\ candidates \subseteq DOMAIN chunks
  BY DEF ShapeInv, InventoryOK, FilesOK
<1>2. CASE UNCHANGED <<chunks, kindOf>> /\ candidates' \subseteq candidates
  BY <1>1, <1>2, SameNewest
<1>3. CASE PruneOne
  <2>1. PICK p \in candidates :
          /\ chunks' \in Seq(Entry) /\ Len(chunks') = Len(chunks)
          /\ \A j \in DOMAIN chunks : /\ chunks'[j].chunk = chunks[j].chunk
                                      /\ j # p => chunks'[j] = chunks[j]
          /\ candidates' \subseteq candidates
          /\ UNCHANGED kindOf
    BY <1>3, PruneFacts
  <2>2. DOMAIN chunks' = DOMAIN chunks
    BY <1>1, <2>1
  <2>3. \A i \in DOMAIN chunks' :
            chunks'[i].state = "pruned" \/ i \in candidates' =>
                /\ i \in DOMAIN chunks
                /\ chunks[i].state = "pruned" \/ i \in candidates
    BY <2>1, <2>2
  <2>4. \A i \in DOMAIN chunks :
            chunks[i].state # "pruned" /\ i \notin candidates =>
                chunks'[i].state # "pruned"
    BY <2>1
  <2> QED
    BY <2>1, <2>2, <2>3, <2>4, SameNewest
<1>4. ASSUME NEW k \in ChunkKind, current[k] # 0, EnterChunk(k),
             UNCHANGED kindOf, candidates' \subseteq candidates
      PROVE  NewestInv'
  <2>1. /\ chunks' \in Seq(Entry) /\ Len(chunks') = Len(chunks) + 1
        /\ \A i \in DOMAIN chunks : chunks'[i] = chunks[i]
        /\ chunks'[Len(chunks) + 1].state # "pruned"
    BY <1>4, EnterChunkFacts
  <2>2. DOMAIN chunks' = DOMAIN chunks \cup {Len(chunks) + 1}
    BY <1>1, <2>1
  <2>3. \A i \in DOMAIN chunks' :
            chunks'[i].state = "pruned" \/ i \in candidates' =>
                /\ i \in DOMAIN chunks
                /\ chunks[i].state = "pruned" \/ i \in candidates
    BY <1>1, <1>4, <2>1, <2>2
  <2> QED
    BY <1>4, <2>1, <2>2, <2>3, SameNewest
<1>5. CASE Write
  <2>1. \A c \in DOMAIN kindOf : kindOf'[c] = kindOf[c]
    BY <1>5, WriteFacts
  <2>2. \A i \in DOMAIN chunks : chunks[i].chunk \in DOMAIN kindOf
    BY <1>1, EntryFacts
  <2>3. UNCHANGED <<chunks, candidates>>
    BY <1>5 DEF Write
  <2> QED
    BY <1>1, <2>1, <2>2, <2>3, SameNewest
<1>6. CASE Record \/ CompressFails
  <2>1. /\ task \in DOMAIN chunks
        /\ {"compressed", "compression_failed"} \subseteq ChunkState \ {"pruned"}
    BY <1>6, TaskFacts DEF Record, CompressFails, ChunkState
  <2>2. PICK st \in ChunkState \ {"pruned"} :
            chunks' = [chunks EXCEPT ![task].state = st]
    BY <1>6, <2>1 DEF Record, CompressFails
  <2>3. /\ DOMAIN chunks' = DOMAIN chunks
        /\ \A j \in DOMAIN chunks : /\ chunks'[j].chunk = chunks[j].chunk
                                    /\ j # task => chunks'[j] = chunks[j]
        /\ chunks'[task].state # "pruned"
    BY <1>1, <2>1, <2>2, SetState
  <2>4. UNCHANGED <<candidates, kindOf>>
    BY <1>6 DEF Record, CompressFails
  <2>5. \A i \in DOMAIN chunks :
            /\ chunks'[i].state = "pruned" => chunks[i].state = "pruned"
            /\ chunks[i].state # "pruned" => chunks'[i].state # "pruned"
    BY <2>3
  <2> QED
    BY <1>1, <2>3, <2>4, <2>5, SameNewest
<1>7. CASE Crash
  BY <1>7 DEF Crash, NewestInv
<1>8. CASE WaitCompressor \/ WriterQuota
  BY <1>8, ScanKeepsNewest DEF WaitCompressor, WriterQuota
<1>9. CASE Rotate
  BY <1>4, <1>9 DEF Rotate, CloseChunk
<1>10. CASE FinalClose
  BY <1>2, <1>4, <1>10 DEF FinalClose, FinalKind, ChunkKind, CloseChunk
<1>11. CASE ViewerPrunes \/ WriterPrunes
  BY <1>2, <1>3, <1>11 DEF ViewerPrunes, WriterPrunes, SkipOne
<1>12. CASE UNCHANGED vars
  BY <1>2, <1>12 DEF vars
<1>13. CASE Viewer
  BY <1>2, <1>8, <1>11, <1>13 DEF Viewer, Offer, Close, CheckWriter, PutStop,
     WaitWriter, SaveFinal, SaveFinalFails, Timeout
<1>14. CASE WriterFails \/ FinalFails
  <2>1. UNCHANGED kindOf /\ candidates' \subseteq candidates
    BY <1>14 DEF WriterFails, FinalFails, CloseFails
  <2>2. \/ UNCHANGED chunks
        \/ \E k \in ChunkKind : current[k] # 0 /\ EnterChunk(k)
    BY <1>14 DEF WriterFails, FinalFails, CloseFails, LoseStream, FinalKind,
       ChunkKind
  <2> QED
    BY <1>2, <1>4, <2>1, <2>2
<1>15. CASE Writer
  BY <1>2, <1>5, <1>8, <1>9, <1>10, <1>11, <1>15, <1>14 DEF Writer, Get,
     WriteEvent, Flush, PruneEvent, WriterSaves, FinalFlush
<1>16. CASE Compressor
  BY <1>2, <1>6, <1>16 DEF Compressor, GetTask, Compress, Replace, Unlink
<1>17. CASE Recover
  BY <1>2, <1>17 DEF Recover
<1> QED
  BY <1>7, <1>12, <1>13, <1>15, <1>16, <1>17 DEF Next

\* The quota, scanned by the writer or by close() while chunks are still being
\* closed and compressed, never deletes one of the two newest closed chunks of
\* a kind.
THEOREM NewestKept == Spec => []NewestChunksKept
<1>1. Init => NewestInv
  BY DEF Init, NewestInv
<1>2. ShapeInv /\ NewestInv /\ [Next]_vars => NewestInv'
  BY StepNewest
<1>3. ShapeInv /\ NewestInv => NewestChunksKept
  <2> SUFFICES ASSUME ShapeInv, NewestInv,
                      NEW i \in DOMAIN chunks, chunks[i].state = "pruned"
               PROVE  Cardinality({j \in i + 1 .. Len(chunks) :
                          /\ chunks[j].state # "pruned"
                          /\ KindAt(j) = KindAt(i)}) >= 2
    BY DEF NewestChunksKept, KindAt
  <2> DEFINE S == {j \in i + 1 .. Len(chunks) :
                      chunks[j].state # "pruned" /\ KindAt(j) = KindAt(i)}
  <2>1. PICK j, l \in DOMAIN chunks :
            j # l /\ KeptAfter(i, j) /\ KeptAfter(i, l)
    BY DEF NewestInv
  <2>2. Len(chunks) \in Nat /\ DOMAIN chunks = 1 .. Len(chunks)
    BY DEF ShapeInv, InventoryOK
  <2>3. {j, l} \subseteq S
    BY <2>1, <2>2 DEF KeptAfter
  <2>4. IsFiniteSet(S)
    <3>1. IsFiniteSet(i + 1 .. Len(chunks))
      BY <2>2, FS_Interval
    <3>2. S \in SUBSET (i + 1 .. Len(chunks))
      OBVIOUS
    <3> QED
      BY <3>1, <3>2, FS_Subset, Zenon
  <2> HIDE DEF S
  <2>5. Cardinality({j, l}) = 2
    <3>1. IsFiniteSet({j}) /\ Cardinality({j}) = 1
      BY FS_Singleton
    <3>2. Cardinality({j} \cup {l}) = Cardinality({j}) + 1
      BY <2>1, <3>1, FS_AddElement
    <3>3. {j} \cup {l} = {j, l}
      OBVIOUS
    <3> QED
      BY <3>1, <3>2, <3>3
  <2>6. Cardinality({j, l}) <= Cardinality(S) /\ Cardinality(S) \in Nat
    BY <2>3, <2>4, FS_Subset, FS_CardinalityType
  <2> QED
    BY <2>5, <2>6 DEF S
<1> QED
  BY Shape, <1>1, <1>2, <1>3, PTL DEF Spec

-----------------------------------------------------------------------------
(* No item is lost silently.                                                *)

\* _close_chunk moves items from the buffer to the file.
LEMMA CloseMovesItems ==
    ASSUME ShapeInv, NEW k \in ChunkKind, current[k] # 0, EnterChunk(k)
    PROVE  Buffers' \cup Stores' = Buffers \cup Stores
<1>1. /\ DOMAIN stored' = DOMAIN stored
      /\ \A c \in DOMAIN stored :
             stored'[c] = IF c = current[k] THEN stored[c] \cup buffered[k]
                          ELSE stored[c]
      /\ \A l \in ChunkKind : buffered'[l] = IF l = k THEN {} ELSE buffered[l]
      /\ current[k] \in DOMAIN stored
  <2>1. /\ stored' \in Seq(SUBSET Nat) /\ Len(stored') = Len(stored)
        /\ \A c \in DOMAIN stored :
               stored'[c] = IF c = current[k] THEN stored[c] \cup buffered[k]
                            ELSE stored[c]
        /\ \A l \in ChunkKind : buffered'[l] = IF l = k THEN {} ELSE buffered[l]
    BY EnterChunkFacts
  <2>2. /\ stored \in Seq(SUBSET Nat) /\ current[k] <= Len(stored)
        /\ current[k] \in Nat
    BY DEF ShapeInv, FilesOK, StreamsOK
  <2>3. DOMAIN stored' = DOMAIN stored
    BY <2>1, <2>2
  <2>4. current[k] \in DOMAIN stored
    BY <2>2
  <2> QED
    BY <2>1, <2>3, <2>4
<1>2. ASSUME NEW x \in Buffers' \cup Stores' PROVE x \in Buffers \cup Stores
  <2>1. CASE x \in Buffers'
    BY <1>1, <2>1 DEF Buffers
  <2>2. CASE x \in Stores'
    <3>1. PICK c \in DOMAIN stored : x \in stored'[c]
      BY <1>1, <2>2 DEF Stores
    <3>2. x \in stored[c] \/ x \in buffered[k]
      BY <1>1, <3>1
    <3> QED
      BY <3>2 DEF Buffers, Stores
  <2> QED
    BY <1>2, <2>1, <2>2
<1>3. ASSUME NEW x \in Buffers \cup Stores PROVE x \in Buffers' \cup Stores'
  <2>1. CASE x \in Buffers
    <3>1. PICK l \in ChunkKind : x \in buffered[l]
      BY <2>1 DEF Buffers
    <3>2. CASE l = k
      <4>1. x \in stored'[current[k]] /\ current[k] \in DOMAIN stored'
        BY <1>1, <3>1, <3>2
      <4> QED
        BY <4>1 DEF Stores
    <3>3. CASE l # k
      BY <1>1, <3>1, <3>3 DEF Buffers
    <3> QED
      BY <3>2, <3>3
  <2>2. CASE x \in Stores
    <3>1. PICK c \in DOMAIN stored : x \in stored[c]
      BY <2>2 DEF Stores
    <3>2. x \in stored'[c]
      BY <1>1, <3>1
    <3> QED
      BY <1>1, <3>2 DEF Stores
  <2> QED
    BY <1>3, <2>1, <2>2
<1> QED
  BY <1>2, <1>3

\* A flush moves them too.
LEMMA FlushMovesItems ==
    ASSUME ShapeInv, stored' = Flushed, buffered' = NoBuffers
    PROVE  Buffers' \cup Stores' = Buffers \cup Stores
<1>1. /\ DOMAIN stored' = DOMAIN stored
      /\ \A c \in DOMAIN stored : /\ stored[c] \subseteq stored'[c]
                                  /\ stored'[c] \subseteq stored[c] \cup Buffers
      /\ \A k \in ChunkKind :
             current[k] # 0 => buffered[k] \subseteq stored'[current[k]]
  BY FlushedFacts DEF Flushed
<1>2. Buffers' = {}
  BY NoBuffersType DEF Buffers
<1>3. /\ \A k \in ChunkKind : current[k] = 0 => buffered[k] = {}
      /\ \A k \in ChunkKind : current[k] # 0 => current[k] \in DOMAIN stored
  BY DEF ShapeInv, FilesOK, StreamsOK
<1>4. ASSUME NEW x \in Buffers \cup Stores PROVE x \in Stores'
  <2>1. CASE x \in Buffers
    <3>1. PICK l \in ChunkKind : x \in buffered[l]
      BY <2>1 DEF Buffers
    <3>2. current[l] \in DOMAIN stored' /\ x \in stored'[current[l]]
      BY <1>1, <1>3, <3>1
    <3> QED
      BY <3>2 DEF Stores
  <2>2. CASE x \in Stores
    BY <1>1, <2>2 DEF Stores
  <2> QED
    BY <1>4, <2>1, <2>2
<1>5. ASSUME NEW x \in Stores' PROVE x \in Buffers \cup Stores
  <2>1. PICK c \in DOMAIN stored : x \in stored'[c]
    BY <1>1 DEF Stores
  <2> QED
    BY <1>1, <2>1 DEF Stores
<1> QED
  BY <1>2, <1>4, <1>5

\* A failing _close_chunk makes no items.
LEMMA LosingMakesNone ==
    ASSUME ShapeInv, NEW k \in ChunkKind, current[k] # 0, CloseFails(k)
    PROVE  Buffers' \cup Stores' \subseteq Buffers \cup Stores
<1>1. /\ stored' \in Seq(SUBSET Nat) /\ Len(stored') = Len(stored)
      /\ \A c \in DOMAIN stored :
             stored'[c] \in {stored[c], stored[c] \cup buffered[k]}
      /\ \A l \in ChunkKind : buffered'[l] = IF l = k THEN {} ELSE buffered[l]
  BY CloseFailsFacts
<1>2. DOMAIN stored' = DOMAIN stored
  BY <1>1 DEF ShapeInv, FilesOK
<1>3. ASSUME NEW x \in Buffers' PROVE x \in Buffers
  BY <1>1 DEF Buffers
<1>4. ASSUME NEW x \in Stores' PROVE x \in Buffers \cup Stores
  <2>1. PICK c \in DOMAIN stored : x \in stored'[c]
    BY <1>2 DEF Stores
  <2>2. x \in stored[c] \/ x \in buffered[k]
    BY <1>1, <2>1
  <2> QED
    BY <2>2 DEF Buffers, Stores
<1> QED
  BY <1>3, <1>4

\* Writing moves the item at hand to a buffer.
LEMMA WriteMovesItems ==
    ASSUME ShapeInv, Write
    PROVE  Buffers' \cup Stores' = Buffers \cup Stores \cup {hand[1].id}
<1> DEFINE k == hand[1].kind
           n == hand[1].id
<1>1. /\ k \in ChunkKind
      /\ \A l \in ChunkKind : buffered'[l] = IF l = k THEN buffered[l] \cup {n}
                                             ELSE buffered[l]
      /\ \A c \in DOMAIN stored : stored'[c] = stored[c]
      /\ \A c \in DOMAIN stored' \ DOMAIN stored : stored'[c] = {}
  BY WriteFacts
<1>2. DOMAIN stored \subseteq DOMAIN stored'
  <2>1. /\ stored \in Seq(SUBSET Nat) /\ stored' \in Seq(SUBSET Nat)
        /\ Len(stored) <= Len(stored')
    BY WriteFacts DEF ShapeInv, FilesOK
  <2> QED
    BY <2>1
<1> HIDE DEF k, n
<1>3. Buffers' = Buffers \cup {n}
  <2>1. ASSUME NEW x \in Buffers' PROVE x \in Buffers \cup {n}
    BY <1>1, ZenonT(60) DEF Buffers
  <2>2. ASSUME NEW x \in Buffers PROVE x \in Buffers'
    <3>1. PICK l \in ChunkKind : x \in buffered[l]
      BY DEF Buffers
    <3>2. x \in buffered'[l]
      BY <1>1, <3>1
    <3> QED
      BY <3>2 DEF Buffers
  <2>3. n \in buffered'[k]
    BY <1>1
  <2>4. n \in Buffers'
    BY <1>1, <2>3 DEF Buffers
  <2> QED
    BY <2>1, <2>2, <2>4
<1>4. Stores' = Stores
  <2>1. ASSUME NEW x \in Stores' PROVE x \in Stores
    <3>1. PICK c \in DOMAIN stored' : x \in stored'[c]
      BY DEF Stores
    <3>2. c \in DOMAIN stored /\ x \in stored[c]
      BY <1>1, <3>1
    <3> QED
      BY <3>2 DEF Stores
  <2>2. ASSUME NEW x \in Stores PROVE x \in Stores'
    BY <1>1, <1>2 DEF Stores
  <2> QED
    BY <2>1, <2>2
<1> QED
  BY <1>3, <1>4 DEF n

\* The items of a queue that grows or shrinks by one.
LEMMA IdsAppend ==
    ASSUME NEW S, NEW q \in Seq(S), NEW e \in S
    PROVE  Ids(Append(q, e)) = Ids(q) \cup {e.id}
<1>1. /\ DOMAIN Append(q, e) = 1 .. Len(q) + 1
      /\ \A i \in 1 .. Len(q) : Append(q, e)[i] = q[i]
      /\ Append(q, e)[Len(q) + 1] = e
      /\ DOMAIN q = 1 .. Len(q) /\ Len(q) \in Nat
  BY AppendFacts
<1> DEFINE r == Append(q, e)
<1> HIDE DEF r
<1>2. /\ DOMAIN r = DOMAIN q \cup {Len(q) + 1}
      /\ \A i \in DOMAIN q : r[i] = q[i]
      /\ r[Len(q) + 1] = e
  BY <1>1 DEF r
<1>3. Ids(r) = Ids(q) \cup {e.id}
  BY <1>2 DEF Ids
<1> QED
  BY <1>3 DEF r

\* Taking the head takes one item.
LEMMA IdsTail ==
    ASSUME NEW S, NEW q \in Seq(S), q # <<>>
    PROVE  Ids(q) = {Head(q).id} \cup Ids(Tail(q))
<1>1. /\ DOMAIN q = 1 .. Len(q) /\ Len(q) \in Nat /\ Len(q) >= 1
      /\ DOMAIN Tail(q) = 1 .. Len(q) - 1
      /\ \A i \in 1 .. Len(q) - 1 : Tail(q)[i] = q[i + 1]
      /\ Head(q) = q[1]
  OBVIOUS
<1> DEFINE r == Tail(q)
           h == Head(q)
<1> HIDE DEF r, h
<1>2. /\ \A i \in DOMAIN r : i + 1 \in DOMAIN q /\ r[i] = q[i + 1]
      /\ \A i \in DOMAIN q : i = 1 \/ (i - 1 \in DOMAIN r /\ r[i - 1] = q[i])
      /\ 1 \in DOMAIN q /\ h = q[1]
  BY <1>1 DEF r, h
<1>3. ASSUME NEW x \in Ids(q) PROVE x \in {h.id} \cup Ids(r)
  BY <1>2 DEF Ids
<1>4. ASSUME NEW x \in {h.id} \cup Ids(r) PROVE x \in Ids(q)
  BY <1>2 DEF Ids
<1>5. Ids(q) = {h.id} \cup Ids(r)
  BY <1>3, <1>4
<1> QED
  BY <1>5 DEF r, h

\* The items of an empty queue and of one item.
LEMMA IdsSmall ==
    /\ Ids(<<>>) = {}
    /\ \A e : Ids(<<e>>) = {e.id}
BY DEF Ids

\* What the writer has at hand is in Alive.
LEMMA IdsHand ==
    ASSUME QueueOK
    PROVE  /\ wpc = "write" => Ids(hand) = {hand[1].id}
           /\ wpc # "write" => hand = <<>> /\ Ids(hand) = {}
<1>1. CASE wpc = "write"
  BY <1>1, HandFacts DEF Ids
<1>2. CASE wpc # "write"
  <2>1. hand \in Seq(Item) /\ Len(hand) = 0
    BY <1>2 DEF QueueOK
  <2>2. hand = <<>>
    BY <2>1, EmptySeq
  <2> QED
    BY <1>2, <2>2, IdsSmall
<1> QED
  BY <1>1, <1>2

\* A step that moves items, or loses some in an unhealthy session, keeps the
\* account.
LEMMA AliveStays ==
    ASSUME LossInv, Alive' \subseteq Alive, UNCHANGED <<offered, notices>>,
           vpc' # "dead" => vpc # "dead",
           healthy' => healthy /\ Alive' = Alive /\ dropped' = dropped
    PROVE  LossInv'
BY DEF LossInv

\* An offer adds an item to the queue or to the count of the dropped ones.
LEMMA AliveGrows ==
    ASSUME ShapeInv, LossInv, NEW e \in Item, Enqueue(e),
           UNCHANGED <<hand, events, buffered, stored, healthy>>,
           vpc' # "dead" => vpc # "dead",
           \/ e.id = offered + 1 /\ offered' = offered + 1 /\ notices' = notices
           \/ e.id = -notices - 1 /\ notices' = notices + 1 /\ offered' = offered
    PROVE  LossInv'
<1> SUFFICES ASSUME vpc # "dead"
             PROVE  /\ Alive' \subseteq -notices' .. offered'
                    /\ healthy =>
                          Cardinality(Alive') + dropped' = offered' + notices'
  BY DEF LossInv
<1>1. /\ offered \in Nat /\ notices \in Nat /\ dropped \in Nat
      /\ queue \in Seq(Item \cup {Stop})
  BY DEF ShapeInv, ViewerOK, QueueOK
<1>2. /\ Alive \subseteq -notices .. offered
      /\ healthy => Cardinality(Alive) + dropped = offered + notices
  BY DEF LossInv
<1>3. IsFiniteSet(Alive) /\ Cardinality(Alive) \in Nat
  <2>1. IsFiniteSet(-notices .. offered)
    BY <1>1, FS_Interval
  <2> HIDE DEF Alive
  <2>2. IsFiniteSet(Alive)
    BY <1>2, <2>1, FS_Subset
  <2> QED
    BY <2>2, FS_CardinalityType
<1>4. e.id \in Int /\ e.id # 0 /\ e.id \notin Alive
  BY <1>1, <1>2
<1>5. CASE Len(queue) < scenario.queue
  <2>1. queue' = Append(queue, e) /\ dropped' = dropped
    BY <1>5 DEF Enqueue
  <2>2. Ids(queue') = Ids(queue) \cup {e.id}
    BY <1>1, <2>1, IdsAppend
  <2>3. Alive' = Alive \cup {e.id}
    BY <1>4, <2>2 DEF Alive, Buffers, Stores, Ids
  <2>4. Cardinality(Alive') = Cardinality(Alive) + 1
    BY <1>3, <1>4, <2>3, FS_AddElement
  <2>5. Alive' \subseteq -notices' .. offered'
    <3>1. e.id \in -notices' .. offered'
      BY <1>1
    <3>2. -notices .. offered \subseteq -notices' .. offered'
      BY <1>1
    <3> QED
      BY <1>2, <2>3, <3>1, <3>2
  <2>6. offered' + notices' = offered + notices + 1
    BY <1>1
  <2>7. healthy => Cardinality(Alive) + 1 + dropped = offered + notices + 1
    BY <1>1, <1>2, <1>3
  <2> QED
    BY <1>1, <1>3, <2>1, <2>4, <2>5, <2>6, <2>7
<1>6. CASE ~(Len(queue) < scenario.queue)
  <2>1. queue' = queue /\ dropped' = dropped + 1
    BY <1>6 DEF Enqueue
  <2>2. Alive' = Alive
    BY <2>1 DEF Alive, Buffers, Stores, Ids
  <2>3. Alive' \subseteq -notices' .. offered'
    BY <1>1, <1>2, <2>2
  <2> QED
    BY <1>1, <1>2, <1>3, <2>1, <2>2, <2>3
<1> QED
  BY <1>5, <1>6

\* No step of a healthy session loses an item.
LEMMA StepLoss == ShapeInv /\ LossInv /\ [Next]_vars => LossInv'
<1> SUFFICES ASSUME ShapeInv, LossInv, [Next]_vars PROVE LossInv'
  OBVIOUS
<1>1. QueueOK /\ ViewerOK /\ queue \in Seq(Item \cup {Stop})
  BY DEF ShapeInv, QueueOK
<1> USE DEF viewer, offers, shared, writer, compressor, files
<1>2. CASE /\ UNCHANGED <<queue, hand, events, buffered, stored, offered,
                         notices, dropped>>
           /\ vpc' # "dead" => vpc # "dead"
           /\ healthy' => healthy
  <2>1. Alive' = Alive
    BY <1>2 DEF Alive, Buffers, Stores, Ids
  <2> QED
    BY <1>2, <2>1, AliveStays
<1>3. ASSUME NEW k \in scenario.kinds, Offer(k) PROVE LossInv'
  <2>1. CASE healthy
    <3>1. PICK e : e = [kind |-> k, id |-> offered + 1]
      OBVIOUS
    <3>2. /\ offered + 1 \in Int /\ offered + 1 > 0
          /\ k \in ChunkKind \cup {"event"} /\ vpc = "run" /\ ~stopRequested
      BY <1>1, <1>3 DEF ViewerOK, Scenario, Offer
    <3>3. e \in Item /\ e.id = offered + 1
      BY <3>1, <3>2, ItemFacts
    <3>4. /\ Enqueue(e) /\ offered' = offered + 1
          /\ UNCHANGED <<notices, hand, events, buffered, stored, healthy, vpc>>
      BY <1>3, <2>1, <3>1, <3>2 DEF Offer, Put
    <3> QED
      BY <3>3, <3>4, AliveGrows
  <2>2. CASE ~healthy
    <3>1. /\ UNCHANGED <<queue, hand, events, buffered, stored, healthy, vpc,
                         notices>>
          /\ offered' = offered + 1
      BY <1>3, <2>2 DEF Offer, Put
    <3>2. Alive' = Alive
      BY <3>1 DEF Alive, Buffers, Stores, Ids
    <3>3. -notices .. offered \subseteq -notices' .. offered'
      BY <1>1, <3>1 DEF ViewerOK
    <3> QED
      BY <2>2, <3>1, <3>2, <3>3 DEF LossInv
  <2> QED
    BY <2>1, <2>2
<1>4. CASE Close
  <2>1. CASE healthy
    <3>1. PICK e : e = [kind |-> "event", id |-> offered + 1]
      OBVIOUS
    <3>2. offered + 1 \in Int /\ offered + 1 > 0 /\ vpc = "run" /\ ~stopRequested
      BY <1>1, <1>4 DEF ViewerOK, Close
    <3>3. e \in Item /\ e.id = offered + 1
      BY <3>1, <3>2, ItemFacts
    <3>4. /\ Enqueue(e) /\ offered' = offered + 1
          /\ UNCHANGED <<notices, hand, events, buffered, stored, healthy>>
      BY <1>4, <2>1, <3>1, <3>2 DEF Close, Put
    <3> QED
      BY <3>2, <3>3, <3>4, AliveGrows
  <2>2. CASE ~healthy
    <3>1. /\ UNCHANGED <<queue, hand, events, buffered, stored, healthy, notices>>
          /\ offered' = offered + 1 /\ vpc = "run"
      BY <1>4, <2>2 DEF Close, Put
    <3>2. Alive' = Alive
      BY <3>1 DEF Alive, Buffers, Stores, Ids
    <3>3. -notices .. offered \subseteq -notices' .. offered'
      BY <1>1, <3>1 DEF ViewerOK
    <3> QED
      BY <2>2, <3>1, <3>2, <3>3 DEF LossInv
  <2> QED
    BY <2>1, <2>2
<1>5. CASE PruneEvent
  <2>1. PICK e : e = [kind |-> "event", id |-> -notices - 1]
    OBVIOUS
  <2>2. -notices - 1 \in Int /\ "event" \notin ChunkKind
    BY <1>1 DEF ViewerOK, ChunkKind
  <2>3. e \in Item /\ e.id = -notices - 1
    BY <2>1, <2>2, ItemFacts
  <2>4. /\ Enqueue(e) /\ notices' = notices + 1
        /\ UNCHANGED <<offered, hand, events, buffered, stored, healthy, vpc>>
    BY <1>5, <2>1 DEF PruneEvent
  <2> QED
    BY <2>3, <2>4, AliveGrows
<1>6. CASE PutStop
  <2>1. /\ queue' = Append(queue, Stop) /\ Stop.id = 0
        /\ UNCHANGED <<hand, events, buffered, stored, offered, notices, healthy,
                       dropped>>
        /\ vpc # "dead"
    BY <1>6 DEF PutStop, Stop
  <2>2. Ids(queue') = Ids(queue) \cup {0}
    BY <1>1, <2>1, IdsAppend
  <2>3. Alive' = Alive
    BY <2>1, <2>2 DEF Alive, Buffers, Stores, Ids
  <2> QED
    BY <2>1, <2>3, AliveStays
<1>7. CASE Get
  <2>1. Ids(queue) = {Head(queue).id} \cup Ids(queue') /\ Ids(hand) = {}
    BY <1>1, <1>7, IdsTail, IdsHand DEF Get
  <2>2. \/ Head(queue).id = 0 /\ hand' = hand
        \/ Ids(hand') = {Head(queue).id}
    BY <1>7, IdsSmall DEF Get, Stop
  <2>3. UNCHANGED <<events, buffered, stored, offered, notices, healthy, dropped,
                    vpc>>
    BY <1>7 DEF Get
  <2>4. Buffers' = Buffers /\ Stores' = Stores
    BY <2>3 DEF Buffers, Stores
  <2>5. CASE Head(queue).id = 0 /\ hand' = hand
    <3>1. Ids(hand') = {}
      BY <2>1, <2>5
    <3> QED
      BY <2>1, <2>3, <2>4, <2>5, <3>1, AliveStays DEF Alive
  <2>6. CASE Ids(hand') = {Head(queue).id}
    <3>1. Alive' = Alive
      BY <2>1, <2>3, <2>4, <2>6 DEF Alive
    <3> QED
      BY <2>3, <3>1, AliveStays
  <2> QED
    BY <2>2, <2>5, <2>6
<1>8. CASE WriteEvent
  <2>1. /\ Ids(hand) = {hand[1].id} /\ hand' = <<>>
        /\ events' = events \cup {hand[1].id}
        /\ UNCHANGED <<queue, buffered, stored, offered, notices, healthy,
                       dropped, vpc>>
    BY <1>1, <1>8, IdsHand DEF WriteEvent
  <2>2. Ids(hand') = {} /\ Ids(queue') = Ids(queue) /\ Buffers' = Buffers
        /\ Stores' = Stores
    BY <2>1, IdsSmall DEF Buffers, Stores
  <2>3. Alive' = Alive
    BY <2>1, <2>2 DEF Alive
  <2> QED
    BY <2>1, <2>3, AliveStays
<1>9. CASE Write
  <2>1. /\ Ids(hand) = {hand[1].id} /\ hand' = <<>>
        /\ UNCHANGED <<queue, events, offered, notices, healthy, dropped, vpc>>
    BY <1>1, <1>9, IdsHand DEF Write
  <2>2. Ids(hand') = {} /\ Ids(queue') = Ids(queue)
    BY <2>1, IdsSmall
  <2>3. Buffers' \cup Stores' = Buffers \cup Stores \cup {hand[1].id}
    BY <1>9, WriteMovesItems
  <2>4. Alive' = Alive
    BY <2>1, <2>2, <2>3 DEF Alive
  <2> QED
    BY <2>1, <2>4, AliveStays
<1>10. ASSUME Buffers' \cup Stores' = Buffers \cup Stores,
             UNCHANGED <<queue, hand, events, offered, notices, healthy, dropped,
                         vpc>>
      PROVE  LossInv'
  <2>1. Ids(queue') = Ids(queue) /\ Ids(hand') = Ids(hand)
    BY <1>10
  <2>2. Alive' = Alive
    BY <1>10, <2>1 DEF Alive
  <2> QED
    BY <1>10, <2>2, AliveStays
<1>11. CASE Rotate
  BY <1>10, <1>11, CloseMovesItems DEF Rotate, CloseChunk
<1>12. CASE FinalClose
  <2>1. CASE current[FinalKind] # 0 /\ CloseChunk(FinalKind)
    <3>1. FinalKind \in ChunkKind
      BY DEF FinalKind, ChunkKind
    <3> QED
      BY <1>10, <1>12, <2>1, <3>1, CloseMovesItems DEF FinalClose, CloseChunk
  <2>2. CASE UNCHANGED <<stored, current, buffered, chunks, tasks>>
    BY <1>2, <1>12, <2>2 DEF FinalClose
  <2> QED
    BY <1>12, <2>1, <2>2 DEF FinalClose
<1>13. CASE Flush
  BY <1>10, <1>13, FlushMovesItems DEF Flush
<1>14. CASE WriterFails \/ FinalFails
  <2>1. /\ healthy' = FALSE /\ UNCHANGED <<queue, events, offered, notices, vpc>>
        /\ hand' = hand \/ hand' = <<>>
    BY <1>14 DEF WriterFails, FinalFails, SetError, CloseFails
  <2>2. Buffers' \cup Stores' \subseteq Buffers \cup Stores
    <3>1. CASE UNCHANGED <<buffered, stored>>
      BY <3>1 DEF Buffers, Stores
    <3>2. ASSUME NEW k \in ChunkKind, current[k] # 0, CloseFails(k)
          PROVE  Buffers' \cup Stores' \subseteq Buffers \cup Stores
      BY <3>2, LosingMakesNone
    <3> QED
      BY <1>14, <3>1, <3>2 DEF WriterFails, FinalFails, FinalKind, ChunkKind
  <2>3. Ids(queue') = Ids(queue) /\ Ids(hand') \subseteq Ids(hand)
    BY <2>1, IdsSmall
  <2>4. Alive' \subseteq Alive
    BY <2>1, <2>2, <2>3 DEF Alive
  <2> QED
    BY <2>1, <2>4, AliveStays
<1>15. CASE vpc' = "dead"
  BY <1>15 DEF LossInv
<1>16. CASE CheckWriter \/ WaitWriter \/ WaitCompressor \/ ViewerPrunes
            \/ SaveFinal \/ SaveFinalFails \/ Timeout \/ UNCHANGED vars
  BY <1>2, <1>16 DEF CheckWriter, WaitWriter, WaitCompressor, ViewerPrunes,
     PruneOne, SkipOne, SaveFinal, SaveFinalFails, Timeout, SetError, vars
<1>17. CASE WriterQuota \/ WriterPrunes \/ WriterSaves \/ FinalFlush
  BY <1>2, <1>17 DEF WriterQuota, WriterPrunes, PruneOne, SkipOne, WriterSaves,
     FinalFlush
<1>18. CASE Compressor
  BY <1>2, <1>18 DEF Compressor, GetTask, Compress, Replace, Unlink, Record,
     CompressFails
<1>19. CASE Crash \/ Recover
  BY <1>15, <1>19 DEF Crash, Recover
<1> QED
  BY <1>3, <1>4, <1>5, <1>6, <1>7, <1>8, <1>9, <1>11, <1>12, <1>13, <1>14,
     <1>16, <1>17, <1>18, <1>19 DEF Next, Viewer, Writer

\* With every chunk readable, the items found are those alive.
LEMMA FoundIsAlive ==
    ASSUME ShapeInv, ReadableInv
    PROVE  (Held \cup Kept) \ {Stop.id} = Alive
<1>1. Stop.id = 0
  BY DEF Stop
<1>2. DOMAIN stored = 1 .. Len(kindOf)
  BY DEF ShapeInv, FilesOK
<1>3. {d \in DOMAIN stored : Readable(d) \/ d \in pruned} = DOMAIN stored
  BY <1>2 DEF ReadableInv, ChunksStayReadable
<1>4. Held = Ids(queue) \cup Ids(hand)
  BY DEF Held, Ids
<1>5. Kept = events \cup Buffers \cup Stores
  <2> DEFINE D == {d \in DOMAIN stored : Readable(d) \/ d \in pruned}
  <2>1. Kept = events \cup Buffers \cup UNION {stored[c] : c \in D}
    BY Zenon DEF Kept, Buffers
  <2>2. D = DOMAIN stored
    BY <1>3
  <2> HIDE DEF D
  <2> QED
    BY <2>1, <2>2 DEF Stores
<1> QED
  BY <1>1, <1>4, <1>5 DEF Alive

\* As long as the recorder is healthy, every item offered is queued, at hand,
\* written or counted as dropped, whatever the queue size, and however the
\* rotations, compressions, prunings and close() interleave.
THEOREM NothingIsLostSilently == Spec => []NoSilentLoss
<1>1. Init => LossInv
  <2> SUFFICES ASSUME Init PROVE LossInv
    OBVIOUS
  <2>1. Alive = {}
    BY DEF Init, Alive, Ids, Buffers, Stores, NoBuffers
  <2> QED
    BY <2>1, FS_EmptySet DEF Init, LossInv
<1>2. ShapeInv /\ LossInv /\ [Next]_vars => LossInv'
  BY StepLoss
<1>3. Init => ReadableInv
  BY DEF Init, ReadableInv, ChunksStayReadable, ReplacedBeforeUnlink
<1>4. ShapeInv /\ ReadableInv /\ [Next]_vars => ReadableInv'
  BY StepReadable
<1>5. ShapeInv /\ ReadableInv /\ LossInv => NoSilentLoss
  BY FoundIsAlive DEF LossInv, NoSilentLoss
<1> QED
  BY Shape, <1>1, <1>2, <1>3, <1>4, <1>5, PTL DEF Spec

-----------------------------------------------------------------------------
(* A completed session is complete.                                         *)

\* A writer or a compressor that has ended takes no step.
LEMMA EndedThreads ==
    /\ Writer => wpc # "done"
    /\ Compressor => cpc # "done"
BY DEF Writer, Get, WriteEvent, Rotate, Write, Flush, WriterQuota, WriterPrunes,
   PruneEvent, WriterSaves, WriterFails, FinalClose, FinalFlush, FinalFails,
   Compressor, GetTask, Compress, Replace, Unlink, Record, CompressFails

\* The queue with respect to the stop item, at every place.
StopOrder(q) ==
    \A i, j \in DOMAIN q : i < j /\ q[i] = Stop => q[j].id < 0

\* What an appended item does to the order.
LEMMA StopOrderAppend ==
    ASSUME NEW q \in Seq(Item \cup {Stop}), NEW e \in Item \cup {Stop},
           StopOrder(q),
           e.id < 0 \/ \A i \in DOMAIN q : q[i] # Stop
    PROVE  StopOrder(Append(q, e))
<1>1. /\ DOMAIN Append(q, e) = 1 .. Len(q) + 1
      /\ \A i \in 1 .. Len(q) : Append(q, e)[i] = q[i]
      /\ Append(q, e)[Len(q) + 1] = e
      /\ DOMAIN q = 1 .. Len(q) /\ Len(q) \in Nat
  BY AppendFacts
<1> DEFINE r == Append(q, e)
<1>2. /\ DOMAIN r = 1 .. Len(q) + 1
      /\ \A i \in 1 .. Len(q) : r[i] = q[i]
      /\ r[Len(q) + 1] = e
  BY <1>1
<1> HIDE DEF r
<1>3. ASSUME NEW i \in DOMAIN r, NEW j \in DOMAIN r, i < j, r[i] = Stop
      PROVE  r[j].id < 0
  <2>1. i \in DOMAIN q /\ q[i] = Stop
    BY <1>1, <1>2, <1>3
  <2>2. CASE j = Len(q) + 1
    BY <1>2, <2>1, <2>2
  <2>3. CASE j # Len(q) + 1
    <3>1. j \in DOMAIN q /\ r[j] = q[j]
      BY <1>1, <1>2, <2>3
    <3> QED
      BY <1>3, <2>1, <3>1 DEF StopOrder
  <2> QED
    BY <2>2, <2>3
<1>4. StopOrder(r)
  BY <1>3 DEF StopOrder
<1> QED
  BY <1>4 DEF r

\* Nothing that the viewer offers comes after the stop item.
LEMMA StepStop == ShapeInv /\ StopIsLast /\ [Next]_vars => StopIsLast'
<1> SUFFICES ASSUME ShapeInv, StopIsLast, [Next]_vars, vpc' # "dead"
             PROVE  StopIsLast'
  BY DEF StopIsLast
<1> USE DEF viewer, offers, shared, writer, compressor, files
<1>1. QueueOK /\ ViewerOK /\ queue \in Seq(Item \cup {Stop})
  BY DEF ShapeInv, QueueOK
<1> DEFINE Early(p) == p \in {"run", "check_writer", "put_stop"}
           Looping(p) == p \in {"loop", "write", "prune", "prune_event"}
           NoStop(q) == \A i \in DOMAIN q : q[i] # Stop
           Notices(q) == \A i \in DOMAIN q : q[i].id < 0
<1>2. vpc # "dead"
  BY DEF Next, vars, Viewer, Offer, Close, CheckWriter, PutStop, WaitWriter,
     WaitCompressor, ViewerPrunes, SaveFinal, SaveFinalFails, Timeout, Writer,
     Get, WriteEvent, Rotate, Write, Flush, WriterQuota, WriterPrunes,
     PruneEvent, WriterSaves, WriterFails, FinalClose, FinalFlush, FinalFails,
     Compressor, GetTask, Compress, Replace, Unlink, Record, CompressFails,
     Crash, Recover
<1>3. /\ Early(vpc) => NoStop(queue)
      /\ StopOrder(queue)
      /\ healthy /\ Early(vpc) => Looping(wpc)
      /\ healthy /\ ~Looping(wpc) => Notices(queue)
  BY <1>2 DEF StopIsLast, StopOrder, InLoop
<1>4. SUFFICES /\ Early(vpc') => NoStop(queue')
               /\ StopOrder(queue')
               /\ healthy' /\ Early(vpc') => Looping(wpc')
               /\ healthy' /\ ~Looping(wpc') => Notices(queue')
  BY DEF StopIsLast, StopOrder, InLoop
<1> HIDE DEF Early, Looping, NoStop, Notices
<1>5. CASE /\ UNCHANGED queue
           /\ Early(vpc') => Early(vpc)
           /\ Looping(wpc') <=> Looping(wpc)
           /\ healthy' => healthy
  BY <1>3, <1>5
<1>6. CASE UNCHANGED <<queue, vpc>> /\ healthy' = FALSE
  BY <1>3, <1>6
<1>7. ASSUME NEW e \in Item, Put(e), Early(vpc), ~stopRequested, Early(vpc'),
             UNCHANGED <<wpc, healthy>>
      PROVE  /\ Early(vpc') => NoStop(queue')
             /\ StopOrder(queue')
             /\ healthy' /\ Early(vpc') => Looping(wpc')
             /\ healthy' /\ ~Looping(wpc') => Notices(queue')
  <2>1. CASE queue' = queue
    BY <1>3, <1>7, <2>1
  <2>2. CASE queue' = Append(queue, e) /\ healthy
    <3>1. e # Stop
      <4>1. e.kind # "stop"
        BY <1>7 DEF Item, ChunkKind
      <4> QED
        BY <4>1 DEF Stop
    <3>2. StopOrder(queue')
      BY <1>1, <1>3, <1>7, <2>2, StopOrderAppend DEF NoStop
    <3>3. NoStop(queue')
      BY <1>1, <1>3, <1>7, <2>2, <3>1 DEF NoStop
    <3> QED
      BY <1>3, <1>7, <2>2, <3>2, <3>3
  <2> QED
    BY <1>7, <2>1, <2>2 DEF Put, Enqueue
<1>8. ASSUME NEW k \in scenario.kinds, Offer(k)
      PROVE  /\ Early(vpc') => NoStop(queue')
             /\ StopOrder(queue')
             /\ healthy' /\ Early(vpc') => Looping(wpc')
             /\ healthy' /\ ~Looping(wpc') => Notices(queue')
  <2>1. PICK e : e = [kind |-> k, id |-> offered + 1]
    OBVIOUS
  <2>2. /\ offered + 1 \in Int /\ offered + 1 > 0
        /\ k \in ChunkKind \cup {"event"} /\ vpc = "run" /\ ~stopRequested
    BY <1>1, <1>8 DEF ViewerOK, Scenario, Offer
  <2>3. e \in Item
    BY <2>1, <2>2, ItemFacts
  <2>4. Put(e) /\ UNCHANGED <<wpc, healthy, vpc>> /\ Early(vpc)
    BY <1>8, <2>1, <2>2 DEF Offer, Early
  <2> QED
    BY <1>7, <2>2, <2>3, <2>4
<1>9. CASE Close
  <2>1. PICK e : e = [kind |-> "event", id |-> offered + 1]
    OBVIOUS
  <2>2. offered + 1 \in Int /\ offered + 1 > 0 /\ vpc = "run" /\ ~stopRequested
    BY <1>1, <1>9 DEF ViewerOK, Close
  <2>3. e \in Item
    BY <2>1, <2>2, ItemFacts
  <2>4. Put(e) /\ UNCHANGED <<wpc, healthy>> /\ Early(vpc) /\ Early(vpc')
    BY <1>9, <2>1, <2>2 DEF Close, Early
  <2> QED
    BY <1>7, <2>2, <2>3, <2>4
<1>10. CASE PruneEvent
  <2>1. PICK e : e = [kind |-> "event", id |-> -notices - 1]
    OBVIOUS
  <2>2. -notices - 1 \in Int /\ -notices - 1 < 0 /\ "event" \notin ChunkKind
    BY <1>1 DEF ViewerOK, ChunkKind
  <2>3. e \in Item /\ e.id < 0
    BY <2>1, <2>2, ItemFacts
  <2>4. /\ queue' \in {queue, Append(queue, e)}
        /\ UNCHANGED <<healthy, vpc>> /\ Looping(wpc) /\ Looping(wpc')
    BY <1>10, <2>1 DEF PruneEvent, Enqueue, Looping
  <2>5. CASE queue' = queue
    BY <1>3, <2>4, <2>5
  <2>6. CASE queue' = Append(queue, e)
    <3>1. e # Stop
      BY <2>3 DEF Stop
    <3>2. StopOrder(queue')
      BY <1>1, <1>3, <2>3, <2>6, StopOrderAppend
    <3>3. NoStop(queue) => NoStop(queue')
      BY <1>1, <2>3, <2>6, <3>1 DEF NoStop
    <3> QED
      BY <1>3, <2>4, <3>2, <3>3
  <2> QED
    BY <2>4, <2>5, <2>6
<1>11. CASE PutStop
  <2>1. /\ queue' = Append(queue, Stop) /\ UNCHANGED <<healthy, wpc>>
        /\ Early(vpc) /\ ~Early(vpc')
    BY <1>11 DEF PutStop, Early
  <2>2. StopOrder(queue')
    BY <1>1, <1>3, <2>1, StopOrderAppend DEF NoStop
  <2> QED
    BY <1>3, <2>1, <2>2
<1>12. CASE Get
  <2>1. queue # <<>> /\ queue' = Tail(queue) /\ UNCHANGED <<healthy, vpc>>
        /\ Looping(wpc)
    BY <1>12 DEF Get, Looping
  <2>2. /\ 1 \in DOMAIN queue /\ Head(queue) = queue[1]
        /\ \A i \in DOMAIN queue' : /\ i + 1 \in DOMAIN queue /\ i \in Nat /\ i >= 1
                                    /\ queue'[i] = queue[i + 1]
    BY <1>1, <2>1
  <2>3. NoStop(queue) => NoStop(queue')
    BY <2>2 DEF NoStop
  <2>4. StopOrder(queue')
    BY <1>3, <2>2 DEF StopOrder
  <2>5. CASE Head(queue) = Stop
    <3>1. ~Early(vpc)
      BY <1>3, <2>2, <2>5 DEF NoStop
    <3>2. Notices(queue')
      BY <1>3, <2>2, <2>5 DEF StopOrder, Notices
    <3> QED
      BY <2>1, <2>4, <3>1, <3>2
  <2>6. CASE Head(queue) # Stop
    <3>1. Looping(wpc')
      BY <1>12, <2>6 DEF Get, Looping
    <3> QED
      BY <1>3, <2>1, <2>3, <2>4, <3>1
  <2> QED
    BY <2>5, <2>6
<1>13. CASE WriterFails \/ FinalFails
  BY <1>6, <1>13 DEF WriterFails, FinalFails, SetError
<1>14. CASE WriteEvent \/ Write \/ WriterQuota \/ WriterPrunes \/ WriterSaves
            \/ FinalClose \/ FinalFlush \/ Rotate \/ Flush
  BY <1>5, <1>14 DEF WriteEvent, Write, WriterQuota, WriterPrunes, WriterSaves,
     FinalClose, FinalFlush, Rotate, Flush, Looping
<1>15. CASE CheckWriter \/ WaitWriter \/ WaitCompressor \/ ViewerPrunes
            \/ SaveFinal \/ SaveFinalFails \/ Timeout \/ UNCHANGED vars
  BY <1>5, <1>15 DEF CheckWriter, WaitWriter, WaitCompressor, ViewerPrunes,
     SaveFinal, SaveFinalFails, Timeout, SetError, vars, Early
<1>16. CASE Compressor
  BY <1>5, <1>16 DEF Compressor, GetTask, Compress, Replace, Unlink, Record,
     CompressFails
<1>17. CASE Crash \/ Recover
  BY <1>2, <1>17 DEF Crash, Recover
<1> QED
  BY <1>8, <1>9, <1>10, <1>11, <1>12, <1>13, <1>14, <1>15, <1>16, <1>17
     DEF Next, Viewer, Writer

\* A drop is an error.
LEMMA StepDrops == DropsAreErrors /\ [Next]_vars => DropsAreErrors'
<1> SUFFICES ASSUME DropsAreErrors, [Next]_vars PROVE DropsAreErrors'
  OBVIOUS
<1> USE DEF viewer, offers, shared, writer, compressor, files
<1>1. (dropped' = dropped /\ errors' \in {errors, TRUE}) \/ errors' = TRUE
  BY DEF Next, vars, Viewer, Offer, Close, Put, Enqueue, CheckWriter, PutStop,
     WaitWriter, WaitCompressor, ViewerPrunes, SaveFinal, SaveFinalFails,
     Timeout, Writer, Get, WriteEvent, Rotate, Write, Flush, WriterQuota,
     WriterPrunes, PruneEvent, WriterSaves, WriterFails, FinalClose, FinalFlush,
     FinalFails, SetError, Compressor, GetTask, Compress, Replace, Unlink,
     Record, CompressFails, Crash, Recover
<1> QED
  BY <1>1 DEF DropsAreErrors

\* Distinct places of the inventory name distinct chunks.
LEMMA StepDistinct ==
    ShapeInv /\ ChunksAreDistinct /\ [Next]_vars => ChunksAreDistinct'
<1> SUFFICES ASSUME ShapeInv, ChunksAreDistinct, [Next]_vars
             PROVE  ChunksAreDistinct'
  OBVIOUS
<1> USE DEF viewer, offers, shared, writer, compressor, files
<1>1. /\ chunks \in Seq(Entry) /\ Len(kindOf) \in Nat
      /\ \A k \in ChunkKind : current[k] \in Nat /\ current[k] <= Len(kindOf)
      /\ \A i \in DOMAIN chunks : chunks[i].chunk \in 1 .. Len(kindOf)
  BY EntryFacts DEF ShapeInv, FilesOK, InventoryOK, StreamsOK
<1>2. CASE /\ DOMAIN chunks' = DOMAIN chunks
           /\ \A i \in DOMAIN chunks : chunks'[i].chunk = chunks[i].chunk
           /\ \A k \in ChunkKind : current'[k] \in {0, current[k]}
  BY <1>1, <1>2 DEF ChunksAreDistinct
<1>3. CASE UNCHANGED <<chunks, current>>
  BY <1>3 DEF ChunksAreDistinct
<1>4. CASE PruneOne /\ UNCHANGED current
  <2>1. /\ chunks' \in Seq(Entry) /\ Len(chunks') = Len(chunks)
        /\ \A j \in DOMAIN chunks : chunks'[j].chunk = chunks[j].chunk
    BY <1>4, PruneFacts
  <2>2. DOMAIN chunks' = DOMAIN chunks
    BY <1>1, <2>1
  <2> QED
    BY <1>2, <1>4, <2>1, <2>2
<1>5. CASE Record \/ CompressFails
  <2>1. /\ task \in DOMAIN chunks
        /\ {"compressed", "compression_failed"} \subseteq ChunkState
    BY <1>5, TaskFacts DEF Record, CompressFails, ChunkState
  <2>2. PICK st \in ChunkState : chunks' = [chunks EXCEPT ![task].state = st]
    BY <1>5, <2>1 DEF Record, CompressFails
  <2>3. /\ DOMAIN chunks' = DOMAIN chunks
        /\ \A j \in DOMAIN chunks : chunks'[j].chunk = chunks[j].chunk
    BY <1>1, <2>1, <2>2, SetState
  <2> QED
    BY <1>2, <1>5, <2>3 DEF Record, CompressFails
<1>6. ASSUME NEW k \in ChunkKind, current[k] # 0, EnterChunk(k)
      PROVE  ChunksAreDistinct'
  <2>1. /\ chunks' \in Seq(Entry) /\ Len(chunks') = Len(chunks) + 1
        /\ \A i \in DOMAIN chunks : chunks'[i] = chunks[i]
        /\ chunks'[Len(chunks) + 1].chunk = current[k]
        /\ \A l \in ChunkKind : current'[l] = IF l = k THEN 0 ELSE current[l]
    BY <1>6, EnterChunkFacts
  <2>2. DOMAIN chunks' = DOMAIN chunks \cup {Len(chunks) + 1}
        /\ Len(chunks) + 1 \notin DOMAIN chunks
    BY <1>1, <2>1
  <2>3. \A i, j \in DOMAIN chunks' : chunks'[i].chunk = chunks'[j].chunk => i = j
    BY <2>1, <2>2 DEF ChunksAreDistinct
  <2>4. \A i \in DOMAIN chunks', l \in ChunkKind : chunks'[i].chunk # current'[l]
    BY <1>1, <1>6, <2>1, <2>2 DEF ChunksAreDistinct
  <2>5. \A l, m \in ChunkKind :
            current'[l] = current'[m] /\ current'[l] # 0 => l = m
    BY <2>1 DEF ChunksAreDistinct
  <2> QED
    BY <2>3, <2>4, <2>5 DEF ChunksAreDistinct
<1>7. CASE Write
  <2> DEFINE k == hand[1].kind
  <2>1. /\ k \in ChunkKind
        /\ \A l \in ChunkKind \ {k} : current'[l] = current[l]
        /\ current' = current \/ current'[k] = Len(kindOf) + 1
    BY <1>7, WriteFacts
  <2>2. UNCHANGED chunks
    BY <1>7 DEF Write
  <2> HIDE DEF k
  <2>3. CASE current' = current
    BY <1>3, <2>2, <2>3
  <2>4. CASE current'[k] = Len(kindOf) + 1
    <3>1. \A i \in DOMAIN chunks', l \in ChunkKind : chunks'[i].chunk # current'[l]
      BY <1>1, <2>1, <2>2, <2>4 DEF ChunksAreDistinct
    <3>2. \A l, m \in ChunkKind :
              current'[l] = current'[m] /\ current'[l] # 0 => l = m
      BY <1>1, <2>1, <2>4 DEF ChunksAreDistinct
    <3> QED
      BY <2>2, <3>1, <3>2 DEF ChunksAreDistinct
  <2> QED
    BY <2>1, <2>3, <2>4
<1>8. CASE Crash
  BY <1>8 DEF Crash, ChunksAreDistinct, NoStreams
<1>9. ASSUME NEW k \in ChunkKind, current[k] # 0, LoseStream(k), UNCHANGED chunks
      PROVE  ChunksAreDistinct'
  BY <1>2, <1>9, LoseStreamFacts
<1>10. CASE Rotate
  BY <1>6, <1>10 DEF Rotate, CloseChunk
<1>11. CASE FinalClose
  BY <1>3, <1>6, <1>11 DEF FinalClose, FinalKind, ChunkKind, CloseChunk
<1>12. CASE WriterFails \/ FinalFails
  BY <1>3, <1>6, <1>9, <1>12, LoseStreamFacts
     DEF WriterFails, FinalFails, FinalKind, ChunkKind, CloseFails
<1>13. CASE ViewerPrunes \/ WriterPrunes
  BY <1>3, <1>4, <1>13 DEF ViewerPrunes, WriterPrunes, SkipOne
<1>14. CASE Viewer
  BY <1>3, <1>13, <1>14 DEF Viewer, Offer, Close, CheckWriter, PutStop,
     WaitWriter, WaitCompressor, SaveFinal, SaveFinalFails, Timeout
<1>15. CASE Writer
  BY <1>3, <1>7, <1>10, <1>11, <1>12, <1>13, <1>15 DEF Writer, Get, WriteEvent,
     Flush, WriterQuota, PruneEvent, WriterSaves, FinalFlush
<1>16. CASE Compressor
  BY <1>3, <1>5, <1>16 DEF Compressor, GetTask, Compress, Replace, Unlink
<1>17. CASE Recover \/ UNCHANGED vars
  BY <1>3, <1>17 DEF Recover, vars
<1> QED
  BY <1>8, <1>14, <1>15, <1>16, <1>17 DEF Next

\* A step without an error forgets no chunk.
LEMMA StepComplete ==
    ShapeInv /\ InventoryIsComplete /\ [Next]_vars => InventoryIsComplete'
<1> SUFFICES ASSUME ShapeInv, InventoryIsComplete, [Next]_vars,
                    healthy', vpc' # "dead"
             PROVE  InventoryIsComplete'
  BY DEF InventoryIsComplete
<1> USE DEF viewer, offers, shared, writer, compressor, files
<1>1. /\ chunks \in Seq(Entry) /\ Len(kindOf) \in Nat
      /\ kindOf \in Seq(ChunkKind)
  BY DEF ShapeInv, FilesOK, InventoryOK
<1>2. ASSUME healthy, vpc # "dead"
      PROVE  \A c \in 1 .. Len(kindOf) :
                 \/ \E i \in DOMAIN chunks : chunks[i].chunk = c
                 \/ \E k \in ChunkKind : current[k] = c
  BY <1>2 DEF InventoryIsComplete
<1>3. CASE /\ DOMAIN chunks' = DOMAIN chunks
           /\ \A i \in DOMAIN chunks : chunks'[i].chunk = chunks[i].chunk
           /\ UNCHANGED <<current, kindOf>>
           /\ healthy /\ vpc # "dead"
  BY <1>2, <1>3 DEF InventoryIsComplete
<1>4. CASE /\ UNCHANGED <<chunks, current, kindOf>>
           /\ healthy /\ vpc # "dead"
  BY <1>2, <1>4 DEF InventoryIsComplete
<1>5. CASE PruneOne /\ UNCHANGED <<current, vpc, healthy>>
  <2>1. /\ chunks' \in Seq(Entry) /\ Len(chunks') = Len(chunks)
        /\ \A j \in DOMAIN chunks : chunks'[j].chunk = chunks[j].chunk
        /\ UNCHANGED kindOf
    BY <1>5, PruneFacts
  <2>2. DOMAIN chunks' = DOMAIN chunks
    BY <1>1, <2>1
  <2> QED
    BY <1>3, <1>5, <2>1, <2>2
<1>6. CASE Record \/ CompressFails
  <2>1. /\ task \in DOMAIN chunks
        /\ {"compressed", "compression_failed"} \subseteq ChunkState
    BY <1>6, TaskFacts DEF Record, CompressFails, ChunkState
  <2>2. PICK st \in ChunkState : chunks' = [chunks EXCEPT ![task].state = st]
    BY <1>6, <2>1 DEF Record, CompressFails
  <2>3. /\ DOMAIN chunks' = DOMAIN chunks
        /\ \A j \in DOMAIN chunks : chunks'[j].chunk = chunks[j].chunk
    BY <1>1, <2>1, <2>2, SetState
  <2> QED
    BY <1>3, <1>6, <2>3 DEF Record, CompressFails
<1>7. ASSUME NEW k \in ChunkKind, current[k] # 0, EnterChunk(k),
             UNCHANGED <<kindOf, healthy, vpc>>
      PROVE  InventoryIsComplete'
  <2>1. /\ chunks' \in Seq(Entry) /\ Len(chunks') = Len(chunks) + 1
        /\ \A i \in DOMAIN chunks : chunks'[i] = chunks[i]
        /\ chunks'[Len(chunks) + 1].chunk = current[k]
        /\ \A l \in ChunkKind : current'[l] = IF l = k THEN 0 ELSE current[l]
    BY <1>7, EnterChunkFacts
  <2>2. DOMAIN chunks' = DOMAIN chunks \cup {Len(chunks) + 1}
    BY <1>1, <2>1
  <2>3. ASSUME NEW c \in 1 .. Len(kindOf)
        PROVE  \/ \E i \in DOMAIN chunks' : chunks'[i].chunk = c
               \/ \E l \in ChunkKind : current'[l] = c
    <3>1. CASE c = current[k]
      BY <2>1, <2>2, <3>1
    <3>2. CASE c # current[k]
      <4>1. CASE \E i \in DOMAIN chunks : chunks[i].chunk = c
        BY <2>1, <2>2, <4>1
      <4>2. CASE \E l \in ChunkKind : current[l] = c
        BY <2>1, <3>2, <4>2
      <4> QED
        BY <1>2, <1>7, <4>1, <4>2
    <3> QED
      BY <3>1, <3>2
  <2> QED
    BY <1>7, <2>3 DEF InventoryIsComplete
<1>8. CASE Write
  <2> DEFINE k == hand[1].kind
  <2>1. /\ k \in ChunkKind
        /\ \A l \in ChunkKind \ {k} : current'[l] = current[l]
        /\ \/ UNCHANGED <<current, kindOf>>
           \/ /\ current[k] = 0 /\ current'[k] = Len(kindOf) + 1
              /\ Len(kindOf') = Len(kindOf) + 1
    BY <1>8, WriteFacts
  <2>2. UNCHANGED <<chunks, healthy, vpc>>
    BY <1>8 DEF Write
  <2> HIDE DEF k
  <2>3. CASE UNCHANGED <<current, kindOf>>
    BY <1>4, <2>2, <2>3
  <2>4. CASE /\ current[k] = 0 /\ current'[k] = Len(kindOf) + 1
             /\ Len(kindOf') = Len(kindOf) + 1
    <3>1. ASSUME NEW c \in 1 .. Len(kindOf')
          PROVE  \/ \E i \in DOMAIN chunks' : chunks'[i].chunk = c
                 \/ \E l \in ChunkKind : current'[l] = c
      <4>1. CASE c = Len(kindOf) + 1
        BY <2>1, <2>4, <4>1
      <4>2. CASE c # Len(kindOf) + 1
        <5>1. c \in 1 .. Len(kindOf)
          BY <1>1, <2>4, <4>2
        <5>2. \/ \E i \in DOMAIN chunks : chunks[i].chunk = c
              \/ \E l \in ChunkKind \ {k} : current[l] = c
          BY <1>2, <2>2, <2>4, <5>1
        <5> QED
          BY <2>1, <2>2, <5>2
      <4> QED
        BY <4>1, <4>2
    <3> QED
      BY <3>1 DEF InventoryIsComplete
  <2> QED
    BY <2>1, <2>3, <2>4
<1>9. CASE Rotate
  BY <1>7, <1>9 DEF Rotate, CloseChunk
<1>10. CASE FinalClose
  BY <1>4, <1>7, <1>10 DEF FinalClose, FinalKind, ChunkKind, CloseChunk
<1>11. CASE WriterFails \/ FinalFails
  BY <1>11 DEF WriterFails, FinalFails, SetError
<1>12. CASE ViewerPrunes \/ WriterPrunes
  BY <1>4, <1>5, <1>12 DEF ViewerPrunes, WriterPrunes, SkipOne
<1>13. CASE Viewer
  BY <1>4, <1>12, <1>13 DEF Viewer, Offer, Close, CheckWriter, PutStop,
     WaitWriter, WaitCompressor, SaveFinal, SaveFinalFails, Timeout, SetError
<1>14. CASE Writer
  BY <1>4, <1>8, <1>9, <1>10, <1>11, <1>12, <1>14 DEF Writer, Get, WriteEvent,
     Flush, WriterQuota, PruneEvent, WriterSaves, FinalFlush
<1>15. CASE Compressor
  BY <1>4, <1>6, <1>15 DEF Compressor, GetTask, Compress, Replace, Unlink
<1>16. CASE Crash \/ Recover \/ UNCHANGED vars
  BY <1>4, <1>16 DEF Crash, Recover, vars
<1> QED
  BY <1>13, <1>14, <1>15, <1>16 DEF Next

\* The finally block closes both chunks unless it fails.
LEMMA StepClosed ==
    ShapeInv /\ ClosedInOrder /\ [Next]_vars => ClosedInOrder'
<1> SUFFICES ASSUME ShapeInv, ClosedInOrder, [Next]_vars, healthy'
             PROVE  ClosedInOrder'
  BY DEF ClosedInOrder
<1> USE DEF viewer, offers, shared, writer, compressor, files
<1>1. "raw" \in ChunkKind /\ "csv" \in ChunkKind
  BY DEF ChunkKind
<1>2. CASE healthy /\ UNCHANGED <<current, wpc>>
  BY <1>2 DEF ClosedInOrder
<1>3. CASE wpc' \in {"loop", "write", "prune", "prune_event", "final_raw"}
  BY <1>3 DEF ClosedInOrder
<1>4. CASE FinalClose
  <2>1. healthy /\ wpc \in {"final_raw", "final_csv"}
    BY <1>4 DEF FinalClose
  <2>2. \A l \in ChunkKind :
            current'[l] = IF l = FinalKind THEN 0 ELSE current[l]
    <3>1. CASE current[FinalKind] # 0 /\ CloseChunk(FinalKind)
      BY <3>1, EnterChunkFacts DEF FinalKind, ChunkKind, CloseChunk
    <3>2. CASE current[FinalKind] = 0 /\ UNCHANGED current
      BY <3>2
    <3> QED
      BY <1>4, <3>1, <3>2 DEF FinalClose
  <2>3. CASE wpc = "final_raw"
    <3>1. current'["raw"] = 0 /\ wpc' = "final_csv"
      BY <1>1, <1>4, <2>2, <2>3 DEF FinalClose, FinalKind
    <3> QED
      BY <3>1 DEF ClosedInOrder
  <2>4. CASE wpc = "final_csv"
    <3>1. current'["csv"] = 0 /\ current'["raw"] = current["raw"]
      BY <1>1, <2>2, <2>4 DEF FinalKind
    <3>2. current["raw"] = 0
      BY <2>1, <2>4 DEF ClosedInOrder
    <3> QED
      BY <3>1, <3>2 DEF ClosedInOrder
  <2> QED
    BY <2>1, <2>3, <2>4
<1>5. CASE FinalFlush
  BY <1>5 DEF FinalFlush, ClosedInOrder
<1>6. CASE Crash
  BY <1>1, <1>6 DEF Crash, ClosedInOrder, NoStreams
<1>7. CASE Viewer
  BY <1>2, <1>7 DEF Viewer, Offer, Close, CheckWriter, PutStop, WaitWriter,
     WaitCompressor, ViewerPrunes, SaveFinal, SaveFinalFails, Timeout, SetError
<1>8. CASE Writer
  BY <1>2, <1>3, <1>4, <1>5, <1>8 DEF Writer, Get, WriteEvent, Rotate, Write,
     Flush, WriterQuota, WriterPrunes, PruneEvent, WriterSaves, WriterFails,
     FinalFails, SetError
<1>9. CASE Compressor
  BY <1>2, <1>9 DEF Compressor, GetTask, Compress, Replace, Unlink, Record,
     CompressFails
<1>10. CASE Recover \/ UNCHANGED vars
  BY <1>2, <1>10 DEF Recover, vars
<1> QED
  BY <1>6, <1>7, <1>8, <1>9, <1>10 DEF Next

\* What taking the next task does.
LEMMA GetTaskFacts ==
    ASSUME ShapeInv, GetTask
    PROVE  /\ tasks' \in Seq(Nat) /\ Len(tasks') = Len(tasks) - 1
           /\ Len(tasks) \in Nat /\ 1 \in DOMAIN tasks /\ Head(tasks) = tasks[1]
           /\ \A j \in DOMAIN tasks' : /\ j + 1 \in DOMAIN tasks /\ j \in Nat
                                       /\ j >= 1 /\ tasks'[j] = tasks[j + 1]
           /\ \A j \in DOMAIN tasks :
                  j = 1 \/ (j - 1 \in DOMAIN tasks' /\ tasks'[j - 1] = tasks[j])
           /\ task = 0
<1>1. tasks \in Seq(Nat) /\ tasks # <<>> /\ tasks' = Tail(tasks) /\ task = 0
  BY DEF ShapeInv, InventoryOK, Working, GetTask
<1> QED
  BY <1>1

\* Errors are never taken back.
LEMMA ErrorsStay ==
    [Next]_vars => (errors => errors')
<1> USE DEF viewer, offers, shared, writer, compressor, files
<1> QED
  BY DEF Next, vars, Viewer, Offer, Close, Put, Enqueue, CheckWriter, PutStop,
     WaitWriter, WaitCompressor, ViewerPrunes, SaveFinal, SaveFinalFails,
     Timeout, Writer, Get, WriteEvent, Rotate, Write, Flush, WriterQuota,
     WriterPrunes, PruneEvent, WriterSaves, WriterFails, FinalClose, FinalFlush,
     FinalFails, SetError, Compressor, GetTask, Compress, Replace, Unlink,
     Record, CompressFails, Crash, Recover

\* The chunks being compressed are those with a task.
LEMMA StepTasks ==
    ShapeInv /\ TasksInv /\ EndIsLast /\ [Next]_vars => TasksInv'
<1> SUFFICES ASSUME ShapeInv, TasksInv, EndIsLast, [Next]_vars PROVE TasksInv'
  OBVIOUS
<1> USE DEF viewer, offers, shared, writer, compressor, files
<1>1. /\ chunks \in Seq(Entry) /\ tasks \in Seq(Nat)
      /\ candidates \subseteq DOMAIN chunks /\ task \in 0 .. Len(chunks)
      /\ \A j \in DOMAIN tasks : tasks[j] \in 0 .. Len(chunks)
      /\ DOMAIN chunks = 1 .. Len(chunks) /\ DOMAIN tasks = 1 .. Len(tasks)
      /\ Len(chunks) \in Nat /\ Len(tasks) \in Nat
  BY DEF ShapeInv, InventoryOK
<1>2. errors => errors'
  BY ErrorsStay
<1>3. CASE /\ UNCHANGED <<chunks, task, tasks>>
           /\ \A i \in candidates' : i \in candidates \/
                  chunks[i].state \in {"compressed", "compression_failed"}
  BY <1>2, <1>3 DEF TasksInv
<1>4. CASE UNCHANGED <<chunks, task, tasks, candidates>>
  BY <1>2, <1>4 DEF TasksInv
<1>5. CASE PruneOne /\ UNCHANGED <<task, tasks>>
  <2>1. PICK p \in candidates :
          /\ chunks' \in Seq(Entry) /\ Len(chunks') = Len(chunks)
          /\ \A j \in DOMAIN chunks : j # p => chunks'[j] = chunks[j]
          /\ chunks'[p].state = "pruned"
          /\ candidates' \subseteq candidates \ {p}
    BY <1>5, PruneFacts
  <2>2. DOMAIN chunks' = DOMAIN chunks
    BY <1>1, <2>1
  <2>3. chunks[p].state # "compressing"
    BY DEF TasksInv
  <2>4. /\ \A j \in DOMAIN tasks : tasks[j] # p
        /\ task # p
    BY <1>1, <2>3 DEF TasksInv
  <2>5. \A j \in DOMAIN tasks :
            tasks[j] # 0 => /\ chunks'[tasks[j]].state = "compressing"
                            /\ tasks[j] # task
    <3> TAKE j \in DOMAIN tasks
    <3> HAVE tasks[j] # 0
    <3>1. tasks[j] \in DOMAIN chunks /\ tasks[j] # p
      BY <1>1, <2>4
    <3>2. chunks'[tasks[j]] = chunks[tasks[j]]
      BY <2>1, <3>1
    <3> QED
      BY <3>2 DEF TasksInv
  <2>6. task # 0 => chunks'[task].state = "compressing"
    <3> HAVE task # 0
    <3>1. task \in DOMAIN chunks
      BY <1>1
    <3>2. chunks'[task] = chunks[task]
      BY <2>1, <2>4, <3>1, Zenon
    <3> QED
      BY <3>2 DEF TasksInv
  <2>7. ~errors' =>
            \A i \in DOMAIN chunks :
                chunks'[i].state = "compressing" =>
                    i = task \/ \E j \in DOMAIN tasks : tasks[j] = i
    BY <1>2, <2>1 DEF TasksInv
  <2>8. \A i \in candidates' :
            chunks'[i].state \in {"compressed", "compression_failed"}
    BY <1>1, <2>1 DEF TasksInv
  <2> QED
    BY <1>5, <2>2, <2>5, <2>6, <2>7, <2>8 DEF TasksInv
<1>6. ASSUME NEW k \in ChunkKind, current[k] # 0, CloseChunk(k),
             UNCHANGED <<candidates, task>>
      PROVE  TasksInv'
  <2>1. /\ chunks' \in Seq(Entry) /\ Len(chunks') = Len(chunks) + 1
        /\ \A i \in DOMAIN chunks : chunks'[i] = chunks[i]
        /\ chunks'[Len(chunks) + 1].state = "compressing"
        /\ tasks' \in Seq(Nat) /\ Len(tasks') = Len(tasks) + 1
        /\ \A j \in DOMAIN tasks : tasks'[j] = tasks[j]
        /\ tasks'[Len(tasks) + 1] = Len(chunks) + 1
    BY <1>6, CloseChunkFacts, EnterChunkFacts
  <2>2. /\ DOMAIN chunks' = DOMAIN chunks \cup {Len(chunks) + 1}
        /\ DOMAIN tasks' = DOMAIN tasks \cup {Len(tasks) + 1}
        /\ Len(chunks) + 1 \notin DOMAIN chunks
        /\ Len(tasks) + 1 \notin DOMAIN tasks
    BY <1>1, <2>1
  <2>3. \A j \in DOMAIN tasks :
            /\ tasks[j] # Len(chunks) + 1
            /\ tasks[j] # 0 => tasks[j] \in DOMAIN chunks
    BY <1>1
  <2>4. \A j \in DOMAIN tasks' :
            tasks'[j] # 0 => /\ chunks'[tasks'[j]].state = "compressing"
                             /\ tasks'[j] # task
    <3> TAKE j \in DOMAIN tasks'
    <3>1. CASE j = Len(tasks) + 1
      BY <1>1, <2>1, <3>1
    <3>2. CASE j \in DOMAIN tasks
      BY <2>1, <2>3, <3>2 DEF TasksInv
    <3> QED
      BY <2>2, <3>1, <3>2
  <2>5. \A j, l \in DOMAIN tasks' : tasks'[j] = tasks'[l] => j = l
    BY <2>1, <2>2, <2>3 DEF TasksInv
  <2>6. task # 0 => chunks'[task].state = "compressing"
    <3>1. task # 0 => task \in DOMAIN chunks
      BY <1>1
    <3> QED
      BY <2>1, <3>1 DEF TasksInv
  <2>7. ASSUME ~errors', NEW i \in DOMAIN chunks',
               chunks'[i].state = "compressing"
        PROVE  i = task \/ \E j \in DOMAIN tasks' : tasks'[j] = i
    <3>1. CASE i = Len(chunks) + 1
      BY <2>1, <2>2, <3>1
    <3>2. CASE i \in DOMAIN chunks
      <4>1. i = task \/ \E j \in DOMAIN tasks : tasks[j] = i
        BY <1>2, <2>1, <2>7, <3>2 DEF TasksInv
      <4> QED
        BY <2>1, <2>2, <4>1
    <3> QED
      BY <2>2, <3>1, <3>2
  <2>8. \A i \in candidates :
            chunks'[i].state \in {"compressed", "compression_failed"}
    BY <1>1, <2>1 DEF TasksInv
  <2> QED
    BY <1>6, <2>4, <2>5, <2>6, <2>7, <2>8 DEF TasksInv
<1>7. CASE WaitCompressor \/ WriterQuota
  <2>1. \A i \in Prunable : chunks[i].state \in {"compressed", "compression_failed"}
    BY DEF Prunable, Available
  <2> QED
    BY <1>3, <1>7, <2>1 DEF WaitCompressor, WriterQuota, ScanQuota
<1>8. CASE WaitWriter
  <2>1. /\ DOMAIN tasks' = DOMAIN tasks \cup {Len(tasks) + 1}
        /\ \A j \in DOMAIN tasks : tasks'[j] = tasks[j]
        /\ tasks'[Len(tasks) + 1] = 0
        /\ Len(tasks) + 1 \notin DOMAIN tasks
    BY <1>1, <1>8 DEF WaitWriter
  <2>2. UNCHANGED <<chunks, task, candidates>>
    BY <1>8 DEF WaitWriter
  <2>3. \A j \in DOMAIN tasks : tasks[j] # 0
    BY <1>8 DEF EndIsLast, WaitWriter
  <2>4. \A j, l \in DOMAIN tasks' : tasks'[j] = tasks'[l] => j = l
    BY <2>1, <2>3 DEF TasksInv
  <2>5. \A j \in DOMAIN tasks' :
            tasks'[j] # 0 => /\ chunks[tasks'[j]].state = "compressing"
                             /\ tasks'[j] # task
    BY <2>1 DEF TasksInv
  <2>6. ~errors' =>
            \A i \in DOMAIN chunks :
                chunks[i].state = "compressing" =>
                    i = task \/ \E j \in DOMAIN tasks' : tasks'[j] = i
    BY <1>2, <2>1 DEF TasksInv
  <2> QED
    BY <2>2, <2>4, <2>5, <2>6 DEF TasksInv
<1>9. CASE GetTask
  <2>1. /\ 1 \in DOMAIN tasks /\ Head(tasks) = tasks[1]
        /\ \A j \in DOMAIN tasks' : /\ j + 1 \in DOMAIN tasks /\ j \in Nat
                                    /\ j >= 1 /\ tasks'[j] = tasks[j + 1]
        /\ \A j \in DOMAIN tasks :
               j = 1 \/ (j - 1 \in DOMAIN tasks' /\ tasks'[j - 1] = tasks[j])
        /\ task = 0
    BY <1>9, GetTaskFacts
  <2>2. UNCHANGED <<chunks, candidates>> /\ task' = tasks[1]
    BY <1>9, <2>1 DEF GetTask
  <2>3. \A j \in DOMAIN tasks' : tasks'[j] # tasks[1]
    BY <2>1 DEF TasksInv
  <2>4. \A j, l \in DOMAIN tasks' : tasks'[j] = tasks'[l] => j = l
    BY <2>1 DEF TasksInv
  <2>5. \A j \in DOMAIN tasks' :
            tasks'[j] # 0 => /\ chunks[tasks'[j]].state = "compressing"
                             /\ tasks'[j] # task'
    BY <2>1, <2>2, <2>3 DEF TasksInv
  <2>6. ASSUME ~errors', NEW i \in DOMAIN chunks,
               chunks[i].state = "compressing"
        PROVE  i = task' \/ \E j \in DOMAIN tasks' : tasks'[j] = i
    <3>1. PICK j \in DOMAIN tasks : tasks[j] = i
      BY <1>2, <1>1, <2>1, <2>6 DEF TasksInv
    <3> QED
      BY <2>1, <2>2, <3>1
  <2>7. task' # 0 => chunks[task'].state = "compressing"
    BY <2>1, <2>2 DEF TasksInv
  <2> QED
    BY <2>2, <2>4, <2>5, <2>6, <2>7 DEF TasksInv
<1>10. CASE Record \/ CompressFails
  <2>1. /\ task \in DOMAIN chunks
        /\ {"compressed", "compression_failed"} \subseteq ChunkState
    BY <1>10, TaskFacts DEF Record, CompressFails, ChunkState
  <2>2. PICK st \in {"compressed", "compression_failed"} :
            chunks' = [chunks EXCEPT ![task].state = st]
    BY <1>10 DEF Record, CompressFails
  <2>3. /\ DOMAIN chunks' = DOMAIN chunks
        /\ \A j \in DOMAIN chunks : j # task => chunks'[j] = chunks[j]
        /\ chunks'[task].state = st
    BY <1>1, <2>1, <2>2, SetState
  <2>4. task' = 0 /\ UNCHANGED <<tasks, candidates>>
    BY <1>10 DEF Record, CompressFails
  <2>5. \A j \in DOMAIN tasks :
            tasks[j] # 0 => chunks'[tasks[j]].state = "compressing"
    BY <1>1, <2>3 DEF TasksInv
  <2>6. ~errors' =>
            \A i \in DOMAIN chunks :
                chunks'[i].state = "compressing" =>
                    \E j \in DOMAIN tasks : tasks[j] = i
    BY <1>2, <2>2, <2>3 DEF TasksInv
  <2>7. \A i \in candidates :
            chunks'[i].state \in {"compressed", "compression_failed"}
    BY <1>1, <2>2, <2>3 DEF TasksInv
  <2> QED
    BY <2>3, <2>4, <2>5, <2>6, <2>7 DEF TasksInv
<1>11. CASE Crash
  BY <1>11 DEF Crash, TasksInv
<1>12. CASE Rotate
  BY <1>6, <1>12 DEF Rotate
<1>13. CASE FinalClose
  BY <1>4, <1>6, <1>13 DEF FinalClose, FinalKind, ChunkKind
<1>14. CASE WriterFails \/ FinalFails
  <2>1. /\ errors' /\ candidates' \subseteq candidates
        /\ UNCHANGED <<task, tasks>>
    BY <1>14 DEF WriterFails, FinalFails, SetError
  <2>2. CASE UNCHANGED chunks
    BY <1>3, <2>1, <2>2
  <2>3. ASSUME NEW k \in ChunkKind, current[k] # 0, EnterChunk(k)
        PROVE  TasksInv'
    <3>1. /\ Len(chunks') = Len(chunks) + 1
          /\ \A i \in DOMAIN chunks : chunks'[i] = chunks[i]
      BY <2>3, EnterChunkFacts
    <3>2. \A j \in DOMAIN tasks :
              tasks[j] # 0 => /\ chunks'[tasks[j]].state = "compressing"
                              /\ tasks[j] # task
      BY <1>1, <3>1 DEF TasksInv
    <3>3. task # 0 => chunks'[task].state = "compressing"
      <4>1. task # 0 => task \in DOMAIN chunks
        BY <1>1
      <4> QED
        BY <3>1, <4>1 DEF TasksInv
    <3>4. \A i \in candidates' :
              chunks'[i].state \in {"compressed", "compression_failed"}
      BY <1>1, <2>1, <3>1 DEF TasksInv
    <3> QED
      BY <2>1, <3>2, <3>3, <3>4 DEF TasksInv
  <2> QED
    BY <1>14, <2>2, <2>3
       DEF WriterFails, FinalFails, CloseFails, LoseStream, FinalKind, ChunkKind
<1>15. CASE ViewerPrunes \/ WriterPrunes
  BY <1>3, <1>5, <1>15 DEF ViewerPrunes, WriterPrunes, SkipOne
<1>16. CASE Viewer
  BY <1>4, <1>7, <1>8, <1>15, <1>16 DEF Viewer, Offer, Close, CheckWriter,
     PutStop, SaveFinal, SaveFinalFails, Timeout
<1>17. CASE Writer
  BY <1>4, <1>7, <1>12, <1>13, <1>14, <1>15, <1>17 DEF Writer, Get, WriteEvent,
     Write, Flush, PruneEvent, WriterSaves, FinalFlush
<1>18. CASE Compressor
  BY <1>4, <1>9, <1>10, <1>18 DEF Compressor, Compress, Replace, Unlink
<1>19. CASE Recover \/ UNCHANGED vars
  BY <1>4, <1>19 DEF Recover, vars
<1> QED
  BY <1>11, <1>16, <1>17, <1>18, <1>19 DEF Next

\* The compressor is told to end once, after the last chunk.
LEMMA StepEnd == ShapeInv /\ EndIsLast /\ [Next]_vars => EndIsLast'
<1> SUFFICES ASSUME ShapeInv, EndIsLast, [Next]_vars PROVE EndIsLast'
  OBVIOUS
<1> USE DEF viewer, offers, shared, writer, compressor, files
<1>1. /\ tasks \in Seq(Nat) /\ Len(tasks) \in Nat /\ Len(chunks) \in Nat
      /\ DOMAIN tasks = 1 .. Len(tasks)
      /\ Working <=> task # 0
  BY DEF ShapeInv, InventoryOK
<1>2. CASE /\ UNCHANGED <<tasks, task>> /\ (wpc = "done" => wpc' = "done")
           /\ cpc' = cpc
           /\ vpc' = vpc
  BY <1>2 DEF EndIsLast
<1>3. ASSUME UNCHANGED <<tasks, task, wpc, cpc>>,
             vpc' \in {"run", "check_writer", "put_stop", "wait_writer"} =>
                 vpc \in {"run", "check_writer", "put_stop", "wait_writer"},
             vpc' \in {"wait_compressor", "prune", "closed"} => wpc = "done",
             vpc' \in {"prune", "closed"} => cpc = "done"
      PROVE  EndIsLast'
  BY <1>3 DEF EndIsLast
<1>4. ASSUME NEW k \in ChunkKind, current[k] # 0, CloseChunk(k), wpc # "done",
             UNCHANGED <<vpc, cpc, task>>
      PROVE  EndIsLast'
  <2>1. /\ tasks' \in Seq(Nat) /\ Len(tasks') = Len(tasks) + 1
        /\ \A j \in DOMAIN tasks : tasks'[j] = tasks[j]
        /\ tasks'[Len(tasks) + 1] = Len(chunks) + 1
    BY <1>4, CloseChunkFacts
  <2>2. DOMAIN tasks' = DOMAIN tasks \cup {Len(tasks) + 1}
    BY <1>1, <2>1
  <2>3. \A j \in DOMAIN tasks' : tasks'[j] # 0
    BY <1>1, <1>4, <2>1, <2>2 DEF EndIsLast
  <2> QED
    BY <1>4, <2>3 DEF EndIsLast
<1>5. CASE WaitWriter
  <2>1. /\ DOMAIN tasks' = DOMAIN tasks \cup {Len(tasks) + 1}
        /\ \A j \in DOMAIN tasks : tasks'[j] = tasks[j]
        /\ Len(tasks') = Len(tasks) + 1
    BY <1>1, <1>5 DEF WaitWriter
  <2>2. /\ vpc = "wait_writer" /\ vpc' = "wait_compressor" /\ wpc' = "done"
        /\ UNCHANGED <<task, cpc>>
    BY <1>5 DEF WaitWriter
  <2>3. \A j \in DOMAIN tasks : tasks[j] # 0
    BY <2>2 DEF EndIsLast
  <2>4. cpc # "done"
    BY <2>2 DEF EndIsLast
  <2> QED
    BY <2>1, <2>2, <2>3, <2>4 DEF EndIsLast
<1>6. CASE GetTask
  <2>1. /\ tasks' \in Seq(Nat) /\ Len(tasks') = Len(tasks) - 1
        /\ 1 \in DOMAIN tasks /\ Head(tasks) = tasks[1]
        /\ \A j \in DOMAIN tasks' : /\ j + 1 \in DOMAIN tasks /\ j \in Nat
                                    /\ j >= 1 /\ tasks'[j] = tasks[j + 1]
        /\ task = 0
    BY <1>6, GetTaskFacts
  <2>2. UNCHANGED <<vpc, wpc>> /\ cpc = "idle"
    BY <1>6 DEF GetTask
  <2>3. \A j \in DOMAIN tasks' :
            tasks'[j] = 0 => /\ j = Len(tasks') /\ wpc = "done"
                             /\ vpc \notin {"run", "check_writer", "put_stop",
                                            "wait_writer"}
    BY <1>1, <2>1 DEF EndIsLast
  <2>4. CASE Head(tasks) = 0
    <3>1. /\ Len(tasks) = 1 /\ wpc = "done"
          /\ vpc \notin {"run", "check_writer", "put_stop", "wait_writer"}
      BY <2>1, <2>4 DEF EndIsLast
    <3>2. tasks' = <<>>
      BY <2>1, <3>1, EmptySeq
    <3>3. cpc' = "done" /\ task' = 0
      BY <1>6, <2>1, <2>4 DEF GetTask
    <3> QED
      BY <2>2, <2>3, <3>1, <3>2, <3>3 DEF EndIsLast
  <2>5. CASE Head(tasks) # 0
    <3>1. cpc' = "compress"
      BY <1>6, <2>5 DEF GetTask
    <3> QED
      BY <2>2, <2>3, <3>1 DEF EndIsLast
  <2> QED
    BY <2>4, <2>5
<1>7. CASE Compress \/ Replace \/ Unlink \/ Record \/ CompressFails
  <2>1. /\ UNCHANGED <<tasks, wpc, vpc>> /\ cpc # "done" /\ cpc' # "done"
    BY <1>7 DEF Compress, Replace, Unlink, Record, CompressFails
  <2> QED
    BY <2>1 DEF EndIsLast
<1>8. CASE Crash
  BY <1>8 DEF Crash, EndIsLast
<1>9. CASE Rotate
  BY <1>4, <1>9 DEF Rotate
<1>10. CASE FinalClose
  BY <1>2, <1>4, <1>10 DEF FinalClose, FinalKind, ChunkKind
<1>11. CASE Viewer
  BY <1>3, <1>5, <1>11 DEF Viewer, Offer, Close, CheckWriter, PutStop,
     WaitCompressor, ViewerPrunes, SaveFinal, SaveFinalFails, Timeout, EndIsLast
<1>12. CASE Writer
  BY <1>2, <1>9, <1>10, <1>12 DEF Writer, Get, WriteEvent, Write, Flush,
     WriterQuota, WriterPrunes, PruneEvent, WriterSaves, WriterFails, FinalFlush,
     FinalFails
<1>13. CASE Recover \/ UNCHANGED vars
  BY <1>2, <1>13 DEF Recover, vars
<1> QED
  BY <1>6, <1>7, <1>8, <1>11, <1>12, <1>13 DEF Next, Compressor

\* Without errors the files are what the inventory says.
LEMMA StepMatch ==
    /\ ShapeInv /\ ChunksAreDistinct /\ TasksInv /\ FilesMatchInventory
    /\ [Next]_vars
    => FilesMatchInventory'
<1> SUFFICES ASSUME ShapeInv, ChunksAreDistinct, TasksInv, FilesMatchInventory,
                    [Next]_vars
             PROVE  FilesMatchInventory'
  OBVIOUS
<1> USE DEF viewer, offers, shared, writer, compressor, files
<1>1. /\ chunks \in Seq(Entry) /\ Len(kindOf) \in Nat /\ Len(chunks) \in Nat
      /\ candidates \subseteq DOMAIN chunks /\ task \in 0 .. Len(chunks)
      /\ DOMAIN chunks = 1 .. Len(chunks)
      /\ \A i \in DOMAIN chunks : chunks[i].chunk \in 1 .. Len(kindOf)
  BY EntryFacts DEF ShapeInv, FilesOK, InventoryOK
<1> DEFINE Match(i) ==
        /\ chunks[i].state \in {"compressing", "compressed", "pruned"}
        /\ chunks[i].state = "pruned" => chunks[i].chunk \in pruned
        /\ chunks[i].state = "compressed" => chunks[i].chunk \in gz \ plain
        /\ i = task /\ cpc \in {"unlink", "record"} => chunks[i].chunk \in gz
        /\ i = task /\ cpc = "record" => chunks[i].chunk \notin plain
<1>2. /\ vpc # "dead" /\ tmp # {} => cpc = "replace" /\ tmp = {TaskChunk}
      /\ ~errors => \A i \in DOMAIN chunks : Match(i)
  BY DEF FilesMatchInventory
<1>3. SUFFICES /\ vpc' # "dead" /\ tmp' # {} =>
                      cpc' = "replace" /\ tmp' = {TaskChunk'}
               /\ ~errors' => \A i \in DOMAIN chunks' : Match(i)'
  BY DEF FilesMatchInventory
<1>4. errors => errors'
  BY ErrorsStay
<1>5. CASE /\ UNCHANGED <<chunks, plain, gz, tmp, pruned, task, cpc>>
           /\ vpc' # "dead" => vpc # "dead"
  BY <1>2, <1>4, <1>5 DEF TaskChunk
<1>6. CASE PruneOne /\ UNCHANGED <<task, cpc, vpc, errors>>
  <2>1. PICK p \in candidates :
          LET c == chunks[p].chunk
          IN  /\ chunks' \in Seq(Entry) /\ Len(chunks') = Len(chunks)
              /\ \A j \in DOMAIN chunks :
                     /\ chunks'[j].chunk = chunks[j].chunk
                     /\ j # p => chunks'[j] = chunks[j]
              /\ chunks'[p].state = "pruned"
              /\ pruned' = pruned \cup {c}
              /\ gz' = gz \/ gz' = gz \ {c}
              /\ plain' = plain \/ plain' = plain \ {c}
              /\ UNCHANGED tmp
    BY <1>6, PruneFacts
  <2>2. DOMAIN chunks' = DOMAIN chunks
    BY <1>1, <2>1
  <2>3. p # task
    BY DEF TasksInv, ShapeInv, InventoryOK
  <2>4. tmp' # {} /\ vpc' # "dead" => cpc' = "replace" /\ tmp' = {TaskChunk'}
    <3> SUFFICES ASSUME tmp' # {}, vpc' # "dead"
                 PROVE  cpc' = "replace" /\ tmp' = {TaskChunk'}
      OBVIOUS
    <3>1. cpc = "replace" /\ tmp = {TaskChunk}
      BY <1>2, <1>6, <2>1
    <3>2. task \in DOMAIN chunks
      BY <3>1, TaskFacts
    <3>3. TaskChunk' = TaskChunk
      BY <1>6, <2>1, <3>2 DEF TaskChunk
    <3> QED
      BY <1>6, <2>1, <3>1, <3>3
  <2>5. ASSUME ~errors', NEW i \in DOMAIN chunks' PROVE Match(i)'
    <3>1. Match(i) /\ i \in DOMAIN chunks
      BY <1>2, <1>6, <2>2, <2>5
    <3>2. CASE i = p
      BY <2>1, <2>3, <1>6, <3>1, <3>2
    <3>3. CASE i # p
      <4>1. chunks[i].chunk # chunks[p].chunk
        BY <1>1, <3>1, <3>3 DEF ChunksAreDistinct
      <4>2. chunks'[i] = chunks[i]
        BY <2>1, <3>1, <3>3
      <4> QED
        BY <1>6, <2>1, <3>1, <4>1, <4>2
    <3> QED
      BY <3>2, <3>3
  <2> QED
    BY <2>4, <2>5
<1>7. ASSUME NEW k \in ChunkKind, current[k] # 0, EnterChunk(k),
             UNCHANGED <<plain, gz, tmp, pruned, task, cpc, vpc>>
      PROVE  /\ vpc' # "dead" /\ tmp' # {} =>
                    cpc' = "replace" /\ tmp' = {TaskChunk'}
             /\ ~errors' => \A i \in DOMAIN chunks' : Match(i)'
  <2>1. /\ chunks' \in Seq(Entry) /\ Len(chunks') = Len(chunks) + 1
        /\ \A i \in DOMAIN chunks : chunks'[i] = chunks[i]
        /\ chunks'[Len(chunks) + 1].state = "compressing"
    BY <1>7, EnterChunkFacts
  <2>2. /\ DOMAIN chunks' = DOMAIN chunks \cup {Len(chunks) + 1}
        /\ Len(chunks) + 1 # task
    BY <1>1, <2>1
  <2>3. cpc = "replace" => TaskChunk' = TaskChunk
    BY <1>7, <2>1, TaskFacts DEF TaskChunk
  <2>4. ASSUME ~errors', NEW i \in DOMAIN chunks' PROVE Match(i)'
    <3>1. CASE i = Len(chunks) + 1
      BY <1>7, <2>1, <2>2, <3>1
    <3>2. CASE i \in DOMAIN chunks
      <4>1. chunks'[i] = chunks[i] /\ Match(i)
        BY <1>2, <1>4, <1>7, <2>1, <2>4, <3>2
      <4> QED
        BY <1>7, <4>1
    <3> QED
      BY <2>2, <3>1, <3>2
  <2> QED
    BY <1>2, <1>7, <2>3, <2>4
<1>8. CASE Write
  <2>1. plain' = plain \/ plain' = plain \cup {Len(kindOf) + 1}
    BY <1>8, WriteFacts
  <2>2. UNCHANGED <<chunks, gz, tmp, pruned, task, cpc, vpc, errors>>
    BY <1>8 DEF Write
  <2>3. ASSUME ~errors', NEW i \in DOMAIN chunks' PROVE Match(i)'
    <3>1. Match(i) /\ chunks[i].chunk # Len(kindOf) + 1
      BY <1>1, <1>2, <2>2, <2>3
    <3> QED
      BY <2>1, <2>2, <3>1
  <2> QED
    BY <1>2, <2>2, <2>3 DEF TaskChunk
<1>9. CASE Compress \/ Replace \/ Unlink
  <2>1. UNCHANGED <<chunks, pruned, task, vpc, errors>> /\ TaskChunk' = TaskChunk
    BY <1>9 DEF Compress, Replace, Unlink, TaskChunk
  <2>2. vpc' # "dead" /\ tmp' # {} => cpc' = "replace" /\ tmp' = {TaskChunk'}
    BY <1>2, <1>9, <2>1 DEF Compress, Replace, Unlink
  <2>3. ASSUME ~errors', NEW i \in DOMAIN chunks' PROVE Match(i)'
    <3>1. Match(i) /\ (i = task => chunks[i].chunk = TaskChunk)
      BY <1>2, <2>1, <2>3 DEF TaskChunk
    <3> QED
      BY <1>9, <2>1, <3>1 DEF Compress, Replace, Unlink
  <2> QED
    BY <2>2, <2>3
<1>10. CASE Record
  <2>1. task \in DOMAIN chunks /\ "compressed" \in ChunkState
    BY <1>10, TaskFacts DEF Record, ChunkState
  <2>2. /\ chunks' = [chunks EXCEPT ![task].state = "compressed"]
        /\ cpc = "record" /\ cpc' = "idle" /\ task' = 0
        /\ UNCHANGED <<plain, gz, tmp, pruned, vpc, errors>>
    BY <1>10 DEF Record
  <2>3. /\ DOMAIN chunks' = DOMAIN chunks
        /\ \A j \in DOMAIN chunks : /\ chunks'[j].chunk = chunks[j].chunk
                                    /\ j # task => chunks'[j] = chunks[j]
        /\ chunks'[task].state = "compressed"
    BY <1>1, <2>1, <2>2, SetState
  <2>4. ASSUME ~errors', NEW i \in DOMAIN chunks' PROVE Match(i)'
    <3>1. Match(i) /\ i \in DOMAIN chunks
      BY <1>2, <2>2, <2>3, <2>4
    <3>2. CASE i = task
      <4>1. chunks[i].chunk \in gz \ plain /\ i # task'
        BY <1>1, <2>2, <3>1, <3>2
      <4> QED
        BY <2>2, <2>3, <3>1, <3>2, <4>1
    <3>3. CASE i # task
      <4>1. chunks'[i] = chunks[i] /\ i # 0
        BY <1>1, <2>3, <3>1, <3>3
      <4> QED
        BY <2>2, <3>1, <4>1
    <3> QED
      BY <3>2, <3>3
  <2> QED
    BY <1>2, <2>2, <2>4
<1>11. CASE CompressFails
  <2>1. errors' /\ tmp' = tmp \ {TaskChunk} /\ UNCHANGED vpc
    BY <1>11 DEF CompressFails
  <2> QED
    BY <1>2, <2>1
<1>12. CASE GetTask
  <2>1. /\ UNCHANGED <<chunks, plain, gz, tmp, pruned, vpc, errors>>
        /\ cpc = "idle" /\ cpc' \in {"done", "compress"}
    BY <1>12 DEF GetTask
  <2> QED
    BY <1>2, <2>1
<1>13. CASE Crash
  BY <1>13 DEF Crash
<1>14. CASE Recover
  BY <1>2, <1>14 DEF Recover, Recovered
<1>15. CASE Rotate
  BY <1>7, <1>15 DEF Rotate, CloseChunk
<1>16. CASE FinalClose
  BY <1>5, <1>7, <1>16 DEF FinalClose, FinalKind, ChunkKind, CloseChunk
<1>17. CASE ViewerPrunes \/ WriterPrunes
  BY <1>5, <1>6, <1>17 DEF ViewerPrunes, WriterPrunes, SkipOne
<1>18. CASE Viewer
  BY <1>5, <1>17, <1>18 DEF Viewer, Offer, Close, CheckWriter, PutStop,
     WaitWriter, WaitCompressor, SaveFinal, SaveFinalFails, Timeout
<1>19. CASE WriterFails \/ FinalFails
  <2>1. UNCHANGED <<plain, gz, tmp, pruned, task, cpc, vpc>>
    BY <1>19 DEF WriterFails, FinalFails, CloseFails
  <2>2. \/ UNCHANGED chunks
        \/ \E k \in ChunkKind : current[k] # 0 /\ EnterChunk(k)
    BY <1>19 DEF WriterFails, FinalFails, CloseFails, LoseStream, FinalKind,
       ChunkKind
  <2> QED
    BY <1>5, <1>7, <2>1, <2>2
<1>20. CASE Writer
  BY <1>5, <1>8, <1>15, <1>16, <1>17, <1>20, <1>19 DEF Writer, Get, WriteEvent,
     Flush, WriterQuota, PruneEvent, WriterSaves, FinalFlush
<1>21. CASE UNCHANGED vars
  BY <1>5, <1>21 DEF vars
<1> QED
  BY <1>9, <1>10, <1>11, <1>12, <1>13, <1>14, <1>18, <1>20, <1>21
     DEF Next, Compressor

\* A session is called completed only when it was closed without an error.
LEMMA StepState == EndIsLast /\ StateInv /\ [Next]_vars => StateInv'
<1> SUFFICES ASSUME EndIsLast, StateInv, [Next]_vars PROVE StateInv'
  OBVIOUS
<1> USE DEF viewer, offers, shared, writer, compressor, files
<1>1. CASE Writer
  <2>1. wpc # "done" /\ state = "active"
    BY <1>1, EndedThreads DEF StateInv
  <2>2. vpc \notin {"wait_compressor", "prune", "closed"}
    BY <2>1 DEF EndIsLast
  <2>3. /\ UNCHANGED <<vpc, state>>
        /\ saved' = saved \/ saved'.state = "active"
    BY <1>1, <2>1 DEF Writer, Get, WriteEvent, Rotate, Write, Flush, WriterQuota,
       WriterPrunes, PruneOne, SkipOne, PruneEvent, WriterSaves, WriterFails,
       CloseFails, FinalClose, FinalFlush, FinalFails
  <2> QED
    BY <2>1, <2>2, <2>3 DEF StateInv
<1>2. CASE Compressor
  <2>1. cpc # "done"
    BY <1>2, EndedThreads
  <2>2. vpc \notin {"prune", "closed"}
    BY <2>1 DEF EndIsLast
  <2>3. UNCHANGED <<vpc, state, saved, wpc>>
    BY <1>2 DEF Compressor, GetTask, Compress, Replace, Unlink, Record,
       CompressFails
  <2> QED
    BY <2>2, <2>3 DEF StateInv
<1>3. CASE WaitCompressor
  <2>1. /\ wpc = "done" /\ vpc = "wait_compressor" /\ vpc' = "prune"
        /\ state' = FinalState /\ UNCHANGED <<wpc, saved, healthy, errors>>
    BY <1>3 DEF WaitCompressor, EndIsLast
  <2>2. saved.state # "completed"
    BY <2>1 DEF StateInv
  <2> QED
    BY <2>1, <2>2 DEF StateInv, FinalState
<1>4. CASE ViewerPrunes
  BY <1>4 DEF ViewerPrunes, PruneOne, SkipOne, StateInv
<1>5. CASE SaveFinal
  BY <1>5 DEF SaveFinal, StateInv
<1>6. CASE SaveFinalFails \/ Timeout
  BY <1>6 DEF SaveFinalFails, Timeout, StateInv
<1>7. CASE \/ \E k \in scenario.kinds : Offer(k)
           \/ Close \/ CheckWriter \/ PutStop \/ WaitWriter
  <2>1. /\ UNCHANGED <<state, saved, wpc>> /\ vpc # "closed"
        /\ vpc \notin {"prune", "closed", "gave_up", "dead"}
        /\ vpc' \notin {"prune", "closed", "gave_up", "dead"}
    BY <1>7 DEF Offer, Close, CheckWriter, PutStop, WaitWriter
  <2> QED
    BY <2>1 DEF StateInv
<1>8. CASE Crash
  BY <1>8 DEF Crash, StateInv
<1>9. CASE Recover
  BY <1>9 DEF Recover, StateInv
<1>10. CASE UNCHANGED vars
  BY <1>10 DEF vars, StateInv
<1> QED
  BY <1>1, <1>2, <1>3, <1>4, <1>5, <1>6, <1>7, <1>8, <1>9, <1>10
     DEF Next, Viewer

\* The invariants of a session without errors hold from the start.
LEMMA InitCompletion == Init => CompletionInv
BY DEF Init, CompletionInv, StopIsLast, DropsAreErrors, ChunksAreDistinct,
   InventoryIsComplete, ClosedInOrder, TasksInv, EndIsLast, FilesMatchInventory,
   StateInv, InLoop, NoStreams

\* Every step keeps them.
LEMMA StepCompletion ==
    ShapeInv /\ CompletionInv /\ [Next]_vars => CompletionInv'
BY StepStop, StepDrops, StepDistinct, StepComplete, StepClosed, StepTasks,
   StepEnd, StepMatch, StepState DEF CompletionInv

\* When nothing was dropped, every item that the viewer offered is alive.
LEMMA AllAlive ==
    ASSUME ShapeInv, LossInv, vpc # "dead", healthy, dropped = 0
    PROVE  1 .. offered \subseteq Alive
<1>1. offered \in Nat /\ notices \in Nat
  BY DEF ShapeInv, ViewerOK
<1>2. Alive \subseteq -notices .. offered /\ 0 \notin Alive
  BY DEF LossInv, Alive
<1> DEFINE R == -notices .. offered
           A == Alive
<1>3. IsFiniteSet(R) /\ Cardinality(R) = offered + notices + 1
  BY <1>1, FS_Interval
<1>4. A \in SUBSET (R \ {0}) /\ 0 \in R
  BY <1>1, <1>2
<1>5. Cardinality(A) + dropped = offered + notices
  BY DEF LossInv
<1>6. 1 .. offered \subseteq R \ {0}
  BY <1>1
<1> HIDE DEF R, A
<1>7. IsFiniteSet(R \ {0}) /\ Cardinality(R \ {0}) = Cardinality(R) - 1
  BY <1>3, <1>4, FS_RemoveElement
<1>8. IsFiniteSet(A) /\ Cardinality(A) \in Nat
  BY <1>4, <1>7, FS_Subset, FS_CardinalityType
<1>9. Cardinality(R \ {0}) = Cardinality(A)
  BY <1>1, <1>3, <1>5, <1>7, <1>8
<1>10. R \ {0} = A
  BY <1>4, <1>7, <1>9, FS_Subset
<1> QED
  BY <1>6, <1>10 DEF A

\* A completed session holds every item offered, nothing is left in a buffer,
\* and the inventory in session.json names the one file of every chunk: for any
\* queue size, number of items, rotations and prunes.
THEOREM CompletedHoldsAll == Spec => []CompletedIsComplete
<1>1. Init => ReadableInv /\ LossInv
  <2> SUFFICES ASSUME Init PROVE ReadableInv /\ LossInv
    OBVIOUS
  <2>1. Alive = {}
    BY DEF Init, Alive, Ids, Buffers, Stores, NoBuffers
  <2>2. LossInv
    BY <2>1, FS_EmptySet DEF Init, LossInv
  <2> QED
    BY <2>2 DEF Init, ReadableInv, ChunksStayReadable, ReplacedBeforeUnlink
<1>2. ShapeInv /\ ReadableInv /\ LossInv /\ CompletionInv => CompletedIsComplete
  <2> SUFFICES ASSUME ShapeInv, ReadableInv, LossInv, CompletionInv,
                      saved.state = "completed"
               PROVE  /\ dropped = 0 /\ 1 .. offered \subseteq Kept
                      /\ Buffers = {}
                      /\ {saved.chunks[i].chunk : i \in DOMAIN saved.chunks}
                             = 1 .. Len(kindOf)
                      /\ \A i \in DOMAIN saved.chunks :
                             LET c == saved.chunks[i].chunk
                             IN  \/ saved.chunks[i].state = "pruned" /\ c \in pruned
                                 \/ saved.chunks[i].state = "compressed"
                                    /\ c \in gz \ (plain \cup tmp)
    BY DEF CompletedIsComplete, Buffers
  <2>1. vpc = "closed" /\ saved = [state |-> state, chunks |-> chunks]
    BY DEF CompletionInv, StateInv
  <2>2. state = "completed" /\ saved.chunks = chunks
    BY <2>1
  <2>3. healthy /\ ~errors
    BY <2>1, <2>2 DEF CompletionInv, StateInv
  <2>4. wpc = "done" /\ cpc = "done" /\ tasks = <<>> /\ task = 0
    BY <2>1 DEF CompletionInv, EndIsLast
  <2>5. dropped = 0
    <3>1. ~(dropped > 0) /\ dropped \in Nat
      BY <2>3 DEF CompletionInv, DropsAreErrors, ShapeInv, ViewerOK
    <3> QED
      BY <3>1
  <2>6. current["raw"] = 0 /\ current["csv"] = 0
    BY <2>3, <2>4 DEF CompletionInv, ClosedInOrder
  <2>7. \A k \in ChunkKind : current[k] = 0 /\ buffered[k] = {}
    BY <2>6 DEF ChunkKind, ShapeInv, StreamsOK
  <2>8. Buffers = {}
    BY <2>7 DEF Buffers
  <2>9. 1 .. offered \subseteq Kept
    <3>1. 1 .. offered \subseteq Alive
      BY <2>1, <2>3, <2>5, AllAlive
    <3>2. \A i \in DOMAIN queue : queue[i].id < 0
      BY <2>1, <2>3, <2>4 DEF CompletionInv, StopIsLast, InLoop
    <3>3. Ids(hand) = {}
      BY <2>4, IdsHand DEF ShapeInv
    <3>4. offered \in Nat
      BY DEF ShapeInv, ViewerOK
    <3>5. \A x \in 1 .. offered : x \notin Ids(queue)
      BY <3>2, <3>4 DEF Ids
    <3>6. Held = Ids(queue) \cup Ids(hand)
      BY DEF Held, Ids
    <3>7. Alive \subseteq Held \cup Kept
      BY FoundIsAlive
    <3> QED
      BY <3>1, <3>3, <3>5, <3>6, <3>7
  <2>10. {chunks[i].chunk : i \in DOMAIN chunks} = 1 .. Len(kindOf)
    <3>1. \A i \in DOMAIN chunks : chunks[i].chunk \in 1 .. Len(kindOf)
      BY EntryFacts
    <3>2. \A c \in 1 .. Len(kindOf) : \E i \in DOMAIN chunks : chunks[i].chunk = c
      BY <2>1, <2>3, <2>7 DEF CompletionInv, InventoryIsComplete
    <3> QED
      BY <3>1, <3>2
  <2>11. tmp = {}
    BY <2>1, <2>4 DEF CompletionInv, FilesMatchInventory
  <2>12. ASSUME NEW i \in DOMAIN chunks
         PROVE  \/ chunks[i].state = "pruned" /\ chunks[i].chunk \in pruned
                \/ /\ chunks[i].state = "compressed"
                   /\ chunks[i].chunk \in gz \ (plain \cup tmp)
    <3>1. chunks[i].state # "compressing"
      BY <2>3, <2>4, EntryFacts DEF CompletionInv, TasksInv
    <3>2. /\ chunks[i].state \in {"compressing", "compressed", "pruned"}
          /\ chunks[i].state = "pruned" => chunks[i].chunk \in pruned
          /\ chunks[i].state = "compressed" => chunks[i].chunk \in gz \ plain
      BY <2>3 DEF CompletionInv, FilesMatchInventory
    <3> QED
      BY <2>11, <3>1, <3>2
  <2> QED
    BY <2>2, <2>5, <2>8, <2>9, <2>10, <2>12
<1>3. ShapeInv /\ ReadableInv /\ [Next]_vars => ReadableInv'
  BY StepReadable
<1>4. ShapeInv /\ LossInv /\ [Next]_vars => LossInv'
  BY StepLoss
<1> QED
  BY Shape, InitCompletion, StepCompletion, <1>1, <1>2, <1>3, <1>4, PTL DEF Spec

=============================================================================
