------------------------------- MODULE Queue -------------------------------
(***************************************************************************)
(* The device queue of yawgpu-core (queue.rs): deferred queue writes, the  *)
(* staging chunks they are copied through, submission under the            *)
(* `submission` lock, and the recycling of a chunk once the submission     *)
(* that reads it has completed.                                            *)
(*                                                                         *)
(* One action is one critical section of the code: what happens between    *)
(* two actions of a thread may interleave with every other thread.  The    *)
(* pollers (submission_complete, wait_for_submission, the tail of          *)
(* wait_idle) never take `submission`; everything else does.               *)
(*                                                                         *)
(* A Vec of copies is the set of its elements: a copy carries the number w *)
(* it got when it was pushed, so the order of the Vec is the order of w.   *)
(***************************************************************************)
EXTENDS Integers, Sequences, FiniteSets

CONSTANTS
  Threads,      \* the application threads that call into the queue
  NoThread,     \* the `submission` mutex is free
  Buffers,      \* identities of HAL staging buffers (their memory)
  NoBuffer,     \* current_chunk is None
  Commands,     \* command buffers the application has finished
  ChunkSize,    \* STAGING_CHUNK_SIZE, in units of the smallest write
  MaxFree,      \* MAX_FREE_STAGING_CHUNKS
  Threshold,    \* PENDING_MEMORY_SUBMIT_THRESHOLD, in the same units
  WriteSizes,   \* sizes of writes the application makes
  Alignments,   \* alignments a copy may ask of its staging offset
  MaxWrites,    \* bound: copies pushed in a behaviour
  MaxOps        \* bound: calls made in a behaviour

ASSUME QueueAssumption ==
  /\ NoThread \notin Threads
  /\ NoBuffer \notin Buffers
  /\ IsFiniteSet(Buffers)
  /\ ChunkSize \in Nat \ {0}
  /\ MaxFree \in Nat
  /\ Threshold \in Nat
  /\ WriteSizes \subseteq Nat \ {0}
  /\ Alignments \subseteq Nat \ {0}
  /\ MaxWrites \in Nat
  /\ MaxOps \in Nat

VARIABLES
  submission,   \* holder of the `submission` mutex
  batch_lock,   \* holder of the `pending_writes` mutex across steps
  lost,         \* QueueInner.lost
  copies,       \* PendingWriteBatch.copies
  chunks,       \* PendingWriteBatch.chunks, [buf, dedicated, cursor]
  current,      \* PendingWriteBatch.current_chunk
  staged_bytes, \* PendingWriteBatch.staged_bytes
  in_flight,    \* PendingWriteBatch.in_flight, one entry per retirement
  free,         \* PendingWriteBatch.free_chunks
  latest,       \* latest_submission_index
  submitted,    \* command buffers whose `submitted` flag is set
  gpu,          \* submissions the HAL queue accepted, in timeline order
  done,         \* how many of them the GPU has completed
  content,      \* which copy last wrote each unit of a staging buffer
  pc, kind,     \* per thread: its next critical section, of which call
  index,        \* per thread: the submission index it read or was given last
  target,       \* per thread: the submission the HAL wait blocks on
  taken,        \* copies, taken from the batch by the call in `submission`,
  encoded,      \*   the encoder-side writes its command buffers staged,
  held,         \*   the chunks of both,
  cmds, after,  \*   those command buffers, and next_write when it validated
  next_write, ops, \* counters behind MaxWrites and MaxOps
  accepted,     \* history: the queue writes that were pushed
  failed,       \* history: the HAL has refused or misreported something
  dropped       \* QueueInner::drop has begun

vars == <<submission, batch_lock, lost, copies, chunks, current,
          staged_bytes, in_flight, free, latest, submitted, gpu, done,
          content, pc, kind, index, target, taken, encoded, held, cmds, after,
          next_write, ops, accepted, failed, dropped>>

batch_vars  == <<copies, chunks, current, staged_bytes>>
memory_vars == <<in_flight, free, content>>
hal_vars    == <<gpu, done, failed>>
call_vars   == <<ops, dropped>>
write_vars  == <<next_write, accepted>>
local_vars  == <<kind, index, target>>
hand_vars   == <<taken, encoded, held, cmds, after>>

Units == 0 .. (ChunkSize - 1)

-----------------------------------------------------------------------------
(* Staging memory.                                                         *)

\* align_up: the smallest multiple of a that is at least v.
AlignUp(v, a) == IF v % a = 0 THEN v ELSE v + (a - (v % a))

Bufs(S) == {c.buf : c \in S}
Standard(S) == {c.buf : c \in {x \in S : ~x.dedicated}}

\* The copies whose source may still be read: pending, in the hands of a call
\* that has not submitted them, or on the GPU timeline and not complete.
LiveOnGpu == UNION {gpu[i].copies : i \in (done + 1) .. Len(gpu)}
LiveCopies == copies \cup taken \cup encoded \cup LiveOnGpu

Retired == UNION {in_flight[i].bufs : i \in DOMAIN in_flight}

\* A buffer whose last Arc is gone: nothing in the queue holds it, and no copy
\* that could still run reads it (the HAL retains the buffers of its copies).
Unallocated ==
  Buffers \ (Bufs(chunks) \cup Bufs(held) \cup free \cup Retired \cup Bufs(LiveCopies))

Write(c) ==
  content' = [content EXCEPT ![c.buf] = [u \in Units |->
      IF c.off <= u /\ u < c.off + c.size THEN c.w ELSE content[c.buf][u]]]

AddChunk(c, dedicated) ==
  /\ chunks' = chunks \cup
       {[buf |-> c.buf, dedicated |-> dedicated, cursor |-> c.size]}
  /\ staged_bytes' =
       staged_bytes + (IF dedicated THEN c.size ELSE ChunkSize)

Fits(chunk, size, align) ==
  chunk.buf = current /\ AlignUp(chunk.cursor, align) + size <= ChunkSize

\* PendingWriteBatch::stage: a buffer of its own for a write larger than a
\* chunk, else the room left in the current chunk, else a pooled or new chunk.
StageDedicated(c) ==
  /\ c.size > ChunkSize
  /\ c.buf \in Unallocated /\ c.off = 0
  /\ AddChunk(c, TRUE)
  /\ Write(c)
  /\ UNCHANGED <<current, free>>

StageCurrent(c, align) ==
  /\ c.size <= ChunkSize
  /\ \E chunk \in chunks :
       /\ Fits(chunk, c.size, align)
       /\ c.buf = chunk.buf /\ c.off = AlignUp(chunk.cursor, align)
       /\ chunks' = (chunks \ {chunk})
                      \cup {[chunk EXCEPT !.cursor = c.off + c.size]}
  /\ Write(c)
  /\ UNCHANGED <<current, free, staged_bytes>>

TakeChunk(b) ==
  /\ b \in IF free # {} THEN free ELSE Unallocated
  /\ free' = free \ {b}

StageNew(c, align) ==
  /\ c.size <= ChunkSize
  /\ \A chunk \in chunks : ~Fits(chunk, c.size, align)
  /\ TakeChunk(c.buf) /\ c.off = 0
  /\ AddChunk(c, FALSE)
  /\ current' = c.buf
  /\ Write(c)

NewCopies == [w : {next_write}, buf : Buffers, off : Units, size : WriteSizes]

Stage(c) ==
  /\ next_write < MaxWrites
  /\ next_write' = next_write + 1
  /\ \/ StageDedicated(c)
     \/ \E align \in Alignments : StageCurrent(c, align) \/ StageNew(c, align)

\* The HAL may refuse the staging buffer, or accept it and then fail to write
\* the data: then a chunk taken for this write stays in the batch, unread.
StageFails ==
  \/ UNCHANGED <<chunks, current, staged_bytes, free>>
  \/ \E b \in Buffers, size \in WriteSizes, align \in Alignments :
       /\ size <= ChunkSize /\ \A chunk \in chunks : ~Fits(chunk, size, align)
       /\ TakeChunk(b)
       /\ chunks' = chunks \cup {[buf |-> b, dedicated |-> FALSE, cursor |-> 0]}
       /\ staged_bytes' = staged_bytes + ChunkSize
       /\ current' = b

TakeSubmission ==
  /\ copies' = {} /\ chunks' = {} /\ current' = NoBuffer /\ staged_bytes' = 0

\* Mutant: an entry of the submission after the completed one is recycled too.
RecycleCompleted_Early(completed) ==
  \E k \in 0 .. Len(in_flight) :
    /\ \A i \in 1 .. k : in_flight[i].index <= completed + 1
    /\ in_flight' = SubSeq(in_flight, k + 1, Len(in_flight))
    /\ free' = free \cup UNION {in_flight[i].bufs : i \in 1 .. k}

\* recycle_completed: the completed prefix of in_flight goes to the pool, and
\* what exceeds the cap of the pool is dropped.
RecycleCompleted(completed) ==
  \E k \in 0 .. Len(in_flight) :
    /\ \A i \in 1 .. k : in_flight[i].index <= completed
    /\ k < Len(in_flight) => in_flight[k + 1].index > completed
    /\ in_flight' = SubSeq(in_flight, k + 1, Len(in_flight))
    /\ \E kept \in SUBSET UNION {in_flight[i].bufs : i \in 1 .. k} :
         /\ Cardinality(free \cup kept) <= MaxFree
         /\ \/ kept = UNION {in_flight[i].bufs : i \in 1 .. k}
            \/ Cardinality(free \cup kept) = MaxFree
         /\ free' = free \cup kept

\* retire: the standard chunks of a batch wait in in_flight for submission i.
Retire(i, batch) ==
  in_flight' = IF Standard(batch) = {} THEN in_flight
               ELSE Append(in_flight, [index |-> i, bufs |-> Standard(batch)])

-----------------------------------------------------------------------------
(* Calls.  A thread is at the critical section pc[t] of the call it makes. *)

Goto(t, label) == pc' = [pc EXCEPT ![t] = label]

EmptyHands == taken' = {} /\ encoded' = {} /\ held' = {} /\ cmds' = {} /\ after' = 0

\* The guard `_submission` is dropped; wait_idle goes on without it.
Leave(t) ==
  /\ submission' = NoThread
  /\ Goto(t, IF kind[t] = "wait_idle" THEN "snapshot" ELSE "idle")
  /\ EmptyHands

Init ==
  /\ submission = NoThread /\ batch_lock = NoThread /\ lost = FALSE
  /\ copies = {} /\ chunks = {} /\ current = NoBuffer /\ staged_bytes = 0
  /\ in_flight = <<>> /\ free = {}
  /\ content = [b \in Buffers |-> [u \in Units |-> MaxWrites]]
  /\ latest = 0 /\ submitted = {} /\ gpu = <<>> /\ done = 0
  /\ pc = [t \in Threads |-> "idle"]
  /\ kind = [t \in Threads |-> "flush"]
  /\ index = [t \in Threads |-> 0] /\ target = [t \in Threads |-> 0]
  /\ taken = {} /\ encoded = {} /\ held = {} /\ cmds = {} /\ after = 0
  /\ next_write = 0 /\ ops = 0 /\ accepted = {}
  /\ failed = FALSE /\ dropped = FALSE

\* The application calls into the queue from thread t.
Begin(t, call, label) ==
  /\ pc[t] = "idle" /\ ~dropped /\ ops < MaxOps
  /\ ops' = ops + 1
  /\ kind' = [kind EXCEPT ![t] = call]
  /\ Goto(t, label)
  /\ UNCHANGED <<submission, batch_lock, lost, batch_vars, memory_vars, latest,
                 submitted, hal_vars, hand_vars, write_vars, dropped>>

BeginLocked(t) ==
  /\ \E call \in {"write", "flush", "submit", "wait_idle"} : Begin(t, call, "enter")
  /\ UNCHANGED <<index, target>>

\* submission_complete
BeginPoll(t) == Begin(t, "poll", "poll_hal") /\ UNCHANGED <<index, target>>

\* wait_for_submission, on an index some submission had.
BeginWaitFor(t) ==
  /\ Begin(t, "wait_for", "wait")
  /\ \E i \in 0 .. latest :
       /\ index' = [index EXCEPT ![t] = i]
       /\ target' = [target EXCEPT ![t] = i]

\* Mutant: `lost` is tested by the callers, before the lock.
Enter_NoLostTest(t) ==
  /\ pc[t] = "enter" /\ submission = NoThread
  /\ IF FALSE THEN Leave(t)
     ELSE /\ submission' = t
          /\ Goto(t, CASE kind[t] = "write" -> "poll_hal"
                       [] kind[t] = "submit" -> "validate"
                       [] OTHER -> "take")
          /\ UNCHANGED hand_vars
  /\ UNCHANGED <<batch_lock, lost, batch_vars, memory_vars, latest, submitted,
                 hal_vars, local_vars, write_vars, call_vars>>

\* Takes `submission` and tests `lost` under it.
Enter(t) ==
  /\ pc[t] = "enter" /\ submission = NoThread
  /\ IF lost THEN Leave(t)
     ELSE /\ submission' = t
          /\ Goto(t, CASE kind[t] = "write" -> "poll_hal"
                       [] kind[t] = "submit" -> "validate"
                       [] OTHER -> "take")
          /\ UNCHANGED hand_vars
  /\ UNCHANGED <<batch_lock, lost, batch_vars, memory_vars, latest, submitted,
                 hal_vars, local_vars, write_vars, call_vars>>

\* Mutant: the `submitted` flags are read and not set.
Validate_NoMark(t) ==
  /\ pc[t] = "validate"
  /\ \E list \in UNION {[1 .. n -> Commands] : n \in 0 .. 2}, valid \in BOOLEAN :
       LET refused == {i \in DOMAIN list : \/ list[i] \in submitted
                                           \/ \E j \in 1 .. (i - 1) : list[j] = list[i]}
           marked  == {list[i] : i \in {j \in DOMAIN list :
                                          \A r \in refused : j < r}}
       IN /\ submitted' = submitted
          /\ IF valid /\ refused = {}
             THEN /\ Goto(t, IF list = <<>> THEN "take" ELSE "poll_hal")
                  /\ cmds' = marked /\ after' = next_write
                  /\ UNCHANGED kind
             ELSE /\ Goto(t, "take")
                  /\ kind' = [kind EXCEPT ![t] = "flush"]
                  /\ UNCHANGED <<cmds, after>>
  /\ UNCHANGED <<submission, batch_lock, lost, batch_vars, memory_vars, latest,
                 hal_vars, index, target, taken, encoded, held, write_vars, call_vars>>

\* Command buffers are marked in order until one refuses; a refusal or any
\* other validation error turns the submit into a flush of the queued writes.
Validate(t) ==
  /\ pc[t] = "validate"
  /\ \E list \in UNION {[1 .. n -> Commands] : n \in 0 .. 2}, valid \in BOOLEAN :
       LET refused == {i \in DOMAIN list : \/ list[i] \in submitted
                                           \/ \E j \in 1 .. (i - 1) : list[j] = list[i]}
           marked  == {list[i] : i \in {j \in DOMAIN list :
                                          \A r \in refused : j < r}}
       IN /\ submitted' = submitted \cup marked
          /\ IF valid /\ refused = {}
             THEN /\ Goto(t, IF list = <<>> THEN "take" ELSE "poll_hal")
                  /\ cmds' = marked /\ after' = next_write
                  /\ UNCHANGED kind
             ELSE /\ Goto(t, "take")
                  /\ kind' = [kind EXCEPT ![t] = "flush"]
                  /\ UNCHANGED <<cmds, after>>
  /\ UNCHANGED <<submission, batch_lock, lost, batch_vars, memory_vars, latest,
                 hal_vars, index, target, taken, encoded, held, write_vars, call_vars>>

AfterRecycle(call) ==
  CASE call = "write" -> "stage" [] call = "submit" -> "lower_take"
    [] OTHER -> "idle"

\* completed_submission_index(); a failed poll skips the recycling.
PollHal(t) ==
  /\ pc[t] = "poll_hal"
  /\ \/ /\ Goto(t, "recycle")
        /\ index' = [index EXCEPT ![t] = done]
     \/ /\ Goto(t, AfterRecycle(kind[t]))
        /\ UNCHANGED index
  /\ UNCHANGED <<submission, batch_lock, lost, batch_vars, memory_vars, latest,
                 submitted, hal_vars, kind, target, hand_vars, write_vars, call_vars>>

Recycle(t) ==
  /\ pc[t] = "recycle" /\ batch_lock = NoThread
  /\ RecycleCompleted(index[t])
  /\ Goto(t, AfterRecycle(kind[t]))
  /\ UNCHANGED <<submission, batch_lock, lost, batch_vars, content, latest,
                 submitted, hal_vars, local_vars, hand_vars, write_vars, call_vars>>

\* write_buffer / write_texture: stage the data and push its copy.
StageWrite(t) ==
  /\ pc[t] = "stage" /\ batch_lock = NoThread
  /\ \E c \in NewCopies :
       /\ Stage(c)
       /\ copies' = copies \cup {c}
       /\ accepted' = accepted \cup {c.w}
  /\ Goto(t, "threshold")
  /\ UNCHANGED <<submission, batch_lock, lost, in_flight, latest, submitted,
                 hal_vars, local_vars, hand_vars, call_vars>>

StageWriteFails(t) ==
  /\ pc[t] = "stage" /\ batch_lock = NoThread
  /\ StageFails
  /\ Leave(t)
  /\ UNCHANGED <<batch_lock, lost, copies, in_flight, content, latest, submitted,
                 hal_vars, local_vars, write_vars, call_vars>>

\* maybe_flush_pending_writes_locked
CheckThreshold(t) ==
  /\ pc[t] = "threshold" /\ batch_lock = NoThread
  /\ IF staged_bytes >= Threshold
     THEN Goto(t, "take") /\ UNCHANGED <<submission, hand_vars>>
     ELSE Leave(t)
  /\ UNCHANGED <<batch_lock, lost, batch_vars, memory_vars, latest, submitted,
                 hal_vars, local_vars, write_vars, call_vars>>

\* take_pending_writes.  A flush with nothing to copy ends here and drops its
\* chunks; an empty submit goes on to the HAL.
Take(t) ==
  /\ pc[t] = "take" /\ batch_lock = NoThread
  /\ TakeSubmission
  /\ IF copies = {} /\ kind[t] # "submit" THEN Leave(t)
     ELSE /\ taken' = copies /\ held' = chunks
          /\ Goto(t, "hal")
          /\ UNCHANGED <<submission, encoded, cmds, after>>
  /\ UNCHANGED <<batch_lock, lost, memory_vars, latest, submitted, hal_vars,
                 local_vars, write_vars, call_vars>>

\* Mutant: the queued copies stay behind, for the next flush.
LowerTake_Hoists(t) ==
  /\ pc[t] = "lower_take" /\ batch_lock = NoThread
  /\ batch_lock' = t
  /\ chunks' = {} /\ current' = NoBuffer /\ staged_bytes' = 0
  /\ held' = chunks /\ UNCHANGED <<copies, taken>>
  /\ Goto(t, "lower")
  /\ UNCHANGED <<submission, lost, memory_vars, latest, submitted, hal_vars,
                 local_vars, encoded, cmds, after, write_vars, call_vars>>

\* The lowering walk of submit holds the batch from its first take to its last.
LowerTake(t) ==
  /\ pc[t] = "lower_take" /\ batch_lock = NoThread
  /\ batch_lock' = t
  /\ TakeSubmission
  /\ taken' = copies /\ held' = chunks
  /\ Goto(t, "lower")
  /\ UNCHANGED <<submission, lost, memory_vars, latest, submitted, hal_vars,
                 local_vars, encoded, cmds, after, write_vars, call_vars>>

LowerWrite(t) ==
  /\ pc[t] = "lower"
  /\ \E c \in NewCopies : Stage(c) /\ encoded' = encoded \cup {c}
  /\ UNCHANGED <<submission, batch_lock, lost, copies, in_flight, latest,
                 submitted, hal_vars, pc, local_vars, taken, held, cmds, after,
                 accepted, call_vars>>

LowerDone(t) ==
  /\ pc[t] = "lower"
  /\ TakeSubmission
  /\ batch_lock' = NoThread
  /\ held' = held \cup chunks
  /\ Goto(t, "hal")
  /\ UNCHANGED <<submission, lost, memory_vars, latest, submitted, hal_vars,
                 local_vars, taken, encoded, cmds, after, write_vars, call_vars>>

LowerError(t) ==
  /\ pc[t] = "lower"
  /\ StageFails
  /\ Goto(t, "lower_abort")
  /\ UNCHANGED <<submission, batch_lock, lost, copies, in_flight, content, latest,
                 submitted, hal_vars, local_vars, hand_vars, write_vars, call_vars>>

\* Mutant: the copies are cleared, not truncated.
LowerAbort_DropsAll(t) ==
  /\ pc[t] = "lower_abort"
  /\ TakeSubmission
  /\ batch_lock' = NoThread
  /\ held' = held \cup chunks
  /\ taken' = {} /\ encoded' = {} /\ cmds' = {}
  /\ Goto(t, "retire_latest")
  /\ UNCHANGED <<submission, lost, memory_vars, latest, submitted, hal_vars,
                 local_vars, after, write_vars, call_vars>>

\* Nothing of the command buffers runs; the queued copies still do.
LowerAbort(t) ==
  /\ pc[t] = "lower_abort"
  /\ TakeSubmission
  /\ batch_lock' = NoThread
  /\ held' = held \cup chunks
  /\ encoded' = {} /\ cmds' = {}
  /\ Goto(t, IF taken = {} THEN "retire_latest" ELSE "hal")
  /\ UNCHANGED <<submission, lost, memory_vars, latest, submitted, hal_vars,
                 local_vars, taken, after, write_vars, call_vars>>

Submission(ok) ==
  [copies |-> taken \cup encoded, cmds |-> cmds, after |-> after, ok |-> ok]

\* Mutant: the lock is released before the index is recorded.
HalSubmit_Unlocks(t) ==
  /\ pc[t] = "hal"
  /\ gpu' = Append(gpu, Submission(TRUE))
  /\ index' = [index EXCEPT ![t] = Len(gpu) + 1]
  /\ taken' = {} /\ encoded' = {}
  /\ Goto(t, "record")
  /\ submission' = NoThread
  /\ UNCHANGED <<batch_lock, lost, batch_vars, memory_vars, latest,
                 submitted, done, failed, kind, target, held, cmds, after,
                 write_vars, call_vars>>

\* hal.submit_copies / submit_empty succeed.
HalSubmit(t) ==
  /\ pc[t] = "hal"
  /\ gpu' = Append(gpu, Submission(TRUE))
  /\ index' = [index EXCEPT ![t] = Len(gpu) + 1]
  /\ taken' = {} /\ encoded' = {}
  /\ Goto(t, "record")
  /\ UNCHANGED <<submission, batch_lock, lost, batch_vars, memory_vars, latest,
                 submitted, done, failed, kind, target, held, cmds, after,
                 write_vars, call_vars>>

\* They fail: the chunks are dropped and no index is recorded, whether the GPU
\* got the work (Vulkan: retirement failed after vkQueueSubmit) or not.
HalSubmitFails(t) ==
  /\ pc[t] = "hal"
  /\ gpu' \in {gpu, Append(gpu, Submission(FALSE))}
  /\ failed' = TRUE
  /\ Leave(t)
  /\ UNCHANGED <<batch_lock, lost, batch_vars, memory_vars, latest, submitted,
                 done, local_vars, write_vars, call_vars>>

\* record_submission, under the lock of latest_submission_index alone.
RecordSubmission(t) ==
  /\ pc[t] = "record"
  /\ latest' = IF index[t] > latest THEN index[t] ELSE latest
  /\ Goto(t, "retire")
  /\ UNCHANGED <<submission, batch_lock, lost, batch_vars, memory_vars, submitted,
                 hal_vars, local_vars, hand_vars, write_vars, call_vars>>

RetireChunks(t) ==
  /\ pc[t] = "retire" /\ batch_lock = NoThread
  /\ Retire(index[t], held)
  /\ Leave(t)
  /\ UNCHANGED <<batch_lock, lost, batch_vars, free, content, latest, submitted,
                 hal_vars, local_vars, write_vars, call_vars>>

\* An aborted lowering with nothing queued retires against the last index.
RetireUnread(t) ==
  /\ pc[t] = "retire_latest" /\ batch_lock = NoThread
  /\ Retire(latest, held)
  /\ Leave(t)
  /\ UNCHANGED <<batch_lock, lost, batch_vars, free, content, latest, submitted,
                 hal_vars, local_vars, write_vars, call_vars>>

\* wait_idle after its flush: the index is read before the HAL waits.
Snapshot(t) ==
  /\ pc[t] = "snapshot"
  /\ index' = [index EXCEPT ![t] = latest]
  /\ Goto(t, "wait_begin")
  /\ UNCHANGED <<submission, batch_lock, lost, batch_vars, memory_vars, latest,
                 submitted, hal_vars, kind, target, hand_vars, write_vars, call_vars>>

WaitBegin(t) ==
  /\ pc[t] = "wait_begin"
  /\ target' = [target EXCEPT ![t] = Len(gpu)]
  /\ Goto(t, "wait")
  /\ UNCHANGED <<submission, batch_lock, lost, batch_vars, memory_vars, latest,
                 submitted, hal_vars, kind, index, hand_vars, write_vars, call_vars>>

Wait(t) ==
  /\ pc[t] = "wait" /\ done >= target[t]
  /\ Goto(t, "recycle")
  /\ UNCHANGED <<submission, batch_lock, lost, batch_vars, memory_vars, latest,
                 submitted, hal_vars, local_vars, hand_vars, write_vars, call_vars>>

WaitFails(t) ==
  /\ pc[t] = "wait"
  /\ Goto(t, "idle")
  /\ failed' = TRUE
  /\ UNCHANGED <<submission, batch_lock, lost, batch_vars, memory_vars, latest,
                 submitted, gpu, done, local_vars, hand_vars, write_vars, call_vars>>

\* Device::lose marks the queue: unsubmitted writes are discarded.
MarkLost ==
  /\ submission = NoThread /\ batch_lock = NoThread /\ ~lost /\ ~dropped
  /\ lost' = TRUE
  /\ TakeSubmission
  /\ UNCHANGED <<submission, batch_lock, memory_vars, latest, submitted, hal_vars,
                 pc, local_vars, hand_vars, write_vars, call_vars>>

\* What the drop of the queue submits.
Rest(ok) == [copies |-> copies, cmds |-> {}, after |-> 0, ok |-> ok]

\* Mutant: the last index is not updated by the final submit.
Drop_StaleLatest(t) ==
  /\ ~dropped /\ \A u \in Threads : pc[u] = "idle"
  /\ dropped' = TRUE
  /\ TakeSubmission
  /\ held' = chunks
  /\ \/ copies = {} /\ UNCHANGED <<gpu, failed, latest>>
     \/ /\ copies # {}
        /\ gpu' = Append(gpu, Rest(TRUE)) /\ UNCHANGED latest
        /\ UNCHANGED failed
     \/ /\ copies # {}
        /\ gpu' \in {gpu, Append(gpu, Rest(FALSE))}
        /\ failed' = TRUE
        /\ UNCHANGED latest
  /\ Goto(t, "drop_wait")
  /\ UNCHANGED <<submission, batch_lock, lost, memory_vars, submitted, done,
                 local_vars, taken, encoded, cmds, after, write_vars, ops>>

\* QueueInner::drop has exclusive access: submit what is pending, then wait.
Drop(t) ==
  /\ ~dropped /\ \A u \in Threads : pc[u] = "idle"
  /\ dropped' = TRUE
  /\ TakeSubmission
  /\ held' = chunks
  /\ \/ copies = {} /\ UNCHANGED <<gpu, failed, latest>>
     \/ /\ copies # {}
        /\ gpu' = Append(gpu, Rest(TRUE)) /\ latest' = Len(gpu) + 1
        /\ UNCHANGED failed
     \/ /\ copies # {}
        /\ gpu' \in {gpu, Append(gpu, Rest(FALSE))}
        /\ failed' = TRUE
        /\ UNCHANGED latest
  /\ Goto(t, "drop_wait")
  /\ UNCHANGED <<submission, batch_lock, lost, memory_vars, submitted, done,
                 local_vars, taken, encoded, cmds, after, write_vars, ops>>

DropWait(t) ==
  /\ pc[t] = "drop_wait"
  /\ \/ done >= latest /\ UNCHANGED failed
     \/ failed' = TRUE
  /\ EmptyHands
  /\ in_flight' = <<>> /\ free' = {}
  /\ Goto(t, "idle")
  /\ UNCHANGED <<submission, batch_lock, lost, batch_vars, content, latest,
                 submitted, gpu, done, local_vars, write_vars, call_vars>>

GpuComplete ==
  /\ done < Len(gpu)
  /\ done' = done + 1
  /\ UNCHANGED <<submission, batch_lock, lost, batch_vars, memory_vars, latest,
                 submitted, gpu, failed, pc, local_vars, hand_vars, write_vars,
                 call_vars>>

\* The queue is gone and its work is done: nothing more happens.
Finished ==
  /\ dropped /\ done = Len(gpu) /\ \A t \in Threads : pc[t] = "idle"
  /\ UNCHANGED vars

Step(t) ==
  \/ Enter(t) \/ Validate(t) \/ PollHal(t) \/ Recycle(t) \/ StageWrite(t)
  \/ StageWriteFails(t) \/ CheckThreshold(t) \/ Take(t) \/ LowerTake(t) \/ LowerWrite(t)
  \/ LowerDone(t) \/ LowerError(t) \/ LowerAbort(t) \/ HalSubmit(t)
  \/ HalSubmitFails(t)
  \/ RecordSubmission(t) \/ RetireChunks(t) \/ RetireUnread(t)
  \/ Snapshot(t) \/ WaitBegin(t) \/ Wait(t) \/ WaitFails(t)
  \/ DropWait(t)

Next ==
  \/ \E t \in Threads :
       \/ BeginLocked(t) \/ BeginPoll(t) \/ BeginWaitFor(t)
       \/ Step(t)
       \/ Drop(t)
  \/ MarkLost
  \/ GpuComplete
  \/ Finished

Spec == Init /\ [][Next]_vars

-----------------------------------------------------------------------------
(* Properties.                                                             *)

CopyType == [w : Nat, buf : Buffers, off : Nat, size : Nat \ {0}]
ChunkType == {c \in [buf : Buffers, dedicated : BOOLEAN, cursor : Nat] :
                ~c.dedicated => c.cursor <= ChunkSize}
FlightType == [index : Nat, bufs : SUBSET Buffers]
SubmissionType ==
  [copies : SUBSET CopyType, cmds : SUBSET Commands, after : Nat, ok : BOOLEAN]
Kinds == {"write", "flush", "submit", "wait_idle", "poll", "wait_for"}
Labels ==
  {"idle", "enter", "validate", "poll_hal", "recycle", "stage", "threshold",
   "take", "lower_take", "lower", "lower_abort", "hal", "record", "retire",
   "retire_latest", "snapshot", "wait_begin", "wait", "drop_wait"}

\* Types of the queue's state.
TypeOK ==
  /\ submission \in Threads \cup {NoThread}
  /\ batch_lock \in Threads \cup {NoThread}
  /\ lost \in BOOLEAN
  /\ copies \subseteq CopyType
  /\ chunks \subseteq ChunkType
  /\ current \in Buffers \cup {NoBuffer}
  /\ staged_bytes \in Nat
  /\ in_flight \in Seq(FlightType)
  /\ free \subseteq Buffers
  /\ latest \in Nat
  /\ submitted \subseteq Commands
  /\ gpu \in Seq(SubmissionType)
  /\ done \in 0 .. Len(gpu)
  /\ content \in [Buffers -> [Units -> Nat]]
  /\ pc \in [Threads -> Labels]
  /\ kind \in [Threads -> Kinds]
  /\ index \in [Threads -> Nat] /\ target \in [Threads -> Nat]
  /\ taken \subseteq CopyType /\ encoded \subseteq CopyType
  /\ held \subseteq ChunkType
  /\ cmds \subseteq Commands /\ after \in Nat
  /\ next_write \in Nat /\ ops \in Nat
  /\ accepted \subseteq Nat
  /\ failed \in BOOLEAN /\ dropped \in BOOLEAN

\* As long as a copy may still run, its staging memory holds the bytes that
\* were staged for it: no later write overlaps its range, and no chunk is
\* recycled before every submission that reads it has completed.
StagingIntact ==
  \A c \in LiveCopies : \A u \in Units :
    c.off <= u /\ u < c.off + c.size => content[c.buf][u] = c.w

\* The queue timeline has the order of the calls: a write accepted before a
\* submit is on the timeline no later than its command buffers, a write accepted
\* after it is on the timeline later, whichever thread flushed it.
WritesUpTo(i) == {c.w : c \in UNION {gpu[j].copies : j \in 1 .. i}}
QueueOrder ==
  ~failed => \A i \in DOMAIN gpu : gpu[i].cmds # {} =>
    \A w \in accepted : w < gpu[i].after <=> w \in WritesUpTo(i) 

\* A write the queue accepted is pending, taken by a submission under way or on
\* the timeline: nothing but a HAL failure or the loss of the device drops it,
\* the rejection of a later submit or a failed staging included.
NoWriteLost ==
  ~failed /\ ~lost =>
    \A w \in accepted :
      \/ \E c \in copies : c.w = w
      \/ \E c \in taken : c.w = w
      \/ w \in WritesUpTo(Len(gpu))

\* When no call is inside the submission lock, latest_submission_index covers
\* every submission the HAL accepted: what mapAsync and onSubmittedWorkDone
\* read there gates on all the work submitted before.
LatestCovers ==
  submission = NoThread => \A i \in DOMAIN gpu : gpu[i].ok => i <= latest

\* A staging buffer has one owner: the batch, a submission under way, one
\* retirement or the pool.
OneOwner ==
  /\ \A x, y \in chunks : x.buf = y.buf => x = y
  /\ Bufs(held) \cap Bufs(chunks) = {}
  /\ free \cap (Bufs(chunks) \cup Bufs(held)) = {}
  /\ \A i \in DOMAIN in_flight :
       /\ in_flight[i].bufs \cap (Bufs(chunks) \cup Bufs(held) \cup free) = {}
       /\ \A j \in DOMAIN in_flight : j # i => in_flight[i].bufs \cap in_flight[j].bufs = {}

\* Once the queue is marked lost, nothing is submitted any more, by a call that
\* was waiting for the lock or by the drop of the queue.
NothingAfterLoss == [][lost => gpu' = gpu]_vars

\* A command buffer runs at most once, however its submits race.
CommandsRunOnce ==
  \A i, j \in DOMAIN gpu : gpu[i].cmds \cap gpu[j].cmds # {} => i = j

\* Dropping the last reference to the queue waits for everything it submitted,
\* the writes that were still pending included.
DropDrains ==
  dropped /\ ~failed /\ (\A t \in Threads : pc[t] = "idle") => LiveCopies = {}

-----------------------------------------------------------------------------
(* The inductive invariant behind StagingIntact and OneOwner.              *)

\* Who is inside the `submission` lock, and who keeps the batch locked.
InSubmission(t) ==
  \/ pc[t] \in {"validate", "stage", "threshold", "take", "lower_take", "lower",
                "lower_abort", "hal", "record", "retire", "retire_latest"}
  \/ pc[t] \in {"poll_hal", "recycle"} /\ kind[t] \in {"write", "submit"}

LockInv ==
  /\ \A t \in Threads :
       /\ InSubmission(t) => submission = t
       /\ pc[t] \in {"lower", "lower_abort"} => batch_lock = t
       /\ pc[t] = "validate" => kind[t] = "submit"
       /\ pc[t] \in {"snapshot", "wait_begin", "wait"} => kind[t] \in {"wait_idle", "wait_for"}
       /\ pc[t] = "drop_wait" => dropped
       /\ dropped => pc[t] \in {"idle", "drop_wait"}
  /\ submission \in Threads => InSubmission(submission)
  /\ batch_lock \in Threads => pc[batch_lock] \in {"lower", "lower_abort"}

\* What is in the hands of the call inside `submission`, and when.
HandInv ==
  /\ (taken # {} \/ encoded # {}) =>
       submission \in Threads /\ pc[submission] \in {"lower", "lower_abort", "hal"}
  /\ held # {} =>
       \/ /\ submission \in Threads
          /\ pc[submission] \in {"lower", "lower_abort", "hal", "record", "retire",
                                 "retire_latest"}
       \/ \E t \in Threads : pc[t] = "drop_wait"
  /\ \A t \in Threads : pc[t] \in {"lower", "lower_abort"} => copies = {}

\* Indices a thread will recycle with are proven complete when it uses them.
IndexInv ==
  /\ latest <= Len(gpu)
  /\ \A t \in Threads :
       /\ pc[t] = "recycle" => index[t] <= done
       /\ pc[t] = "wait" => index[t] <= target[t]
       /\ pc[t] = "wait_begin" => index[t] <= Len(gpu)
       /\ pc[t] \in {"record", "retire"} => index[t] = Len(gpu)

\* A copy that is not on the timeline reads a chunk of the batch or of the call
\* that took it, below the chunk's cursor.
BatchInv ==
  /\ Bufs(copies) \subseteq Bufs(chunks)
  /\ Bufs(taken) \subseteq Bufs(held)
  /\ Bufs(encoded) \subseteq Bufs(held) \cup Bufs(chunks)
  /\ \A t \in Threads : pc[t] = "hal" => Bufs(encoded) \subseteq Bufs(held)
  /\ \A chunk \in chunks : \A c \in copies \cup encoded :
       c.buf = chunk.buf => c.off + c.size <= chunk.cursor

\* A copy on the timeline that may still run reads neither the batch nor the
\* pool, and no retirement of an earlier submission.
GpuInv ==
  /\ Bufs(LiveOnGpu) \cap Bufs(chunks) = {}
  /\ Bufs(LiveOnGpu) \cap free = {}
  /\ \A t \in Threads : pc[t] \in {"lower", "lower_abort", "hal", "retire_latest"}
       => Bufs(LiveOnGpu) \cap Bufs(held) = {}
  /\ \A i \in DOMAIN in_flight : \A j \in (done + 1) .. Len(gpu) :
       j > in_flight[i].index => Bufs(gpu[j].copies) \cap in_flight[i].bufs = {}

IInv ==
  /\ TypeOK /\ LockInv /\ HandInv /\ IndexInv /\ OneOwner /\ BatchInv
  /\ GpuInv /\ StagingIntact

-----------------------------------------------------------------------------
(* The invariant behind QueueOrder, NoWriteLost, CommandsRunOnce and        *)
(* DropDrains; it holds along with IInv.                                    *)

\* Write numbers are given out once, and a submit counts those before it.
NumberInv ==
  /\ after <= next_write
  /\ \A w \in accepted : w < next_write
  /\ \A c \in copies \cup taken \cup encoded : c.w < next_write
  /\ \A i \in DOMAIN gpu :
       /\ gpu[i].after <= next_write
       /\ \A c \in gpu[i].copies : c.w < next_write

\* A call that submits has taken the batch, and nobody stages a queue write while
\* command buffers are on their way.
CmdLabels == {"poll_hal", "recycle", "lower_take", "lower", "lower_abort", "hal",
              "record", "retire"}
CommandInv ==
  /\ \A t \in Threads : pc[t] = "hal" => copies = {}
  /\ cmds # {} =>
       /\ submission \in Threads /\ pc[submission] \in CmdLabels
       /\ kind[submission] = "submit"
       /\ \A w \in accepted : w < after

\* Command buffers on the timeline are marked, and those of a call that has not
\* submitted yet are not among them.
MarkInv ==
  /\ cmds \subseteq submitted
  /\ \A i \in DOMAIN gpu :
       /\ gpu[i].cmds \subseteq submitted
       /\ gpu[i].cmds \cap cmds # {} => pc[submission] \in {"record", "retire"}

\* A dropped queue has nothing pending, and has waited or is about to.
DrainInv ==
  /\ ~failed => \A i \in DOMAIN gpu : gpu[i].ok
  /\ dropped => copies = {}
  /\ dropped /\ ~failed => done = Len(gpu) \/ \E t \in Threads : pc[t] = "drop_wait"

OrderInv ==
  /\ NumberInv /\ CommandInv /\ MarkInv /\ DrainInv
  /\ NoWriteLost /\ QueueOrder /\ CommandsRunOnce

=============================================================================
