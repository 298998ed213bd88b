------------------------------ MODULE MapGate ------------------------------
(***************************************************************************)
(* One buffer, its map requests and the work that uses it: the map state   *)
(* machine of yawgpu-core (buffer.rs), MapAsync and the map callback of    *)
(* the C layer (ffi/buffer.rs, ffi/mod.rs), and the part of the queue that *)
(* keeps the GPU away from a mapped buffer: validation under `submission`, *)
(* the flush of MapAsync under the same lock, and the submission gate.     *)
(*                                                                         *)
(* One action is one critical section of `state`, `submission` or the      *)
(* callback map.  Module Queue has the detail of the batch, Callbacks the  *)
(* detail of delivery; here the batch is the last write pending for this   *)
(* buffer and a callback is a request that any idle thread may deliver.    *)
(*                                                                         *)
(* The bytes of the buffer are the number of the write they come from.     *)
(***************************************************************************)
EXTENDS Integers, Sequences, FiniteSets

CONSTANTS
  Threads,      \* application threads
  NoThread,     \* the `submission` mutex is free
  Usages,       \* usages the application creates buffers with
  Events,       \* what may happen besides maps, writes and submits
  Ranges,       \* ranges it asks GetMappedRange for, <<first, end>>
  MaxMaps,      \* bound: accepted map requests in a behaviour
  MaxWrites,    \* bound: writes to the buffer in a behaviour
  MaxSubmits    \* bound: HAL submissions in a behaviour

ASSUME MapGateAssumption ==
  /\ NoThread \notin Threads
  /\ Usages \subseteq {"map_read", "map_write", "plain"}
  /\ Events \subseteq {"destroy", "release", "lose", "end_of_use", "poll_error",
                    "hal_error", "error_buffer"}
  /\ Ranges \subseteq Nat \X Nat
  /\ MaxMaps \in Nat /\ MaxWrites \in Nat /\ MaxSubmits \in Nat

VARIABLES
  usage,        \* MAP_READ | COPY_DST, MAP_WRITE | COPY_SRC, or no map usage
  direct,       \* HalBuffer::mapped_ptr is Some
  is_error, is_destroyed, map_state, pending_map, next_map_serial, active_map,
  mapped_ranges, \* BufferState
  mem, host,    \* the write the GPU memory and the HostBuffer hold
  host_kept,    \* the HostBuffer has storage
  released,     \* the WGPUBuffer handle is dropped
  submission,   \* holder of the `submission` mutex
  lost,         \* the device and its queue are lost
  staged,       \* last write pending in the batch, 0 if none
  carry,        \* what the call in `submission` is about to submit
  gpu, done,    \* submissions on the GPU timeline; how many are complete
  latest,       \* latest_submission_index
  call,         \* per thread: the call it makes and its local variables
  requests,     \* PendingCallback::BufferMap, in order of registration
  in_use,       \* the instance is in use
  newest,       \* history: number of the last accepted write
  granted,      \* history: serials whose request mapped the buffer
  ended,        \* history: serials ended by unmap, destroy or release
  misreported, refused \* history: HAL errors, with and without an effect

state_vars   == <<map_state, pending_map, active_map, mapped_ranges>>
fixed_vars   == <<usage, direct, is_error>>
life_vars    == <<is_destroyed, released, next_map_serial>>
data_vars    == <<mem, host, host_kept, newest>>
queue_vars   == <<submission, staged, carry, gpu, latest>>
gpu_vars     == <<done, lost>>
request_vars == <<requests, in_use>>
history_vars == <<granted, ended>>
error_vars   == <<misreported, refused>>
vars == <<state_vars, fixed_vars, life_vars, data_vars, queue_vars, gpu_vars,
          call, request_vars, history_vars, error_vars>>

NoMap    == [serial |-> 0, mode |-> "none"]
NoWork   == [write |-> 0, read |-> FALSE]
HalLive  == ~is_destroyed /\ ~is_error
Uses(w)  == w # NoWork
Live     == (done + 1) .. Len(gpu)

\* A call: its next critical section, and what it read: the serial of its map,
\* a submission index, `status` in MapAsync, the request it fires.
Idle == [at |-> "idle", op |-> "none", serial |-> 0, index |-> 0,
         status |-> "success", request |-> 0]

At(t, label) == call[t].at = label
Goto(t, label) == call' = [call EXCEPT ![t].at = label]
Return(t) == call' = [call EXCEPT ![t] = Idle]
Begin(t, op, label) ==
  /\ At(t, "idle")
  /\ call' = [call EXCEPT ![t].at = label, ![t].op = op]

\* A call makes at most one HAL submission.
Room == Len(gpu) + Cardinality({t \in Threads : ~At(t, "idle")}) < MaxSubmits

\* Buffer::try_new, and Buffer::new for an error buffer.
Init ==
  /\ usage \in Usages /\ direct \in BOOLEAN /\ is_error \in BOOLEAN
  /\ is_error => ~direct /\ "error_buffer" \in Events
  /\ map_state \in {"unmapped", "mapped"}  \* mappedAtCreation
  /\ active_map = IF map_state = "mapped" THEN "write" ELSE "none"
  /\ host_kept = IF is_error THEN map_state = "mapped"
                 ELSE ~direct /\ (map_state = "mapped" \/ usage # "plain")
  /\ is_destroyed = FALSE /\ released = FALSE
  /\ pending_map = NoMap /\ next_map_serial = 0 /\ mapped_ranges = {}
  /\ mem = 0 /\ host = 0 /\ newest = 0
  /\ submission = NoThread /\ lost = FALSE
  /\ staged = 0 /\ carry = NoWork /\ gpu = <<>> /\ done = 0 /\ latest = 0
  /\ call = [t \in Threads |-> Idle]
  /\ requests = <<>> /\ in_use = TRUE
  /\ granted = {} /\ ended = {} /\ misreported = FALSE /\ refused = FALSE

-----------------------------------------------------------------------------
(* Buffer state.                                                           *)

\* What every way out of a mapping does to BufferState.
ClearMap ==
  /\ map_state' = "unmapped" /\ pending_map' = NoMap
  /\ active_map' = "none" /\ mapped_ranges' = {}

\* Mutant: the serial is not compared.
CancelPending_Any(s) ==
  IF pending_map # NoMap THEN ClearMap ELSE UNCHANGED state_vars

\* cancel_pending_map(Some(s)): a stale serial changes nothing.
CancelPending(s) ==
  IF pending_map # NoMap /\ pending_map.serial = s THEN ClearMap
  ELSE UNCHANGED state_vars

\* The request the application itself ends, if one is pending.
EndPending == ended' = ended \cup ({pending_map.serial} \ {0})

\* flush_host_map: a write mapping without a direct pointer is written back;
\* the HAL may refuse.
FlushHostMap ==
  IF active_map = "write" /\ HalLive /\ ~direct
  THEN \/ mem' = host /\ UNCHANGED refused
       \/ "hal_error" \in Events /\ refused' = TRUE /\ UNCHANGED mem
  ELSE UNCHANGED <<mem, refused>>

\* Mutant: the host copy of every buffer is freed.
FreesHost_Always == TRUE

\* Buffers without a map usage cannot be mapped again.
FreesHost == usage = "plain"

UnmapCall(t) ==
  /\ At(t, "idle")
  /\ IF FreesHost THEN Begin(t, "unmap", "free_host") ELSE UNCHANGED call

\* Mutant: Unmapped is published without the write-back.
Unmap_NoFlush(t) ==
  /\ ~released /\ UnmapCall(t)
  /\ UNCHANGED <<mem, refused>> /\ EndPending /\ ClearMap
  /\ UNCHANGED <<fixed_vars, life_vars, host, host_kept, newest, queue_vars, gpu_vars,
                 request_vars, granted, misreported>>

\* Buffer::unmap up to the release of the state lock, write-back included.
Unmap(t) ==
  /\ ~released /\ UnmapCall(t)
  /\ FlushHostMap /\ EndPending /\ ClearMap
  /\ UNCHANGED <<fixed_vars, life_vars, host, host_kept, newest, queue_vars, gpu_vars,
                 request_vars, granted, misreported>>

\* The rest of Buffer::unmap, without the state lock.
FreeHost(t) ==
  /\ At(t, "free_host")
  /\ host_kept' = FALSE /\ Return(t)
  /\ UNCHANGED <<state_vars, fixed_vars, life_vars, mem, host, newest, queue_vars,
                 gpu_vars, request_vars, history_vars, error_vars>>

\* Buffer::destroy
Destroy(t) ==
  /\ "destroy" \in Events
  /\ ~released /\ At(t, "idle")
  /\ is_destroyed' = TRUE /\ host_kept' = FALSE /\ EndPending /\ ClearMap
  /\ UNCHANGED <<fixed_vars, released, next_map_serial, mem, host, newest, queue_vars,
                 gpu_vars, call, request_vars, granted, error_vars>>

\* Drop for WGPUBufferImpl: no call still holds the handle.
Release(t) ==
  /\ "release" \in Events
  /\ ~released /\ \A u \in Threads : call[u].op \notin {"map", "unmap", "write"}
  /\ At(t, "idle")
  /\ released' = TRUE
  /\ IF pending_map # NoMap THEN EndPending /\ ClearMap
     ELSE UNCHANGED <<state_vars, ended>>
  /\ UNCHANGED <<fixed_vars, is_destroyed, next_map_serial, data_vars, queue_vars,
                 gpu_vars, call, request_vars, granted, error_vars>>

RangesOverlap(a, b) == ~(a[1] >= b[2] \/ b[1] >= a[2])

\* mapped_range: a pointer to a range that overlaps no earlier one.
MappedRange(t) ==
  /\ ~released /\ At(t, "idle") /\ map_state = "mapped"
  /\ \E r \in Ranges :
       /\ \A q \in mapped_ranges : ~RangesOverlap(q, r)
       /\ mapped_ranges' = mapped_ranges \cup {r}
  /\ UNCHANGED <<map_state, pending_map, active_map, fixed_vars, life_vars, data_vars,
                 queue_vars, gpu_vars, call, request_vars, history_vars, error_vars>>

\* copy_to_mapped_range, or a store through a pointer it had.
WriteMapped(t) ==
  /\ ~released /\ At(t, "idle") /\ newest < MaxWrites
  /\ map_state = "mapped" /\ active_map = "write"
  /\ newest' = newest + 1
  /\ IF direct /\ HalLive THEN mem' = newest + 1 /\ UNCHANGED host
     ELSE host' = newest + 1 /\ UNCHANGED mem
  /\ UNCHANGED <<state_vars, fixed_vars, life_vars, host_kept, queue_vars, gpu_vars,
                 call, request_vars, history_vars, error_vars>>

-----------------------------------------------------------------------------
(* The queue.                                                              *)

\* The `submission` guard is dropped; MapAsync goes on, with the outcome of
\* its flush.
Leave(t, label) ==
  /\ submission' = NoThread /\ carry' = NoWork
  /\ IF call[t].op = "map" THEN Goto(t, label) ELSE Return(t)

BeginWrite(t) ==
  /\ ~released /\ newest < MaxWrites /\ Room /\ Begin(t, "write", "enter")
  /\ UNCHANGED <<state_vars, fixed_vars, life_vars, data_vars, queue_vars, gpu_vars,
                 request_vars, history_vars, error_vars>>

\* submit of a command buffer, or wait_idle and the other callers of a flush.
BeginQueueCall(t) ==
  /\ Room /\ \E op \in {"submit", "flush"} : Begin(t, op, "enter")
  /\ UNCHANGED <<state_vars, fixed_vars, life_vars, data_vars, queue_vars, gpu_vars,
                 request_vars, history_vars, error_vars>>

\* Work the usage flags allow a command buffer to do with the buffer.
Commands ==
  {NoWork} \cup (IF usage = "map_read" \/ is_error THEN {} ELSE {[write |-> 0, read |-> TRUE]})
           \cup (IF usage = "map_write" \/ is_error \/ newest = MaxWrites THEN {}
                 ELSE {[write |-> newest + 1, read |-> FALSE]})

\* Mutant: a pending map does not make a submit invalid.
Usable_Pending == ~is_destroyed /\ map_state # "mapped"

\* What submit and write_buffer ask of a buffer.
Usable == ~is_destroyed /\ map_state = "unmapped"

\* flush_pending_writes_locked: the pending write goes to the HAL, if any.
Flush(t) ==
  /\ staged' = 0
  /\ IF staged = 0 THEN Leave(t, "gate")
     ELSE /\ submission' = t /\ carry' = [NoWork EXCEPT !.write = staged]
          /\ Goto(t, "hal_submit")

\* Takes `submission`, tests `lost` and validates.  No other thread changes
\* `lost` or the batch while it holds the lock.
Enter(t) ==
  /\ At(t, "enter") /\ submission = NoThread
  /\ \/ lost /\ Leave(t, "gate") /\ UNCHANGED staged
     \/ ~lost /\ call[t].op \in {"map", "flush"} /\ Flush(t)
     \/ /\ ~lost /\ call[t].op = "write"
        /\ IF Usable /\ ~is_error /\ usage # "map_write"
           THEN /\ submission' = t /\ Goto(t, "stage") /\ carry' = NoWork
           ELSE Leave(t, "idle")
        /\ UNCHANGED staged
     \/ /\ ~lost /\ call[t].op = "submit"
        /\ \E work \in Commands :
             IF Uses(work) /\ ~Usable THEN Flush(t)
             ELSE /\ submission' = t /\ Goto(t, "lower") /\ carry' = work
                  /\ UNCHANGED staged
  /\ UNCHANGED <<state_vars, fixed_vars, life_vars, data_vars, gpu, latest, gpu_vars,
                 request_vars, history_vars, error_vars>>

\* The rest of write_buffer: no HAL buffer after a racing destroy, a staging
\* error, or the copy is pushed; at the threshold the batch is flushed.
Stage(t) ==
  /\ At(t, "stage")
  /\ \/ Leave(t, "idle") /\ UNCHANGED <<staged, newest>>
     \/ /\ HalLive /\ newest < MaxWrites
        /\ newest' = newest + 1
        /\ \/ staged' = newest + 1 /\ Leave(t, "idle")
           \/ /\ staged' = 0 /\ carry' = [NoWork EXCEPT !.write = newest + 1]
              /\ Goto(t, "hal_submit") /\ UNCHANGED submission
  /\ UNCHANGED <<state_vars, fixed_vars, life_vars, mem, host, host_kept, gpu, latest,
                 gpu_vars, request_vars, history_vars, error_vars>>

\* The walk of submit over its commands: queued writes go first; commands on a
\* destroyed buffer are skipped; a staging error drops the command buffers.
Lower(t) ==
  /\ At(t, "lower")
  /\ \/ /\ HalLive \/ ~Uses(carry)
        /\ carry' = [carry EXCEPT !.write = IF @ = 0 THEN staged ELSE newest + 1]
        /\ newest' = IF carry.write = 0 THEN newest ELSE newest + 1
        /\ Goto(t, "hal_submit") /\ UNCHANGED submission
     \/ /\ carry' = [NoWork EXCEPT !.write = staged]
        /\ Goto(t, "hal_submit") /\ UNCHANGED <<submission, newest>>
  /\ staged' = 0
  /\ UNCHANGED <<state_vars, fixed_vars, life_vars, mem, host, host_kept, gpu, latest,
                 gpu_vars, request_vars, history_vars, error_vars>>

\* HalQueue::submit_copies.  A refusal may come after the GPU got the work
\* (Vulkan, vkQueueSubmit and then retirement).
HalSubmit(t) ==
  /\ At(t, "hal_submit")
  /\ \/ /\ gpu' = Append(gpu, carry)
        /\ call' = [call EXCEPT ![t].at = "record", ![t].index = Len(gpu) + 1]
        /\ carry' = NoWork
        /\ UNCHANGED <<submission, error_vars>>
     \/ /\ "hal_error" \in Events
        /\ \/ gpu' = Append(gpu, carry) /\ misreported' = TRUE /\ UNCHANGED refused
           \/ refused' = TRUE /\ UNCHANGED <<gpu, misreported>>
        /\ Leave(t, "abort")
  /\ UNCHANGED <<state_vars, fixed_vars, life_vars, data_vars, staged, latest,
                 gpu_vars, request_vars, history_vars>>

\* record_submission
Record(t) ==
  /\ At(t, "record")
  /\ latest' = IF call[t].index > latest THEN call[t].index ELSE latest
  /\ Leave(t, "gate")
  /\ UNCHANGED <<state_vars, fixed_vars, life_vars, data_vars, staged, gpu, gpu_vars,
                 request_vars, history_vars, error_vars>>

\* The GPU completes submissions in order.
Complete ==
  /\ done < Len(gpu)
  /\ done' = done + 1
  /\ mem' = IF gpu[done + 1].write = 0 THEN mem ELSE gpu[done + 1].write
  /\ UNCHANGED <<state_vars, fixed_vars, life_vars, host, host_kept, newest,
                 queue_vars, lost, call, request_vars, history_vars, error_vars>>

\* Device::lose: mark_lost takes `submission` and discards the batch.
Lose(t) ==
  /\ "lose" \in Events
  /\ At(t, "idle") /\ ~lost /\ submission = NoThread
  /\ lost' = TRUE /\ staged' = 0
  /\ UNCHANGED <<state_vars, fixed_vars, life_vars, data_vars, submission, carry, gpu,
                 latest, done, call, request_vars, history_vars, error_vars>>

-----------------------------------------------------------------------------
(* MapAsync.                                                               *)

\* MapAsync on a device that is not lost.  A request that is rejected here or
\* in begin_map gets a ready callback and touches nothing.
BeginMapAsync(t) ==
  /\ ~released /\ ~lost /\ Room /\ next_map_serial < MaxMaps
  /\ Begin(t, "map", "begin_map")
  /\ UNCHANGED <<state_vars, fixed_vars, life_vars, data_vars, queue_vars, gpu_vars,
                 request_vars, history_vars, error_vars>>

Mode == CASE usage = "map_read" -> "read" [] usage = "map_write" -> "write"
          [] OTHER -> "none"

Mappable ==
  ~is_error /\ ~is_destroyed /\ map_state = "unmapped" /\ Mode # "none"

\* begin_map
BeginMap(t) ==
  /\ At(t, "begin_map")
  /\ IF Mappable /\ next_map_serial < MaxMaps
     THEN /\ next_map_serial' = next_map_serial + 1
          /\ map_state' = "pending"
          /\ pending_map' = [serial |-> next_map_serial + 1, mode |-> Mode]
          /\ active_map' = "none" /\ mapped_ranges' = {}
          /\ call' = [call EXCEPT ![t].at = "enter", ![t].serial = next_map_serial + 1]
     ELSE Return(t) /\ UNCHANGED <<state_vars, next_map_serial>>
  /\ UNCHANGED <<fixed_vars, is_destroyed, released, data_vars, queue_vars, gpu_vars,
                 request_vars, history_vars, error_vars>>

\* MapAsync after a failed flush.
Abort(t) ==
  /\ At(t, "abort")
  /\ CancelPending(call[t].serial)
  /\ call' = [call EXCEPT ![t].at = "gate", ![t].status = "error"]
  /\ UNCHANGED <<fixed_vars, life_vars, data_vars, queue_vars, gpu_vars, request_vars,
                 history_vars, error_vars>>

\* latest_submission_index, after the flush
Gate(t) ==
  /\ At(t, "gate")
  /\ call' = [call EXCEPT ![t].at = "register", ![t].index = latest]
  /\ UNCHANGED <<state_vars, fixed_vars, life_vars, data_vars, queue_vars, gpu_vars,
                 request_vars, history_vars, error_vars>>

NewRequest(t) ==
  [serial |-> call[t].serial, gate |-> call[t].index, status |-> call[t].status,
   buffer |-> TRUE, phase |-> "waiting", outcome |-> "none"]

\* The callback has run; nothing of it is left but what it reported.
Ended(serial, result) ==
  [serial |-> serial, gate |-> 0, status |-> "success", buffer |-> FALSE,
   phase |-> "done", outcome |-> result]

\* register_submission_callback: after the end of use the callback is
\* cancelled at once.
Register(t) ==
  /\ At(t, "register") /\ Return(t)
  /\ IF in_use THEN requests' = Append(requests, NewRequest(t)) /\ UNCHANGED state_vars
     ELSE /\ CancelPending(call[t].serial)
          /\ requests' = Append(requests, Ended(call[t].serial, "cancelled"))
  /\ UNCHANGED <<fixed_vars, life_vars, data_vars, queue_vars, gpu_vars, in_use,
                 history_vars, error_vars>>

-----------------------------------------------------------------------------
(* Map callbacks.                                                          *)

CancelRequest(r) ==
  IF requests[r].buffer THEN CancelPending(requests[r].serial)
  ELSE UNCHANGED state_vars

\* abort_pending_device_callbacks after a loss; polls do the same, whether the
\* gate is still set or not.
PollLost(r) ==
  /\ requests[r].phase \in {"waiting", "ready"} /\ lost
  /\ CancelRequest(r)
  /\ requests' = [requests EXCEPT ![r] =
       [@ EXCEPT !.status = "aborted", !.buffer = FALSE, !.gate = 0, !.phase = "ready"]]
  /\ UNCHANGED in_use

\* Mutant: the submission of the gate itself is not waited out exactly.
PollPassed_Strict(r) ==
  /\ requests[r].phase = "waiting" /\ ~lost
  /\ requests[r].gate < done
  /\ requests' = [requests EXCEPT ![r].gate = 0, ![r].phase = "ready"]
  /\ UNCHANGED <<state_vars, in_use>>

\* poll_submission_callbacks: the gate has passed.
PollPassed(r) ==
  /\ requests[r].phase = "waiting" /\ ~lost
  /\ requests[r].gate <= done
  /\ requests' = [requests EXCEPT ![r].gate = 0, ![r].phase = "ready"]
  /\ UNCHANGED <<state_vars, in_use>>

\* fail_submission_gate: the HAL could not say.
PollFails(r) ==
  /\ "poll_error" \in Events
  /\ requests[r].phase = "waiting" /\ ~lost
  /\ CancelRequest(r)
  /\ requests' = [requests EXCEPT ![r] =
       [@ EXCEPT !.status = "error", !.gate = 0, !.phase = "ready"]]
  /\ UNCHANGED in_use

\* release_use_ref from the last holder, then cancel_callbacks.
EndOfUse ==
  /\ "end_of_use" \in Events
  /\ in_use /\ in_use' = FALSE
  /\ UNCHANGED <<state_vars, fixed_vars, life_vars, data_vars, queue_vars, gpu_vars, call,
                 requests, history_vars, error_vars>>

\* One step per callback: more orders than the code, which takes them all out of
\* the map first.
Cancel(r) ==
  /\ ~in_use /\ requests[r].phase \in {"waiting", "ready"}
  /\ CancelRequest(r)
  /\ requests' = [requests EXCEPT ![r] = Ended(@.serial, "cancelled")]
  /\ UNCHANGED in_use

Poll ==
  /\ \E r \in DOMAIN requests : PollLost(r) \/ PollPassed(r) \/ PollFails(r) \/ Cancel(r)
  /\ UNCHANGED <<fixed_vars, life_vars, data_vars, queue_vars, gpu_vars, call,
                 history_vars, error_vars>>

\* A poll that the HAL answers.
PollAnswered ==
  /\ \E r \in DOMAIN requests : PollLost(r) \/ PollPassed(r) \/ Cancel(r)
  /\ UNCHANGED <<fixed_vars, life_vars, data_vars, queue_vars, gpu_vars, call,
                 history_vars, error_vars>>

\* A thread takes a ready callback from the map: ProcessEvents, WaitAny or a
\* registration.
Take(t) ==
  /\ At(t, "idle")
  /\ \E r \in DOMAIN requests :
       /\ requests[r].phase = "ready"
       /\ requests' = [requests EXCEPT ![r].phase = "taken"]
       /\ call' = [call EXCEPT ![t] = [@ EXCEPT !.at = "fire", !.op = "fire", !.request = r]]
  /\ UNCHANGED <<state_vars, fixed_vars, life_vars, data_vars, queue_vars, gpu_vars,
                 in_use, history_vars, error_vars>>

\* The callback runs with this status.
Report(t, result) ==
  /\ requests' = [requests EXCEPT ![call[t].request] = Ended(@.serial, result)]
  /\ Return(t)

Mine(t) == requests[call[t].request]

\* A failed request keeps its status whatever the buffer says.
Outcome(r, resolved) == IF r.status = "success" THEN resolved ELSE r.status

\* PendingCallback::fire, up to the resolution of the map.
Fire(t) ==
  /\ At(t, "fire")
  /\ LET r == Mine(t)
     IN IF lost THEN CancelRequest(call[t].request) /\ Report(t, "aborted")
        ELSE /\ IF r.buffer THEN Goto(t, "resolve") /\ UNCHANGED requests
                ELSE Report(t, r.status)
             /\ UNCHANGED state_vars
  /\ UNCHANGED <<fixed_vars, life_vars, data_vars, queue_vars, gpu_vars, in_use,
                 history_vars, error_vars>>

Current(t) == pending_map # NoMap /\ pending_map.serial = Mine(t).serial

\* resolve_pending_map_with_gpu_completion: first section.  The state lock is
\* free between the two; the hook of this caller has nothing to wait for.
ResolveTest(t) ==
  /\ At(t, "resolve")
  /\ IF Current(t) THEN Goto(t, "map") /\ UNCHANGED requests
     ELSE Report(t, Outcome(Mine(t), "aborted"))
  /\ UNCHANGED <<state_vars, fixed_vars, life_vars, data_vars, queue_vars, gpu_vars,
                 in_use, history_vars, error_vars>>

\* Ends the pending map as Mapped or, when the data could not be read, Unmapped.
Settle(t, ok) ==
  /\ map_state' = IF ok THEN "mapped" ELSE "unmapped"
  /\ active_map' = IF ok THEN pending_map.mode ELSE "none"
  /\ granted' = IF ok THEN granted \cup {pending_map.serial} ELSE granted
  /\ pending_map' = NoMap /\ mapped_ranges' = {}
  /\ Report(t, Outcome(Mine(t), IF ok THEN "success" ELSE "error"))

\* The read-back into host storage that a read map needs on a HAL buffer
\* without a direct pointer.
ReadBack == pending_map.mode = "read" /\ HalLive /\ ~direct

\* Mutant: the serial was tested in the first section only.
ResolveMap_NoRetest(t) ==
  /\ At(t, "map")
  /\ IF pending_map = NoMap
     THEN /\ Report(t, Outcome(Mine(t), "aborted"))
          /\ UNCHANGED <<state_vars, host, granted>>
     ELSE \/ /\ host' = IF ReadBack THEN mem ELSE host
             /\ Settle(t, TRUE)
          \/ "hal_error" \in Events /\ ReadBack /\ Settle(t, FALSE) /\ UNCHANGED host
  /\ UNCHANGED <<fixed_vars, life_vars, mem, host_kept, newest, queue_vars, gpu_vars,
                 in_use, ended, error_vars>>

\* resolve_pending_map_with_gpu_completion: second section.
ResolveMap(t) ==
  /\ At(t, "map")
  /\ IF ~Current(t)
     THEN /\ Report(t, Outcome(Mine(t), "aborted"))
          /\ UNCHANGED <<state_vars, host, granted>>
     ELSE \/ /\ host' = IF ReadBack THEN mem ELSE host
             /\ Settle(t, TRUE)
          \/ "hal_error" \in Events /\ ReadBack /\ Settle(t, FALSE) /\ UNCHANGED host
  /\ UNCHANGED <<fixed_vars, life_vars, mem, host_kept, newest, queue_vars, gpu_vars,
                 in_use, ended, error_vars>>

-----------------------------------------------------------------------------
Step(t) ==
  \/ FreeHost(t) \/ Enter(t) \/ Stage(t) \/ Lower(t) \/ HalSubmit(t) \/ Record(t)
  \/ BeginMap(t) \/ Abort(t) \/ Gate(t) \/ Register(t)
  \/ Fire(t) \/ ResolveTest(t) \/ ResolveMap(t)

Call(t) ==
  \/ Unmap(t) \/ Destroy(t) \/ Release(t) \/ MappedRange(t) \/ WriteMapped(t)
  \/ BeginWrite(t) \/ BeginQueueCall(t) \/ Lose(t) \/ BeginMapAsync(t) \/ Take(t)

Finished ==
  /\ \A t \in Threads : At(t, "idle")
  /\ UNCHANGED vars

Next == (\E t \in Threads : Call(t) \/ Step(t)) \/ Complete \/ Poll \/ EndOfUse \/ Finished

Spec == Init /\ [][Next]_vars

\* The GPU makes progress, calls return (a thread that waits for `submission`
\* gets it in the end), and the application processes events again and again,
\* whatever else its threads do: callbacks are polled and fired.  A poll that the
\* HAL fails is not relied on.
Fairness ==
  /\ WF_vars(Complete)
  /\ \A t \in Threads : SF_vars(Step(t))
  /\ WF_vars(PollAnswered)
  /\ SF_vars(\E t \in Threads : Take(t))

FairSpec == Spec /\ Fairness

-----------------------------------------------------------------------------
(* Properties.                                                             *)

Labels == {"idle", "free_host", "begin_map", "enter", "stage", "lower", "hal_submit",
           "record", "abort", "gate", "register", "fire", "resolve", "map"}
Ops == {"none", "map", "unmap", "write", "submit", "flush", "fire"}

\* Types of the variables.
TypeOK ==
  /\ usage \in Usages /\ direct \in BOOLEAN /\ is_error \in BOOLEAN
  /\ is_destroyed \in BOOLEAN /\ released \in BOOLEAN
  /\ map_state \in {"unmapped", "pending", "mapped"}
  /\ pending_map \in [serial : 0 .. MaxMaps, mode : {"none", "read", "write"}]
  /\ next_map_serial \in 0 .. MaxMaps
  /\ active_map \in {"none", "read", "write"}
  /\ mapped_ranges \subseteq Ranges
  /\ mem \in 0 .. newest /\ host \in 0 .. newest /\ staged \in 0 .. newest
  /\ newest \in 0 .. MaxWrites /\ host_kept \in BOOLEAN
  /\ submission \in Threads \cup {NoThread} /\ lost \in BOOLEAN
  /\ carry \in [write : 0 .. (newest + 1), read : BOOLEAN]
  /\ gpu \in Seq([write : 0 .. newest, read : BOOLEAN])
  /\ done \in 0 .. Len(gpu) /\ latest \in 0 .. Len(gpu)
  /\ call \in [Threads -> [
       at : Labels, op : Ops, serial : 0 .. MaxMaps, index : 0 .. Len(gpu),
       status : {"success", "error"}, request : 0 .. Len(requests)]]
  /\ requests \in Seq([serial : 1 .. MaxMaps, gate : 0 .. Len(gpu),
       status : {"success", "error", "aborted"}, buffer : BOOLEAN,
       phase : {"waiting", "ready", "taken", "done"},
       outcome : {"none", "success", "error", "aborted", "cancelled"}])
  /\ in_use \in BOOLEAN /\ misreported \in BOOLEAN /\ refused \in BOOLEAN
  /\ granted \subseteq 1 .. MaxMaps /\ ended \subseteq 1 .. MaxMaps

\* Work on the buffer that may touch its memory now or later.
InUse == staged # 0 \/ Uses(carry) \/ \E i \in Live : Uses(gpu[i])

\* The point of the gate: while the application has the buffer mapped, no GPU
\* work that uses it is running, queued, or on its way through a submit.  Only
\* a HAL that reports an error for work it accepted can break it, since the
\* index of that work is not recorded.
MappedIsIdle == map_state = "mapped" /\ ~misreported => ~InUse

\* What the application sees through a mapped pointer.
View == IF direct /\ HalLive THEN mem ELSE host

\* A mapping shows the last write accepted before it: queue writes, command
\* buffers and earlier mappings, through read-back and write-back.  An idle
\* buffer holds the same write in GPU memory.
UpToDate ==
  ~misreported /\ ~refused =>
    /\ map_state = "mapped" => View = newest
    /\ map_state # "mapped" /\ HalLive /\ ~lost /\ ~InUse => mem = newest

\* The fields of BufferState agree: a pending map exists exactly in Pending, an
\* active map exactly in Mapped, ranges only under an active map; a destroyed
\* buffer has none of them.
StateAgrees ==
  /\ map_state = "pending" <=> pending_map # NoMap
  /\ map_state = "mapped" <=> active_map # "none"
  /\ mapped_ranges # {} => map_state = "mapped"
  /\ is_destroyed => map_state = "unmapped"

\* A mapped buffer has memory behind its pointers: the host storage that unmap
\* frees after it released the state lock is never that of a newer mapping.
Backed == map_state = "mapped" => (direct /\ HalLive) \/ host_kept

\* The status a callback reports is what happened to the buffer: success if and
\* only if this very request mapped it (blocks 10 and 110 R4).
OutcomeTrue ==
  \A i \in DOMAIN requests : requests[i].phase = "done" =>
    (requests[i].outcome = "success" <=> requests[i].serial \in granted)

\* Requests that are under way, as far as their calls and callbacks know.
Outstanding ==
  {call[t].serial : t \in {u \in Threads :
          call[u].serial # 0 /\ call[u].status = "success"}}
  \cup {requests[i].serial : i \in {j \in DOMAIN requests :
          requests[j].phase # "done" /\ requests[j].status = "success"}}

\* Nothing but the application, or its own callback, ends a request: stale
\* aborts, callbacks and failed flushes of other requests leave it pending.
OnlyOwnAbort ==
  \A s \in Outstanding :
    s \in ended \/ (pending_map.serial = s /\ map_state = "pending")

\* A buffer does not stay pending: its request is resolved or aborted.
PendingEnds == map_state = "pending" ~> map_state # "pending"

-----------------------------------------------------------------------------
(* The inductive invariant behind StateAgrees and MappedIsIdle.  Its types  *)
(* are those the argument needs; TypeOK has the exact bounds.               *)

Works == [write : Nat, read : BOOLEAN]
Maps  == [serial : Nat, mode : {"none", "read", "write"}]
Calls == [at : Labels, op : Ops, serial : Nat, index : Nat,
          status : {"success", "error"}, request : Nat]
RequestSet == [serial : Nat, gate : Nat, status : {"success", "error", "aborted"},
               buffer : BOOLEAN, phase : {"waiting", "ready", "taken", "done"},
               outcome : {"none", "success", "error", "aborted", "cancelled"}]

Shape ==
  /\ submission \in Threads \cup {NoThread}
  /\ staged \in Nat /\ latest \in Nat /\ done \in Nat
  /\ newest \in Nat /\ next_map_serial \in Nat
  /\ carry \in Works /\ gpu \in Seq(Works)
  /\ pending_map \in Maps
  /\ call \in [Threads -> Calls] /\ requests \in Seq(RequestSet)

\* The fields of BufferState, and a map that has a mode.
AgreeInv ==
  /\ StateAgrees
  /\ pending_map # NoMap => pending_map.mode # "none"

Inside(t) == call[t].at \in {"stage", "lower", "hal_submit", "record"}

\* The `submission` mutex: who is inside, what it has in hand, and that every
\* HAL submission but the one being recorded is covered by `latest`.
LockInv ==
  /\ \A t \in Threads : Inside(t) => submission = t
  /\ submission = NoThread => carry = NoWork
  /\ lost => submission = NoThread /\ staged = 0
  /\ \A t \in Threads : call[t].at \in {"hal_submit", "record"} => staged = 0
  /\ \A t \in Threads :
       At(t, "record") => carry = NoWork /\ call[t].index = Len(gpu)
  /\ ~misreported /\ (\A t \in Threads : ~At(t, "record")) => Len(gpu) <= latest

\* No call and no request knows a serial that was not given out.
SerialInv ==
  /\ \A t \in Threads : call[t].serial <= next_map_serial
  /\ \A r \in DOMAIN requests : requests[r].serial <= next_map_serial

Fires(t) == call[t].at \in {"fire", "resolve", "map"}

\* A callback is fired by one thread, which took it.
FireInv ==
  /\ \A t \in Threads : Fires(t) =>
       /\ call[t].request \in DOMAIN requests
       /\ Mine(t).phase = "taken"
       /\ ~At(t, "fire") => Mine(t).buffer
  /\ \A t, u \in Threads :
       Fires(t) /\ Fires(u) /\ call[t].request = call[u].request => t = u

\* Nothing on its way to the GPU uses the buffer, and nothing on the GPU does
\* beyond submission k.
Quiet == staged = 0 /\ ~Uses(carry) /\ \A t \in Threads : ~At(t, "stage")
UsesUpTo(k) == \A i \in DOMAIN gpu : Uses(gpu[i]) => i <= k
Gated(k) == Quiet /\ UsesUpTo(k)

\* The flush of MapAsync makes the buffer quiet and its gate covers every use:
\* this is carried from the flush to the gate, the request and the mapping.
GateInv ==
  ~misreported =>
    /\ map_state = "mapped" => Gated(done)
    /\ map_state = "pending" =>
         /\ \A t \in Threads : call[t].serial = pending_map.serial =>
              /\ At(t, "gate") => Gated(latest)
              /\ At(t, "register") => Gated(call[t].index)
         /\ \A r \in DOMAIN requests :
              requests[r].serial = pending_map.serial /\ requests[r].buffer =>
                /\ requests[r].phase = "waiting" => Gated(requests[r].gate)
                /\ requests[r].phase \in {"ready", "taken"} => Gated(done)

IInv == Shape /\ AgreeInv /\ LockInv /\ SerialInv /\ FireInv /\ GateInv

-----------------------------------------------------------------------------
(* The invariants behind Backed, OutcomeTrue and OnlyOwnAbort; they hold    *)
(* along with IInv.                                                        *)

\* Host storage is kept for every buffer that may be mapped without a direct
\* pointer; unmap frees only that of a buffer that cannot be mapped again.
HostInv ==
  /\ is_error => ~direct
  /\ usage = "plain" \/ is_error => map_state # "pending"
  /\ map_state # "unmapped" /\ ~direct => host_kept
  /\ ~direct /\ HalLive /\ usage # "plain" => host_kept
  /\ \A t \in Threads : At(t, "free_host") => usage = "plain" /\ map_state = "unmapped"

\* The calls of MapAsync, and the serial they carry from begin_map to the
\* registration.
MapLabels == {"enter", "hal_submit", "record", "abort", "gate", "register"}
CarryInv ==
  \A t \in Threads :
    /\ At(t, "begin_map") => call[t].op = "map"
    /\ call[t].at \in {"abort", "gate", "register"} => call[t].op = "map"
    /\ call[t].op = "map" => At(t, "begin_map") \/ call[t].serial # 0
    /\ call[t].serial # 0 => call[t].op = "map" /\ call[t].at \in MapLabels

\* A serial belongs to one call and then to one request.
OwnerInv ==
  /\ \A t, u \in Threads : call[t].serial # 0 /\ call[t].serial = call[u].serial => t = u
  /\ \A t \in Threads, r \in DOMAIN requests : call[t].serial # requests[r].serial
  /\ \A q, r \in DOMAIN requests : requests[q].serial = requests[r].serial => q = r
  /\ \A r \in DOMAIN requests : requests[r].serial # 0

\* What has been granted, ended and what is pending was given out before.
PastInv ==
  /\ pending_map.serial <= next_map_serial
  /\ pending_map # NoMap => pending_map.serial # 0
  /\ granted \subseteq 1 .. next_map_serial

\* Only a request that has reported success is granted, and one that failed or
\* gave up its buffer is not pending any more.
GrantInv ==
  /\ \A t \in Threads :
       /\ call[t].serial \notin granted
       /\ call[t].status = "error" => call[t].serial \notin {0, pending_map.serial}
  /\ \A r \in DOMAIN requests :
       /\ requests[r].serial \in granted
            <=> requests[r].phase = "done" /\ requests[r].outcome = "success"
       /\ requests[r].status # "success" \/ ~requests[r].buffer
            => requests[r].serial # pending_map.serial
       /\ ~requests[r].buffer /\ requests[r].phase # "done"
            => requests[r].status # "success"

MapInv == HostInv /\ CarryInv /\ OwnerInv /\ PastInv /\ GrantInv

-----------------------------------------------------------------------------
(* The invariant behind UpToDate: where the newest write is.               *)

\* Buffers the queue does not write are written through their mappings only.
WriterInv ==
  /\ pending_map # NoMap => pending_map.mode = Mode
  /\ \A t \in Threads :
       /\ At(t, "stage") => usage # "map_write" /\ ~is_error
       /\ At(t, "lower") /\ carry.write # 0 => usage # "map_write" /\ ~is_error
  /\ (usage = "map_write" \/ is_error) /\ ~direct => host = newest
  /\ done <= Len(gpu)

Submitting == carry.write # 0 /\ \E t \in Threads : At(t, "hal_submit")

\* The last write on the GPU timeline, if any is left there, or the memory.
OnGpu(n) ==
  \/ \E i \in Live : gpu[i].write = n /\ n # 0 /\ \A j \in Live : j > i => gpu[j].write = 0
  \/ mem = n /\ \A i \in Live : gpu[i].write = 0

\* The newest write is in the batch, in the submission under way, on the GPU or
\* in memory, and no older write is behind it.
ChainInv ==
  ~misreported /\ ~refused /\ HalLive /\ ~lost /\ map_state # "mapped" =>
    /\ staged # 0 => staged = newest
    /\ Submitting => carry.write = newest
    /\ staged = 0 /\ ~Submitting => OnGpu(newest)

\* The request of the pending map has passed its gate.
Passed == \E r \in DOMAIN requests :
  /\ requests[r].serial = pending_map.serial /\ requests[r].buffer
  /\ requests[r].phase \in {"ready", "taken"}

\* What a mapping shows is the newest write, from the passing of the gate on.
ShownInv ==
  ~misreported /\ ~refused =>
    /\ map_state = "pending" /\ Passed => mem = newest
    /\ map_state = "mapped" /\ HalLive /\ (direct \/ active_map # "write") => mem = newest
    /\ map_state = "mapped" /\ ~direct => host = newest

DataInv == WriterInv /\ ChainInv /\ ShownInv
=============================================================================
