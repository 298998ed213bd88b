---------------------------- MODULE VulkanQueue ----------------------------
(***************************************************************************)
(* The Vulkan queue of the HAL and the surface that presents with it:      *)
(* submission indices and their fences (SubmissionTracker), command pools  *)
(* and fences that are used again (SubmitRecycler), what a running         *)
(* submission keeps alive (SubmissionRetireQueue, RetireRing), the layouts *)
(* a submission leaves images in (LayoutOverlay), and the semaphores that  *)
(* chain acquire, submissions and present.                                 *)
(*                                                                         *)
(* One action is one critical section of `queue_access`, `retire`,         *)
(* `submissions`, `recycler`, the surface's pending state or its FFI lock. *)
(* queue_access and retire are held over several, so they are variables.   *)
(* The device's own rules (a fence is reset only when nothing waits for    *)
(* it, a binary semaphore is signalled and waited for in turn) are what    *)
(* the invariants state.                                                   *)
(***************************************************************************)
EXTENDS Integers, Sequences, FiniteSets, SequencesExt

CONSTANTS
  Threads,     \* application threads
  NoThread,    \* a lock is free
  Fences,      \* fences of submissions that can exist at once
  Pools,       \* command pools that can exist at once
  None,        \* no fence, pool or image
  Layouts,     \* layout states of an image
  Images,      \* swapchain images, 0 .. n-1, and as many frames' sync objects
  MaxInFlight, \* MAX_IN_FLIGHT_SUBMISSIONS
  MaxRecycled, \* MAX_RECYCLED_SUBMIT_OBJECTS
  RingSize,    \* RETIRE_RING_SIZE
  Ops,         \* calls the application makes
  Faults,      \* errors the device may report
  SubmitsDuringConfigure, \* one thread submits while another configures
  MaxCalls,    \* bound: queue calls in a behaviour
  MaxAcquires, \* bound: acquired images and configurations in a behaviour
  MaxTotal,    \* bound: both together
  MaxFaults    \* bound: errors in a behaviour

\* What retains a submission's resources until its fence is signaled.
Frame == [index : Nat, fence : Fences, pool : Pools]

ASSUME VulkanAssumption ==
  /\ NoThread \notin Threads /\ IsFiniteSet(Threads)
  /\ None \notin Fences \cup Pools \cup Frame \cup Images
  /\ Layouts # {}
  /\ Images # {} /\ IsFiniteSet(Images) /\ Images = 0 .. Cardinality(Images) - 1
  /\ MaxInFlight \in Nat \ {0} /\ MaxRecycled \in Nat /\ RingSize \in Nat \ {0}
  /\ Ops \subseteq {"submit", "submit_empty", "wait", "poll", "wait_idle"}
  /\ Faults \subseteq {"create", "encode", "submit", "query", "flush",
                       "transition", "present"}
  /\ SubmitsDuringConfigure \in BOOLEAN
  /\ MaxCalls \in Nat /\ MaxAcquires \in Nat /\ MaxTotal \in Nat /\ MaxFaults \in Nat

VARIABLES
  gpu,          \* submissions the GPU accepted, in order
  done,         \* how many of them have finished
  fence_state,  \* of each submission fence: absent, unsignaled, signaled
  live_pools,   \* command pools created and not destroyed
  free_pools,   \* SubmitRecycler::pools
  free_fences,  \* SubmitRecycler::fences
  last_issued,  \* SubmissionTracker::last_issued
  completed,    \* SubmissionTracker::completed
  fences,       \* SubmissionTracker::fences: <<index, fence>>, in index order
  pinned,       \* SubmissionTracker::pinned_fences, the number of pins
  pending_destroy, \* SubmissionTracker::pending_destroy
  frames,       \* SubmissionRetireQueue::frames
  queue_access, \* holder of the queue_access mutex
  retire,       \* holder of the retire mutex
  layout,       \* the committed layout of the image the submissions use
  dropped,      \* VulkanQueueInner is dropped
  surface,      \* the surface, see Surface below
  sems,         \* value of each semaphore in queue order: 0 or 1
  image,        \* of each swapchain image: free, acquired, presented
  frame_fence,  \* of each frame's in_flight_fence: its state
  pc,           \* per thread: the next critical section, or "idle"
  call,         \* per thread: the locals of its call
  calls, acquires, faults, \* calls, acquired images and errors so far
  returned,     \* history: indices a submit has returned
  answered      \* history: indices a wait has succeeded for

gpu_vars     == <<gpu, done, layout>>
recycle_vars == <<live_pools, free_pools, free_fences>>
tracker_vars == <<last_issued, completed, fences, pinned, pending_destroy>>
surface_vars == <<surface, sems, image, frame_fence, acquires>>
history_vars == <<returned, answered>>
vars == <<gpu_vars, recycle_vars, tracker_vars, surface_vars, history_vars,
          fence_state, frames, queue_access, retire, dropped, pc, call, calls,
          faults>>

-----------------------------------------------------------------------------
(* Calls                                                                   *)

\* fence: pinned, or taken for a submit that failed; frame: submitted and not
\* yet retired; old: popped by a harvest, which then goes on at `resume`.
NoAcquire == [image |-> None, sync |-> None, consumed |-> FALSE]
NoCall == [op |-> "none", index |-> 0, fence |-> None, pool |-> None,
           from |-> None, frame |-> None, old |-> None, resume |-> "harvest",
           failed |-> FALSE, acquire |-> NoAcquire]

Return(t) ==
  /\ pc' = [pc EXCEPT ![t] = "idle"]
  /\ call' = [call EXCEPT ![t] = NoCall]

Goto(t, label) == pc' = [pc EXCEPT ![t] = label]

MayCall(t, op) ==
  /\ pc[t] = "idle" /\ ~dropped /\ op \in Ops
  /\ calls < MaxCalls /\ calls + acquires < MaxTotal

Begin(t, op, label) ==
  /\ MayCall(t, op)
  /\ calls' = calls + 1
  /\ Goto(t, label)

Configuring == {t \in Threads : pc[t] \in {"teardown", "destroy_sync", "reset_pending"}}
Submitting  == {t \in Threads : pc[t] \in {"record", "submit"}}

\* The device reports an error here.
Fails(kind) ==
  /\ kind \in Faults /\ faults < MaxFaults
  /\ faults' = faults + 1

-----------------------------------------------------------------------------
(* SubmitRecycler                                                          *)

\* The object the recycler hands out: the last returned one, or a new one.
Taken(free, absent) == IF free # <<>> THEN Last(free) ELSE CHOOSE x \in absent : TRUE
Rest(free) == IF free # <<>> THEN Front(free) ELSE free

AbsentFences == {f \in Fences : fence_state[f] = "absent"}

TakePool(p) ==
  /\ free_pools # <<>> \/ live_pools # Pools
  /\ p = Taken(free_pools, Pools \ live_pools)
  /\ free_pools' = Rest(free_pools)
  /\ live_pools' = live_pools \cup {p}

TakeFence(f) ==
  /\ free_fences # <<>> \/ AbsentFences # {}
  /\ f = Taken(free_fences, AbsentFences)
  /\ free_fences' = Rest(free_fences)

\* reset_command_pool, then kept or destroyed.
RecyclePool(p) ==
  IF Len(free_pools) < MaxRecycled
    THEN free_pools' = Append(free_pools, p) /\ UNCHANGED live_pools
    ELSE live_pools' = live_pools \ {p} /\ UNCHANGED free_pools

\* reset_fences, then kept or destroyed.
RecycleFence(f) ==
  IF Len(free_fences) < MaxRecycled
    THEN /\ free_fences' = Append(free_fences, f)
         /\ fence_state' = [fence_state EXCEPT ![f] = "unsignaled"]
    ELSE /\ fence_state' = [fence_state EXCEPT ![f] = "absent"]
         /\ UNCHANGED free_fences

-----------------------------------------------------------------------------
(* SubmissionTracker                                                       *)

MaxOf(a, b) == IF a >= b THEN a ELSE b

MarkCompleted(i) == completed' = MaxOf(completed, i)

\* The fence an index maps to, None when it has been retired.
FenceOf(i) ==
  LET at == {entry \in fences : entry[1] = i}
  IN  IF at = {} THEN None ELSE (CHOOSE entry \in at : TRUE)[2]

Unmapped(i) == {entry \in fences : entry[1] # i}

\* completed_submission_index scans unreported indices in order, up to the
\* first fence that is not signaled.
Proven ==
  LET open == {entry \in fences : fence_state[entry[2]] = "unsignaled"
                                     /\ entry[1] > completed}
      seen == {entry \in fences : \A o \in open : entry[1] < o[1]}
  IN  {completed} \cup {i \in {entry[1] : entry \in seen} : i > completed}

-----------------------------------------------------------------------------
(* Submissions                                                             *)

Acquired(i) == <<"acquired", i>>
Finished(i) == <<"finished", i>>
Ready(i)    == <<"ready", i>>
Semaphores  == {"acquired", "finished", "ready"} \X Images

\* vkQueueSubmit: one more entry of the GPU's timeline.
\* index, fence and pool of a submission; sync: the frame of a present.
Work(index, f, p, from, to, sync, waits, signals) ==
  [index |-> index, fence |-> f, pool |-> p, from |-> from, to |-> to,
   sync |-> sync, waits |-> waits, signals |-> signals]
PresentWork(sync, waits, signals, from, to) ==
  Work(0, None, None, from, to, sync, waits, signals)

SemaphoreOps(waits, signals) ==
  sems' = [s \in Semaphores |->
             sems[s] + (IF s \in signals THEN 1 ELSE 0)
                     - (IF s \in waits THEN 1 ELSE 0)]

Accept(work) ==
  /\ gpu' = Append(gpu, work)
  /\ SemaphoreOps(work.waits, work.signals)
  /\ UNCHANGED done

\* submit_copies and submit_empty start with the command pool.
BeginSubmit(t, op) ==
  /\ op \in {"submit", "submit_empty"}
  /\ SubmitsDuringConfigure \/ Configuring = {}
  /\ Begin(t, op, "record")
  /\ \E p \in Pools :
       /\ TakePool(p)
       /\ call' = [call EXCEPT ![t] = [NoCall EXCEPT !.op = op, !.pool = p]]
  /\ UNCHANGED <<gpu_vars, tracker_vars, surface_vars, history_vars, faults,
                 fence_state, free_fences, frames, queue_access, retire, dropped>>

\* Mutant: the layouts are read without waiting for the queue.
Record_Unlocked(t) ==
  /\ pc[t] = "record"
  /\ queue_access' = t
  /\ call' = [call EXCEPT ![t].from = layout]
  /\ Goto(t, "submit")
  /\ UNCHANGED <<gpu_vars, recycle_vars, tracker_vars, surface_vars,
                 history_vars, fence_state, frames, retire, dropped, calls,
                 faults>>

\* record_and_submit_copies reads the layouts under queue_access.
Record(t) ==
  /\ pc[t] = "record" /\ queue_access = NoThread
  /\ queue_access' = t
  /\ call' = [call EXCEPT ![t].from = layout]
  /\ Goto(t, "submit")
  /\ UNCHANGED <<gpu_vars, recycle_vars, tracker_vars, surface_vars,
                 history_vars, fence_state, frames, retire, dropped, calls,
                 faults>>

RecordFails(t) ==
  /\ pc[t] = "record" /\ queue_access = NoThread
  /\ Fails("encode")
  /\ Goto(t, "cleanup")
  /\ UNCHANGED <<gpu_vars, recycle_vars, tracker_vars, surface_vars,
                 history_vars, fence_state, frames, queue_access, retire,
                 dropped, call, calls>>

\* Every acquired image that no submission has waited for is waited for.
Unconsumed == surface.pending # NoAcquire /\ ~surface.pending.consumed
AcquireWaits == IF Unconsumed THEN {Acquired(surface.pending.sync)} ELSE {}
AcquireSignals == IF Unconsumed THEN {Finished(surface.pending.sync)} ELSE {}
\* Mutant: a submission leaves the acquire for the next one too.
Consume_Never == UNCHANGED surface

Consume ==
  IF surface.pending = NoAcquire THEN UNCHANGED surface
  ELSE surface' = [surface EXCEPT !.pending.consumed = TRUE]

\* take_fence, reserve, vkQueueSubmit, layout commit and register_fence, under
\* the locks of the surfaces and then of the tracker.
Submit(t) ==
  /\ pc[t] = "submit"
  /\ \E f \in Fences, to \in Layouts :
       /\ TakeFence(f)
       /\ fence_state' = [fence_state EXCEPT ![f] = "unsignaled"]
       /\ last_issued' = last_issued + 1
       /\ Accept(Work(last_issued', f, call[t].pool, call[t].from, to, None,
                      AcquireWaits, AcquireSignals))
       /\ layout' = to
       /\ fences' = fences \cup {<<last_issued', f>>}
       /\ call' = [call EXCEPT ![t].index = last_issued',
                     ![t].frame = [index |-> last_issued', fence |-> f,
                                   pool |-> call[t].pool]]
  /\ Consume
  /\ queue_access' = NoThread
  /\ Goto(t, "lock_retire")
  /\ UNCHANGED <<history_vars, live_pools, free_pools, completed, pinned,
                 pending_destroy, image, frame_fence, acquires, frames, retire,
                 dropped, calls, faults>>

\* vkCreateFence fails before an index is reserved, vkQueueSubmit after.
SubmitFails(t) ==
  /\ pc[t] = "submit"
  /\ \/ /\ Fails("create") /\ free_fences = <<>>
        /\ UNCHANGED <<call, last_issued, fence_state, free_fences>>
     \/ /\ Fails("submit")
        /\ last_issued' = last_issued + 1
        /\ \E f \in Fences :
             /\ TakeFence(f)
             /\ fence_state' = [fence_state EXCEPT ![f] = "unsignaled"]
             /\ call' = [call EXCEPT ![t].fence = f]
  /\ queue_access' = NoThread
  /\ Goto(t, "cleanup")
  /\ UNCHANGED <<gpu_vars, live_pools, free_pools, completed, fences, pinned,
                 pending_destroy, surface_vars, history_vars, frames, retire,
                 dropped, calls>>

\* Mutant: only the pool is handed back.
Cleanup_PoolOnly(t) ==
  /\ pc[t] = "cleanup"
  /\ UNCHANGED <<fence_state, free_fences>>
  /\ RecyclePool(call[t].pool)
  /\ Return(t)
  /\ UNCHANGED <<gpu_vars, tracker_vars, surface_vars, history_vars, frames,
                 queue_access, retire, dropped, calls, faults>>

\* Fence and pool that the failed submission still owns.
Cleanup(t) ==
  /\ pc[t] = "cleanup"
  /\ IF call[t].fence = None THEN UNCHANGED <<fence_state, free_fences>>
                             ELSE RecycleFence(call[t].fence)
  /\ RecyclePool(call[t].pool)
  /\ Return(t)
  /\ UNCHANGED <<gpu_vars, tracker_vars, surface_vars, history_vars, frames,
                 queue_access, retire, dropped, calls, faults>>

-----------------------------------------------------------------------------
(* SubmissionRetireQueue                                                   *)

FrontFrame == frames[1]
Signaled(f) == fence_state[f] = "signaled"

\* retire_tracked and wait_idle wait for the retire lock.
LockRetire(t) ==
  /\ pc[t] = "lock_retire" /\ retire = NoThread
  /\ retire' = t
  /\ Goto(t, "harvest")
  /\ UNCHANGED <<gpu_vars, recycle_vars, tracker_vars, surface_vars,
                 history_vars, fence_state, frames, queue_access, dropped, call,
                 calls, faults>>

\* try_harvest: never waits for the lock.
TryHarvest(t) ==
  /\ pc[t] = "try_harvest"
  /\ IF retire = NoThread
       THEN retire' = t /\ Goto(t, "harvest") /\ UNCHANGED call
       ELSE Return(t) /\ UNCHANGED retire
  /\ UNCHANGED <<gpu_vars, recycle_vars, tracker_vars, surface_vars,
                 history_vars, fence_state, frames, queue_access, dropped, calls,
                 faults>>

\* Pops the front frame: its pool is reset and goes back, its retained
\* resources are dropped.
PopFrame(t) ==
  /\ frames' = Tail(frames)
  /\ RecyclePool(FrontFrame.pool)
  /\ call' = [call EXCEPT ![t].old = FrontFrame]
  /\ Goto(t, "track")

HarvestFrame(t) ==
  /\ pc[t] = "harvest"
  /\ frames # <<>> /\ Signaled(FrontFrame.fence)
  /\ PopFrame(t)
  /\ UNCHANGED <<gpu_vars, tracker_vars, surface_vars, history_vars,
                 fence_state, free_fences, queue_access, retire, dropped, calls,
                 faults>>

Resume(t) ==
  /\ Goto(t, call[t].resume)
  /\ call' = [call EXCEPT ![t].old = None]

\* Mutant: a fence that a thread waits for is recycled.
Track_IgnoresPins(t) ==
  /\ pc[t] = "track"
  /\ MarkCompleted(call[t].old.index)
  /\ fences' = Unmapped(call[t].old.index)
  /\ Goto(t, "recycle_old")
  /\ UNCHANGED <<gpu_vars, recycle_vars, surface_vars, history_vars, fence_state,
                 last_issued, pinned, pending_destroy, frames, queue_access,
                 retire, dropped, call, calls, faults>>

\* The index is complete and no longer has a fence; a pinned fence stays
\* signaled until its last waiter has let it go.
Track(t) ==
  /\ pc[t] = "track"
  /\ MarkCompleted(call[t].old.index)
  /\ fences' = Unmapped(call[t].old.index)
  /\ LET f == call[t].old.fence
     IN  IF pinned[f] > 0
           THEN /\ pending_destroy' = pending_destroy \cup {f}
                /\ Resume(t)
           ELSE /\ Goto(t, "recycle_old")
                /\ UNCHANGED <<pending_destroy, call>>
  /\ UNCHANGED <<gpu_vars, recycle_vars, surface_vars, history_vars, fence_state,
                 last_issued, pinned, frames, queue_access, retire, dropped,
                 calls, faults>>

RecycleOld(t) ==
  /\ pc[t] = "recycle_old"
  /\ RecycleFence(call[t].old.fence)
  /\ Resume(t)
  /\ UNCHANGED <<gpu_vars, live_pools, free_pools, tracker_vars, surface_vars,
                 history_vars, frames, queue_access, retire, dropped, calls,
                 faults>>

\* Before the first frame with a higher index, since submits may reach the queue
\* out of order.
InsertFrame(frame) ==
  \E at \in 1 .. Len(frames) + 1 :
    /\ \A k \in 1 .. at - 1 : frames[k].index <= frame.index
    /\ at <= Len(frames) => frames[at].index > frame.index
    /\ frames' = InsertAt(frames, at, frame)

\* The front frame is running, or there is none.
HarvestEnds(t) ==
  /\ pc[t] = "harvest"
  /\ frames # <<>> => ~Signaled(FrontFrame.fence)
  /\ IF call[t].frame # None
       THEN /\ InsertFrame(call[t].frame)
            /\ call' = [call EXCEPT ![t].frame = None, ![t].resume = "limit"]
            /\ Goto(t, "limit")
            /\ UNCHANGED retire
       ELSE /\ retire' = NoThread
            /\ Return(t)
            /\ UNCHANGED frames
  /\ UNCHANGED <<gpu_vars, recycle_vars, tracker_vars, surface_vars,
                 history_vars, fence_state, queue_access, dropped, calls, faults>>

\* Mutant: the early return drops the frame of the submission.
HarvestFails_DropsFrame(t) ==
  /\ pc[t] = "harvest" /\ frames # <<>>
  /\ Fails("query")
  /\ retire' = NoThread
  /\ Return(t)
  /\ UNCHANGED <<gpu_vars, recycle_vars, tracker_vars, surface_vars, history_vars,
                 fence_state, frames, queue_access, dropped, calls>>

\* vkGetFenceStatus fails: the new frame is kept, the submit reports the error
\* although the GPU executes it.
HarvestFails(t) ==
  /\ pc[t] = "harvest" /\ frames # <<>>
  /\ Fails("query")
  /\ IF call[t].frame # None THEN InsertFrame(call[t].frame) ELSE UNCHANGED frames
  /\ retire' = NoThread
  /\ Return(t)
  /\ UNCHANGED <<gpu_vars, recycle_vars, tracker_vars, surface_vars,
                 history_vars, fence_state, queue_access, dropped, calls>>

\* enforce_limit waits for the oldest frame under the retire lock.
EvictFrame(t) ==
  /\ pc[t] = "limit" /\ Len(frames) > MaxInFlight
  /\ Signaled(FrontFrame.fence)
  /\ PopFrame(t)
  /\ UNCHANGED <<gpu_vars, tracker_vars, surface_vars, history_vars,
                 fence_state, free_fences, queue_access, retire, dropped, calls,
                 faults>>

EvictFails(t) ==
  /\ pc[t] = "limit" /\ Len(frames) > MaxInFlight
  /\ Fails("query")
  /\ retire' = NoThread
  /\ Return(t)
  /\ UNCHANGED <<gpu_vars, recycle_vars, tracker_vars, surface_vars,
                 history_vars, fence_state, frames, queue_access, dropped, calls>>

\* The submit returns its index; submit_empty waits for it first.
SubmitReturns(t) ==
  /\ pc[t] = "limit" /\ Len(frames) <= MaxInFlight
  /\ retire' = NoThread
  /\ IF call[t].op = "submit"
       THEN Return(t) /\ returned' = returned \cup {call[t].index}
       ELSE /\ Goto(t, "wait_test")
            /\ call' = [call EXCEPT ![t] = [NoCall EXCEPT !.op = "submit_empty",
                                              !.index = call[t].index]]
            /\ UNCHANGED returned
  /\ UNCHANGED <<gpu_vars, recycle_vars, tracker_vars, surface_vars, answered,
                 fence_state, frames, queue_access, dropped, calls, faults>>

-----------------------------------------------------------------------------
(* Waiting and polling                                                     *)

BeginWait(t) ==
  /\ Begin(t, "wait", "wait_test")
  /\ \E i \in returned :
       call' = [call EXCEPT ![t] = [NoCall EXCEPT !.op = "wait", !.index = i]]
  /\ UNCHANGED <<gpu_vars, recycle_vars, tracker_vars, surface_vars,
                 history_vars, fence_state, frames, queue_access, retire,
                 dropped, faults>>

\* wait_for_submission: complete, or pinned, or an index without a fence.
WaitTest(t) ==
  /\ pc[t] = "wait_test"
  /\ LET i == call[t].index
         f == FenceOf(i)
     IN  CASE i <= completed ->
                /\ Goto(t, "try_harvest")
                /\ answered' = answered \cup {i}
                /\ UNCHANGED <<pinned, call>>
           [] i > completed /\ f # None ->
                /\ pinned' = [pinned EXCEPT ![f] = @ + 1]
                /\ call' = [call EXCEPT ![t].fence = f]
                /\ Goto(t, "wait")
                /\ UNCHANGED answered
           [] OTHER -> Return(t) /\ UNCHANGED <<pinned, answered>>
  /\ UNCHANGED <<gpu_vars, recycle_vars, last_issued, completed, fences,
                 pending_destroy, surface_vars, returned, fence_state, frames,
                 queue_access, retire, dropped, calls, faults>>

Wait(t) ==
  /\ pc[t] = "wait" /\ Signaled(call[t].fence)
  /\ Goto(t, "unpin")
  /\ UNCHANGED <<gpu_vars, recycle_vars, tracker_vars, surface_vars,
                 history_vars, fence_state, frames, queue_access, retire,
                 dropped, call, calls, faults>>

\* Mutant: a failed wait marks the index complete as well.
WaitFails_Completes(t) ==
  /\ pc[t] = "wait"
  /\ Fails("query")
  /\ Goto(t, "unpin")
  /\ UNCHANGED <<gpu_vars, recycle_vars, tracker_vars, surface_vars,
                 history_vars, fence_state, frames, queue_access, retire,
                 dropped, call, calls>>

WaitFails(t) ==
  /\ pc[t] = "wait"
  /\ Fails("query")
  /\ call' = [call EXCEPT ![t].failed = TRUE]
  /\ Goto(t, "unpin")
  /\ UNCHANGED <<gpu_vars, recycle_vars, tracker_vars, surface_vars,
                 history_vars, fence_state, frames, queue_access, retire,
                 dropped, calls>>

\* What a waiter does after its last use of the fence.
Waited(t) ==
  IF call[t].failed THEN Return(t)
  ELSE Goto(t, "try_harvest") /\ UNCHANGED call

\* unpin_fence: the last waiter of a retired fence has to recycle it.
Unpin(t) ==
  /\ pc[t] = "unpin"
  /\ IF call[t].failed
       THEN UNCHANGED <<completed, answered>>
       ELSE /\ MarkCompleted(call[t].index)
            /\ answered' = answered \cup {call[t].index}
  /\ LET f == call[t].fence
     IN  /\ pinned' = [pinned EXCEPT ![f] = @ - 1]
         /\ IF pinned[f] = 1 /\ f \in pending_destroy
              THEN /\ pending_destroy' = pending_destroy \ {f}
                   /\ Goto(t, "recycle_waited") /\ UNCHANGED call
              ELSE Waited(t) /\ UNCHANGED pending_destroy
  /\ UNCHANGED <<gpu_vars, recycle_vars, last_issued, fences, surface_vars,
                 returned, fence_state, frames, queue_access, retire, dropped,
                 calls, faults>>

RecycleWaited(t) ==
  /\ pc[t] = "recycle_waited"
  /\ RecycleFence(call[t].fence)
  /\ Waited(t)
  /\ UNCHANGED <<gpu_vars, live_pools, free_pools, tracker_vars, surface_vars,
                 history_vars, frames, queue_access, retire, dropped, calls,
                 faults>>

\* completed_submission_index; a failed query keeps what was proven before it.
Poll(t) ==
  /\ Begin(t, "poll", "try_harvest")
  /\ \E i \in Proven : (\A j \in Proven : j <= i) /\ completed' = i
  /\ call' = [call EXCEPT ![t].op = "poll"]
  /\ UNCHANGED <<gpu_vars, recycle_vars, last_issued, fences, pinned,
                 pending_destroy, surface_vars, history_vars, fence_state,
                 frames, queue_access, retire, dropped, faults>>

PollFails(t) ==
  /\ MayCall(t, "poll") /\ Fails("query")
  /\ calls' = calls + 1
  /\ completed' \in Proven
  /\ UNCHANGED <<gpu_vars, recycle_vars, last_issued, fences, pinned,
                 pending_destroy, surface_vars, history_vars, fence_state,
                 frames, queue_access, retire, dropped, pc, call>>

\* wait_idle: the snapshot is taken under queue_access, before the wait.
BeginWaitIdle(t) ==
  /\ queue_access = NoThread
  /\ Begin(t, "wait_idle", "wait_idle")
  /\ queue_access' = t
  /\ call' = [call EXCEPT ![t] = [NoCall EXCEPT !.op = "wait_idle",
                                    !.index = last_issued]]
  /\ UNCHANGED <<gpu_vars, recycle_vars, tracker_vars, surface_vars,
                 history_vars, fence_state, frames, retire, dropped, faults>>

WaitIdle(t) ==
  /\ pc[t] = "wait_idle" /\ done = Len(gpu)
  /\ MarkCompleted(call[t].index)
  /\ queue_access' = NoThread
  /\ Goto(t, "lock_retire")
  /\ UNCHANGED <<gpu_vars, recycle_vars, last_issued, fences, pinned,
                 pending_destroy, surface_vars, history_vars, fence_state,
                 frames, retire, dropped, call, calls, faults>>

WaitIdleFails(t) ==
  /\ pc[t] = "wait_idle"
  /\ Fails("query")
  /\ queue_access' = NoThread
  /\ Return(t)
  /\ UNCHANGED <<gpu_vars, recycle_vars, tracker_vars, surface_vars,
                 history_vars, fence_state, frames, retire, dropped, calls>>

-----------------------------------------------------------------------------
(* The surface                                                             *)

NoRing == [k \in 0 .. RingSize - 1 |-> None]

\* lock: the FFI's current_texture mutex, held through a call; current: the
\* texture the application has; skipped: history, the frames whose present did
\* not reach the HAL; the rest is VulkanSurface and its pending state.
NewSurface ==
  [lock |-> NoThread, current |-> FALSE, image_index |-> None,
   pending |-> NoAcquire, next_sync |-> 0, present_error |-> FALSE,
   alive |-> TRUE, ring |-> NoRing, ring_next |-> 0, skipped |-> {}]

MayAcquire == acquires < MaxAcquires /\ calls + acquires < MaxTotal
MaySurface(t) == pc[t] = "idle" /\ ~dropped /\ surface.lock = NoThread

\* wgpuSurfaceGetCurrentTexture
GetCurrentTexture(t) ==
  /\ MaySurface(t)
  /\ ~surface.current /\ ~surface.present_error
  /\ MayAcquire
  /\ acquires' = acquires + 1
  /\ surface' = [surface EXCEPT !.lock = t]
  /\ Goto(t, "acquire")
  /\ UNCHANGED <<gpu_vars, recycle_vars, tracker_vars, history_vars, sems, image,
                 frame_fence, fence_state, frames, queue_access, retire, dropped,
                 call, calls, faults>>

\* wait_for_fences and vkAcquireNextImage, both without a timeout.
AcquireImage(t) ==
  /\ pc[t] = "acquire"
  /\ frame_fence[surface.next_sync] = "signaled"
  /\ \E i \in Images :
       /\ image[i] = "free"
       /\ image' = [image EXCEPT ![i] = "acquired"]
       /\ call' = [call EXCEPT ![t].acquire =
                     [image |-> i, sync |-> surface.next_sync, consumed |-> FALSE]]
  /\ SemaphoreOps({}, {Acquired(surface.next_sync)})
  /\ Goto(t, "acquired")
  /\ UNCHANGED <<gpu_vars, recycle_vars, tracker_vars, history_vars, surface,
                 frame_fence, acquires, fence_state, frames, queue_access,
                 retire, dropped, calls, faults>>

AcquireFails(t) ==
  /\ pc[t] = "acquire"
  /\ Fails("present")
  /\ surface' = [surface EXCEPT !.lock = NoThread]
  /\ Return(t)
  /\ UNCHANGED <<gpu_vars, recycle_vars, tracker_vars, history_vars, sems, image,
                 frame_fence, acquires, fence_state, frames, queue_access,
                 retire, dropped, calls>>

\* The retired use of the frame's fence is forgotten, then the fence is reset.
ReleaseFence(ring, sync) ==
  [k \in DOMAIN ring |-> IF ring[k] = sync THEN None ELSE ring[k]]

PublishAcquire(t) ==
  /\ pc[t] = "acquired"
  /\ LET acquire == call[t].acquire
     IN  /\ frame_fence' = [frame_fence EXCEPT ![acquire.sync] = "unsignaled"]
         /\ surface' = [surface EXCEPT
              !.ring = ReleaseFence(@, acquire.sync),
              !.next_sync = (@ + 1) % Cardinality(Images),
              !.image_index = acquire.image,
              !.pending = acquire,
              !.current = TRUE,
              !.lock = NoThread]
  /\ Return(t)
  /\ UNCHANGED <<gpu_vars, recycle_vars, tracker_vars, history_vars, sems, image,
                 acquires, fence_state, frames, queue_access, retire, dropped,
                 calls, faults>>

\* wgpuSurfacePresent forgets the texture and flushes the queue's writes.
Present(t) ==
  /\ MaySurface(t) /\ surface.image_index # None
  /\ surface' = [surface EXCEPT !.lock = t, !.current = FALSE]
  /\ Goto(t, "present")
  /\ UNCHANGED <<gpu_vars, recycle_vars, tracker_vars, history_vars, sems, image,
                 frame_fence, acquires, fence_state, frames, queue_access,
                 retire, dropped, call, calls, faults>>

\* The flush fails: the surface's present is not called.
PresentFlushFails(t) ==
  /\ MaySurface(t) /\ surface.image_index # None
  /\ Fails("flush")
  /\ surface' = [surface EXCEPT !.current = FALSE,
                                 !.skipped = @ \cup {surface.pending.sync}]
  /\ UNCHANGED <<gpu_vars, recycle_vars, tracker_vars, history_vars, sems, image,
                 frame_fence, acquires, fence_state, frames, queue_access,
                 retire, dropped, pc, call, calls>>

\* From here on no submission waits for the acquire.
TakePending(t) ==
  /\ pc[t] = "present"
  /\ call' = [call EXCEPT ![t].acquire = surface.pending]
  /\ surface' = [surface EXCEPT !.pending = NoAcquire, !.image_index = None,
                                 !.skipped = @ \ {surface.pending.sync}]
  /\ Goto(t, "transition")
  /\ UNCHANGED <<gpu_vars, recycle_vars, tracker_vars, history_vars, sems, image,
                 frame_fence, acquires, fence_state, frames, queue_access,
                 retire, dropped, calls, faults>>

PresentWaits(acquire) ==
  IF acquire.consumed THEN {Finished(acquire.sync)} ELSE {Acquired(acquire.sync)}

\* transition_swapchain_image_to_present; queue_access is kept for the ring.
Transition(t) ==
  /\ pc[t] = "transition" /\ queue_access = NoThread
  /\ LET acquire == call[t].acquire
     IN  /\ Accept(PresentWork(acquire.sync, PresentWaits(acquire),
                               {Ready(acquire.image)}, layout, "present"))
         /\ layout' = "present"
  /\ queue_access' = t
  /\ Goto(t, "ring")
  /\ UNCHANGED <<recycle_vars, tracker_vars, history_vars, surface, image,
                 frame_fence, acquires, fence_state, frames, retire, dropped,
                 call, calls, faults>>

\* Mutant: a present that fails early does not restore the fence.
TransitionFails_Returns(t) ==
  /\ pc[t] = "transition" /\ queue_access = NoThread
  /\ Fails("transition")
  /\ surface' = [surface EXCEPT !.lock = NoThread]
  /\ Return(t)
  /\ UNCHANGED <<gpu_vars, recycle_vars, tracker_vars, history_vars, sems, image,
                 frame_fence, acquires, fence_state, frames, queue_access,
                 retire, dropped, calls>>

TransitionFails(t) ==
  /\ pc[t] = "transition" /\ queue_access = NoThread
  /\ Fails("transition")
  /\ Goto(t, "recover")
  /\ UNCHANGED <<gpu_vars, recycle_vars, tracker_vars, history_vars,
                 surface_vars, fence_state, frames, queue_access, retire,
                 dropped, call, calls>>

\* An empty submission consumes the pending signal and signals the fence.
Recover(t) ==
  /\ pc[t] = "recover" /\ queue_access = NoThread
  /\ LET acquire == call[t].acquire
     IN  Accept(PresentWork(acquire.sync, PresentWaits(acquire), {}, layout,
                            layout))
  /\ surface' = [surface EXCEPT !.lock = NoThread]
  /\ Return(t)
  /\ UNCHANGED <<recycle_vars, tracker_vars, history_vars, layout, image,
                 frame_fence, acquires, fence_state, frames, queue_access,
                 retire, dropped, calls, faults>>

\* RetireRing::retire: waits for the frame in the slot it is about to reuse.
Ring(t) ==
  /\ pc[t] = "ring"
  /\ LET slot == surface.ring[surface.ring_next]
     IN  slot # None => frame_fence[slot] = "signaled"
  /\ surface' = [surface EXCEPT
       !.ring[surface.ring_next] = call[t].acquire.sync,
       !.ring_next = (@ + 1) % RingSize]
  /\ queue_access' = NoThread
  /\ Goto(t, "queue_present")
  /\ UNCHANGED <<gpu_vars, recycle_vars, tracker_vars, history_vars, sems, image,
                 frame_fence, acquires, fence_state, frames, retire, dropped,
                 call, calls, faults>>

\* vkQueuePresentKHR waits for the semaphore even when it reports an error.
QueuePresent(t) ==
  /\ pc[t] = "queue_present" /\ queue_access = NoThread
  /\ LET i == call[t].acquire.image
     IN  /\ SemaphoreOps({Ready(i)}, {})
         /\ image' = [image EXCEPT ![i] = "presented"]
  /\ \/ /\ surface' = [surface EXCEPT !.lock = NoThread]
        /\ UNCHANGED faults
     \/ /\ Fails("present")
        /\ surface' = [surface EXCEPT !.lock = NoThread, !.present_error = TRUE]
  /\ Return(t)
  /\ UNCHANGED <<gpu_vars, recycle_vars, tracker_vars, history_vars, frame_fence,
                 acquires, fence_state, frames, queue_access, retire, dropped,
                 calls>>

\* wgpuSurfaceConfigure and Unconfigure: the frames in flight are waited for.
Configure(t) ==
  /\ MaySurface(t)
  /\ SubmitsDuringConfigure \/ Submitting = {}
  /\ MayAcquire
  /\ acquires' = acquires + 1
  /\ surface' = [surface EXCEPT !.lock = t, !.current = FALSE]
  /\ Goto(t, "teardown")
  /\ UNCHANGED <<gpu_vars, recycle_vars, tracker_vars, history_vars, sems, image,
                 frame_fence, fence_state, frames, queue_access, retire, dropped,
                 call, calls, faults>>

\* wait_all_in_flight_frames, then vkDeviceWaitIdle.
TeardownIdle(t) ==
  /\ pc[t] = "teardown" /\ done = Len(gpu)
  /\ surface' = [surface EXCEPT !.ring = NoRing]
  /\ Goto(t, "destroy_sync")
  /\ UNCHANGED <<gpu_vars, recycle_vars, tracker_vars, history_vars, sems, image,
                 frame_fence, acquires, fence_state, frames, queue_access,
                 retire, dropped, call, calls, faults>>

\* The semaphores are destroyed; the pending acquire still names them.
DestroySync(t) ==
  /\ pc[t] = "destroy_sync"
  /\ surface' = [surface EXCEPT !.alive = FALSE]
  /\ Goto(t, "reset_pending")
  /\ UNCHANGED <<gpu_vars, recycle_vars, tracker_vars, history_vars, sems, image,
                 frame_fence, acquires, fence_state, frames, queue_access,
                 retire, dropped, call, calls, faults>>

\* reset_pending_state, and the new swapchain with its own sync objects.
ResetPending(t) ==
  /\ pc[t] = "reset_pending"
  /\ surface' = NewSurface
  /\ sems' = [s \in Semaphores |-> 0]
  /\ image' = [i \in Images |-> "free"]
  /\ frame_fence' = [i \in Images |-> "signaled"]
  /\ Return(t)
  /\ UNCHANGED <<gpu_vars, recycle_vars, tracker_vars, history_vars, acquires,
                 fence_state, frames, queue_access, retire, dropped, calls,
                 faults>>

-----------------------------------------------------------------------------
(* The GPU, the presentation engine and the end of the queue               *)

\* Work finishes in submission order and signals its fence.
GpuFinish ==
  /\ done < Len(gpu)
  /\ done' = done + 1
  /\ LET work == gpu[done + 1]
     IN  IF work.index # 0
           THEN /\ fence_state' = [fence_state EXCEPT ![work.fence] = "signaled"]
                /\ UNCHANGED frame_fence
           ELSE /\ frame_fence' = [frame_fence EXCEPT ![work.sync] = "signaled"]
                /\ UNCHANGED fence_state
  /\ UNCHANGED <<gpu, layout, recycle_vars, tracker_vars, history_vars, surface,
                 sems, image, acquires, frames, queue_access, retire, dropped, pc,
                 call, calls, faults>>

Running == done + 1 .. Len(gpu)

\* An image comes back when it has been shown, after its present was waited for.
ImageFree(i) ==
  /\ image[i] = "presented"
  /\ \A k \in Running : Ready(i) \notin gpu[k].signals
  /\ image' = [image EXCEPT ![i] = "free"]
  /\ UNCHANGED <<gpu_vars, recycle_vars, tracker_vars, history_vars, surface,
                 sems, frame_fence, acquires, fence_state, frames, queue_access,
                 retire, dropped, pc, call, calls, faults>>

\* VulkanQueueInner::drop: wait_all retires every frame, destroy_free follows.
Drop ==
  /\ ~dropped
  /\ \A t \in Threads : pc[t] = "idle"
  /\ \A k \in DOMAIN frames : Signaled(frames[k].fence)
  /\ dropped' = TRUE
  /\ frames' = <<>> /\ fences' = {}
  /\ free_pools' = <<>> /\ free_fences' = <<>>
  /\ LET retired == {frames[k] : k \in DOMAIN frames}
     IN  /\ live_pools' = live_pools \ ({fr.pool : fr \in retired}
                                          \cup ToSet(free_pools))
         /\ fence_state' = [f \in Fences |->
              IF f \in {fr.fence : fr \in retired} \cup ToSet(free_fences)
                THEN "absent" ELSE fence_state[f]]
         /\ completed' = IF frames = <<>> THEN completed
                         ELSE MaxOf(completed, Last(frames).index)
  /\ UNCHANGED <<gpu_vars, last_issued, pinned, pending_destroy, surface_vars,
                 history_vars, queue_access, retire, pc, call, calls, faults>>

Ended == dropped /\ UNCHANGED vars

\* A thread stays in vkWaitForFences for a frame that was never presented, or in
\* vkAcquireNextImage when every image is one that a failed present kept.
AcquireBlocked(t) ==
  /\ pc[t] = "acquire"
  /\ surface.next_sync \in surface.skipped \/ \A i \in Images : image[i] = "acquired"
  /\ UNCHANGED vars

-----------------------------------------------------------------------------

Init ==
  /\ gpu = <<>> /\ done = 0 /\ layout = "undefined"
  /\ fence_state = [f \in Fences |-> "absent"]
  /\ live_pools = {} /\ free_pools = <<>> /\ free_fences = <<>>
  /\ last_issued = 0 /\ completed = 0 /\ fences = {}
  /\ pinned = [f \in Fences |-> 0] /\ pending_destroy = {}
  /\ frames = <<>> /\ queue_access = NoThread /\ retire = NoThread
  /\ dropped = FALSE
  /\ surface = NewSurface
  /\ sems = [s \in Semaphores |-> 0]
  /\ image = [i \in Images |-> "free"]
  /\ frame_fence = [i \in Images |-> "signaled"]
  /\ pc = [t \in Threads |-> "idle"]
  /\ call = [t \in Threads |-> NoCall]
  /\ calls = 0 /\ acquires = 0 /\ faults = 0
  /\ returned = {} /\ answered = {}

SubmitStep(t) ==
  \/ \E op \in Ops : BeginSubmit(t, op)
  \/ Record(t) \/ RecordFails(t) \/ Submit(t) \/ SubmitFails(t) \/ Cleanup(t)
RetireStep(t) ==
  \/ LockRetire(t) \/ TryHarvest(t) \/ HarvestFrame(t) \/ Track(t)
  \/ RecycleOld(t) \/ HarvestEnds(t) \/ HarvestFails(t) \/ EvictFrame(t)
  \/ EvictFails(t) \/ SubmitReturns(t)
WaitStep(t) ==
  \/ BeginWait(t) \/ WaitTest(t) \/ Wait(t) \/ WaitFails(t) \/ Unpin(t)
  \/ RecycleWaited(t) \/ Poll(t) \/ PollFails(t)
  \/ BeginWaitIdle(t) \/ WaitIdle(t) \/ WaitIdleFails(t)
AcquireStep(t) ==
  \/ GetCurrentTexture(t) \/ AcquireImage(t) \/ AcquireFails(t) \/ PublishAcquire(t)
  \/ AcquireBlocked(t)
PresentStep(t) ==
  \/ Present(t) \/ PresentFlushFails(t) \/ TakePending(t) \/ Transition(t)
  \/ TransitionFails(t) \/ Recover(t) \/ Ring(t) \/ QueuePresent(t)
ConfigureStep(t) ==
  Configure(t) \/ TeardownIdle(t) \/ DestroySync(t) \/ ResetPending(t)

Next ==
  \/ \E t \in Threads : \/ SubmitStep(t) \/ RetireStep(t) \/ WaitStep(t)
                        \/ AcquireStep(t) \/ PresentStep(t) \/ ConfigureStep(t)
  \/ GpuFinish
  \/ \E i \in Images : ImageFree(i)
  \/ Drop
  \/ Ended

Spec == Init /\ [][Next]_vars

-----------------------------------------------------------------------------
(* Properties                                                              *)

\* A fence is in one place at a time, it is never reset or destroyed while a
\* submission still has to signal it or a waiter looks at it, and a wait for an
\* index that a submit returned finds its fence.
FencesIntact ==
  /\ \A k \in Running : gpu[k].index # 0 =>
       /\ fence_state[gpu[k].fence] = "unsignaled"
       /\ gpu[k].fence \notin ToSet(free_fences)
       /\ \A l \in Running \ {k} : gpu[l].fence # gpu[k].fence
  /\ \A f \in ToSet(free_fences) : fence_state[f] = "unsignaled" /\ pinned[f] = 0
  /\ \A t \in Threads : pc[t] = "wait" =>
       \E k \in DOMAIN gpu :
         /\ gpu[k].index = call[t].index /\ gpu[k].fence = call[t].fence
         /\ fence_state[call[t].fence] = IF k <= done THEN "signaled" ELSE "unsignaled"
  /\ \A t \in Threads : pc[t] = "wait_test" =>
       call[t].index <= completed \/ FenceOf(call[t].index) # None

\* While the GPU runs a submission its command pool is not reset or destroyed,
\* and a frame, queued or still in the hands of its submit, retains what it uses;
\* the command buffer of a present is in the ring.
Retaining == {frames[k] : k \in DOMAIN frames}
               \cup ({call[t].frame : t \in Threads} \ {None})
ResourcesHeld ==
  /\ \A k \in Running : gpu[k].index # 0 =>
       /\ gpu[k].pool \in live_pools \ ToSet(free_pools)
       /\ [index |-> gpu[k].index, fence |-> gpu[k].fence, pool |-> gpu[k].pool]
            \in Retaining
  /\ \A k \in Running : gpu[k].signals # {} /\ gpu[k].index = 0 =>
       \/ \E r \in 0 .. RingSize - 1 : surface.ring[r] = gpu[k].sync
       \/ \E t \in Threads : pc[t] = "ring" /\ call[t].acquire.sync = gpu[k].sync

\* Nothing that the device created is forgotten: when the queue is dropped, every
\* fence and pool of its submissions has been destroyed, errors included.
NothingLeaks ==
  dropped => live_pools = {} /\ \A f \in Fences : fence_state[f] = "absent"

\* Each submission was recorded with the layout that the one before it leaves,
\* whatever was recorded by other threads or failed in between.
LayoutsChain ==
  \A k \in DOMAIN gpu :
    gpu[k].from = IF k = 1 THEN "undefined" ELSE gpu[k - 1].to

\* Binary semaphores are signalled and waited for in turn: no acquire is waited
\* for twice or not at all before its semaphore is used again.
SemaphoresAlternate ==
  /\ \A s \in Semaphores : sems[s] \in {0, 1}
  /\ \A k \in Running : \A i \in Images :
       Acquired(i) \in gpu[k].waits => sems[Acquired(i)] = 0

\* What wgpuSurfaceGetCurrentTexture waits for without a timeout is signalled, or
\* a submission of the GPU will signal it.
WillSignal(sync) ==
  frame_fence[sync] = "signaled" \/ \E k \in Running : gpu[k].sync = sync
AcquireReturns ==
  \A t \in Threads : pc[t] = "acquire" => WillSignal(surface.next_sync)

\* It is only a frame whose present did not reach the HAL that is never signalled:
\* a present that fails later hands its fence back.
PresentedReturns ==
  \A t \in Threads :
    pc[t] = "acquire" /\ surface.next_sync \notin surface.skipped =>
      WillSignal(surface.next_sync)

\* The tracker gives the core queue the timeline that HalTimeline promises.
AcceptedIndices == {gpu[k].index : k \in DOMAIN gpu} \ {0}
Over            == {0} \cup {gpu[k].index : k \in 1 .. done}
LastOver        == CHOOSE i \in Over : \A j \in Over : j <= i
Waiting         == {"wait_test", "wait", "unpin"}
Awaited         == [t \in Threads |-> IF pc[t] \in Waiting THEN call[t].index ELSE 0]
Timeline == INSTANCE HalTimeline WITH
  Callers  <- Threads,
  issued   <- last_issued,
  accepted <- AcceptedIndices,
  finished <- LastOver,
  reported <- completed,
  awaited  <- Awaited
ImplementsTimeline == Timeline!HalSpec
=============================================================================
