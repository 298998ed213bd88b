---------------------- MODULE VulkanQueueInvariants ----------------------
(***************************************************************************)
(* The inductive invariants of the Vulkan queue, and the kinds of steps    *)
(* their proofs tell apart; VulkanQueueProofs has the proofs.              *)
(* IInv: the types, what a call's label says of its locals, where a fence  *)
(* may be, what its state says of the work that signals it, and what       *)
(* indices a call may hold.                                                *)
(* SafeInv, on top of it: fences and pools have one owner; calls on the    *)
(* surface exclude each other; a frame's fence is signaled, claimed by an  *)
(* acquire, owed by the GPU or skipped; its semaphores are what the        *)
(* frame's place in that cycle says.                                       *)
(***************************************************************************)
EXTENDS VulkanQueue

-----------------------------------------------------------------------------
(* Types                                                                   *)

States      == {"absent", "unsignaled", "signaled"}
AllLayouts  == Layouts \cup {"undefined", "present"}
AcquireType == [image : Images \cup {None}, sync : Images \cup {None},
                consumed : BOOLEAN]
SemType     == {"acquired", "finished", "ready"} \X (Images \cup {None})
WorkType ==
  [index : Nat, fence : Fences \cup {None}, pool : Pools \cup {None},
   from : AllLayouts \cup {None}, to : AllLayouts, sync : Images \cup {None},
   waits : SUBSET SemType, signals : SUBSET SemType]
CallType ==
  [op : Ops \cup {"none"}, index : Nat, fence : Fences \cup {None},
   pool : Pools \cup {None}, from : AllLayouts \cup {None},
   frame : Frame \cup {None}, old : Frame \cup {None},
   resume : {"harvest", "limit"}, failed : BOOLEAN, acquire : AcquireType]
SurfaceType ==
  [lock : Threads \cup {NoThread}, current : BOOLEAN,
   image_index : Images \cup {None}, pending : AcquireType, next_sync : Images,
   present_error : BOOLEAN, alive : BOOLEAN,
   ring : [0 .. RingSize - 1 -> Images \cup {None}],
   ring_next : 0 .. RingSize - 1, skipped : SUBSET (Images \cup {None})]
Labels ==
  {"idle", "record", "submit", "cleanup", "lock_retire", "try_harvest",
   "harvest", "track", "recycle_old", "limit", "wait_test", "wait", "unpin",
   "recycle_waited", "wait_idle", "acquire", "acquired", "present",
   "transition", "recover", "ring", "queue_present", "teardown",
   "destroy_sync", "reset_pending"}

GpuType ==
  /\ gpu \in Seq(WorkType) /\ done \in 0 .. Len(gpu)
  /\ \A k \in DOMAIN gpu : IF gpu[k].index = 0 THEN gpu[k].fence = None
                                               ELSE gpu[k].fence \in Fences
RecycleType ==
  /\ fence_state \in [Fences -> States]
  /\ live_pools \subseteq Pools
  /\ free_pools \in Seq(Pools) /\ free_fences \in Seq(Fences)
TrackerType ==
  /\ last_issued \in Nat /\ completed \in Nat
  /\ fences \subseteq Nat \X Fences
  /\ pinned \in [Fences -> Nat] /\ pending_destroy \subseteq Fences
  /\ frames \in Seq(Frame)
CallsType ==
  /\ pc \in [Threads -> Labels]
  /\ call \in [Threads -> CallType]
SurfacesType ==
  /\ surface \in SurfaceType
  /\ image \in [Images -> {"free", "acquired", "presented"}]
  /\ frame_fence \in [Images -> States]
RestType ==
  /\ layout \in AllLayouts
  /\ queue_access \in Threads \cup {NoThread}
  /\ retire \in Threads \cup {NoThread}
  /\ dropped \in BOOLEAN

\* Where a thread is says what its call holds.
PcOK(label, c) ==
  /\ label \in {"track", "recycle_old"} => c.old # None
  /\ label \in {"wait", "unpin", "recycle_waited"} => c.fence # None
  /\ label \in {"wait_test", "wait", "unpin"} => c.index # 0
  /\ c.frame # None =>
       /\ label \in {"lock_retire", "harvest", "track", "recycle_old"}
       /\ c.frame.index = c.index
       /\ c.op \in {"submit", "submit_empty"}
  /\ c.resume = "limit" =>
       /\ label \in {"limit", "track", "recycle_old"}
       /\ c.frame = None
       /\ c.op \in {"submit", "submit_empty"}
  /\ label = "limit" => c.resume = "limit"
  /\ label \in {"record", "submit"} =>
       /\ c.fence = None
       /\ c.op \in {"submit", "submit_empty"}
  /\ label \in {"record", "submit", "cleanup"} => c.pool \in Pools
PcInv == \A t \in Threads : PcOK(pc[t], call[t])

TypeOK ==
  GpuType /\ RecycleType /\ TrackerType /\ CallsType /\ SurfacesType /\ RestType

-----------------------------------------------------------------------------
(* Uses of a fence, and the invariant about them                           *)

Key(frame) == <<frame.index, frame.fence>>

Framed  == {Key(frames[k]) : k \in DOMAIN frames}
Handed  == {Key(call[t].frame) : t \in {t \in Threads : call[t].frame # None}}
Popping(t) == pc[t] \in {"track", "recycle_old"}
Tracked == {Key(call[t].old) : t \in {t \in Threads : pc[t] = "track"}}
Popped  == {Key(call[t].old) : t \in {t \in Threads : Popping(t)}}
Looking(t) == pc[t] \in {"wait", "unpin"}
Waiter(t)  == pc[t] \in {"wait", "unpin", "recycle_waited"}
Watched == {<<call[t].index, call[t].fence>> : t \in {t \in Threads : Waiter(t)}}
Uses    == Framed \cup Handed \cup Popped \cup fences \cup Watched

\* The submission with this index is the last that was given this fence, whose
\* state says whether it has finished.
At(i, f, k) ==
  /\ k \in DOMAIN gpu /\ gpu[k].index = i /\ gpu[k].fence = f
  /\ \A l \in DOMAIN gpu : l > k => gpu[l].fence # f
  /\ fence_state[f] = IF k <= done THEN "signaled" ELSE "unsignaled"
Current(i, f) == i # 0 /\ \E k \in DOMAIN gpu : At(i, f, k)

UsesInv == \A u \in Uses : Current(u[1], u[2])

Accepted(i) == i # 0 /\ \E k \in DOMAIN gpu : gpu[k].index = i

IndexInv ==
  /\ \A k, l \in DOMAIN gpu :
       k < l /\ gpu[k].index # 0 /\ gpu[l].index # 0 => gpu[k].index < gpu[l].index
  /\ \A k \in DOMAIN gpu : gpu[k].index <= last_issued
  /\ completed <= last_issued
  /\ \A k \in DOMAIN gpu : gpu[k].index # 0 /\ gpu[k].index <= completed => k <= done
  /\ \E i \in Over : \A j \in Over : j <= i

\* What calls and results say about submissions.
CallOK(label, c) ==
  /\ label \in {"wait_test", "wait", "unpin"} => Accepted(c.index)
  /\ c.resume = "limit" => Accepted(c.index)
  /\ label = "unpin" /\ ~c.failed => \E k \in 1 .. done : gpu[k].index = c.index
  /\ label = "wait_idle" => c.index <= last_issued
CallInv ==
  /\ \A i \in returned : Accepted(i)
  /\ \A t \in Threads : CallOK(pc[t], call[t])

\* The resources of a submission are in one place.
FrameInv ==
  /\ \A k, l \in DOMAIN frames : k < l => frames[k].index < frames[l].index
  /\ \A t \in Threads : call[t].frame # None =>
       /\ \A k \in DOMAIN frames : frames[k].index # call[t].frame.index
       /\ \A u \in Threads : call[u].frame # None
                             /\ call[u].frame.index = call[t].frame.index => u = t
  /\ \A t \in Threads : Popping(t) =>
       /\ \A k \in DOMAIN frames : frames[k].index # call[t].old.index
       /\ \A u \in Threads : call[u].frame # None =>
                               call[u].frame.index # call[t].old.index
       /\ \A u \in Threads : Popping(u) /\ call[u].old.index = call[t].old.index
                               => u = t
  /\ \A k \in done + 1 .. Len(gpu) : gpu[k].index # 0 =>
       <<gpu[k].index, gpu[k].fence>> \in Framed \cup Handed

\* A fence that no submission uses is free, or one thread's to recycle.
Failed(t) == pc[t] = "cleanup" /\ call[t].fence # None
Late(t)   == pc[t] = "recycle_waited"
Free      == {free_fences[k] : k \in DOMAIN free_fences}
Held(f)   == \E u \in Framed \cup Handed \cup Popped \cup fences : u[2] = f
FreeInv ==
  /\ \A k, l \in DOMAIN free_fences : free_fences[k] = free_fences[l] => k = l
  /\ \A f \in Free : fence_state[f] = "unsignaled" /\ \A u \in Uses : u[2] # f
  /\ \A t \in Threads : Failed(t) =>
       /\ fence_state[call[t].fence] = "unsignaled"
       /\ call[t].fence \notin Free
       /\ \A u \in Uses : u[2] # call[t].fence
       /\ \A u \in Threads : Failed(u) /\ call[u].fence = call[t].fence => u = t

\* Pins.
Pins(f) == {t \in Threads : Looking(t) /\ call[t].fence = f}
PinInv ==
  /\ \A f \in Fences : pinned[f] = Cardinality(Pins(f))
  /\ \A f \in pending_destroy :
       pinned[f] > 0 /\ fence_state[f] = "signaled" /\ ~Held(f)
  /\ \A t \in Threads : Late(t) =>
       /\ pinned[call[t].fence] = 0
       /\ ~Held(call[t].fence)
       /\ \A u \in Threads : Late(u) /\ call[u].fence = call[t].fence => u = t
  /\ \A t \in Threads : pc[t] = "recycle_old" =>
       /\ pinned[call[t].old.fence] = 0
       /\ \A u \in fences : u[2] # call[t].old.fence
  /\ \A t \in Threads : pc[t] = "track" => Key(call[t].old) \in fences

\* What is not complete has its fence.
TrackInv ==
  /\ ~dropped =>
       \A k \in DOMAIN gpu : gpu[k].index > completed =>
         <<gpu[k].index, gpu[k].fence>> \in fences
  /\ fences \subseteq Framed \cup Handed \cup Tracked
  /\ Framed \cup Handed \subseteq fences

\* The queue is dropped when no call is running, and no call begins after it.
DropInv == dropped => \A t \in Threads : pc[t] = "idle"

IInv == /\ TypeOK /\ PcInv /\ UsesInv /\ IndexInv /\ CallInv /\ FrameInv
        /\ FreeInv /\ PinInv /\ TrackInv /\ DropInv

LifeInv == UsesInv /\ FrameInv /\ FreeInv /\ PinInv /\ TrackInv
Base    == TypeOK /\ PcInv /\ IndexInv /\ LifeInv

\* A thread that looks at a fence has pinned it.
PinsCounted == \A t \in Threads : Looking(t) => pinned[call[t].fence] > 0

-----------------------------------------------------------------------------
(* Steps that leave fences alone                                           *)

\* What a thread holds stays as it is.
Same(t) ==
  /\ call'[t].frame = call[t].frame
  /\ \A l \in {"track", "recycle_old", "recycle_waited"} : pc'[t] = l <=> pc[t] = l
  /\ Looking(t)' <=> Looking(t)
  /\ Failed(t)' <=> Failed(t)
  /\ Popping(t) => call'[t].old = call[t].old
  /\ Waiter(t) \/ Failed(t) =>
       call'[t].index = call[t].index /\ call'[t].fence = call[t].fence

Quiet ==
  /\ UNCHANGED <<fence_state, free_fences, fences, pinned, pending_destroy,
                 frames, done, dropped>>
  /\ completed <= completed'
  /\ \A t \in Threads : Same(t)
  /\ \/ gpu' = gpu
     \/ \E w \in WorkType : w.index = 0 /\ w.fence = None /\ gpu' = Append(gpu, w)

\* The steps that move a fence.
Busy(t) ==
  \/ Submit(t)
  \/ SubmitFails(t) /\ call' # call
  \/ Cleanup(t) /\ call[t].fence # None
  \/ HarvestFrame(t) \/ EvictFrame(t)
  \/ Track(t) \/ RecycleOld(t)
  \/ (HarvestEnds(t) \/ HarvestFails(t)) /\ call[t].frame # None
  \/ WaitTest(t) /\ Goto(t, "wait")
  \/ Unpin(t) \/ RecycleWaited(t)

\* Labels at which a call holds no fence that could move.
Plain == Labels \ {"track", "recycle_old", "recycle_waited", "wait", "unpin", "cleanup"}

\* The steps of a call on the surface, where they find and leave the thread,
\* and what they make of its call.
SurfaceStep(t) == AcquireStep(t) \/ PresentStep(t) \/ ConfigureStep(t)
SurfaceLabels  ==
  {"idle", "acquire", "acquired", "present", "transition", "recover", "ring",
   "queue_present", "teardown", "destroy_sync", "reset_pending"}
Moves(t, l, c) ==
  /\ pc' = [pc EXCEPT ![t] = l] /\ call' = [call EXCEPT ![t] = c]
  /\ c = NoCall \/ \E a \in AcquireType : c = [call[t] EXCEPT !.acquire = a]

InPop(label)  == label \in {"track", "recycle_old"}
InWait(label) == label \in {"wait", "unpin", "recycle_waited"}
InLook(label) == label \in {"wait", "unpin"}

-----------------------------------------------------------------------------
(* Indices and what is reported                                            *)

\* Every submission up to this index has finished.
Past(i) == /\ i \in Nat /\ i <= last_issued
           /\ \A k \in DOMAIN gpu : gpu[k].index # 0 /\ gpu[k].index <= i => k <= done

Kept      == /\ UNCHANGED <<gpu, done, completed>>
             /\ last_issued' = last_issued \/ last_issued' = last_issued + 1
Presented == /\ UNCHANGED <<done, completed, last_issued>>
             /\ \E w \in WorkType : w.index = 0 /\ gpu' = Append(gpu, w)
Reported  == /\ UNCHANGED <<gpu, done, last_issued>>
             /\ completed <= completed' /\ Past(completed')

HalStep == [Timeline!HalNext]_(Timeline!hal_vars)

-----------------------------------------------------------------------------
(* Layouts                                                                 *)

\* A call between reading the committed layouts and its submission, or between
\* the transition of a present and its ring entry, holds queue_access.
Excluding == {"submit", "wait_idle", "ring"}
ChainInv ==
  /\ LayoutsChain
  /\ layout = IF gpu = <<>> THEN "undefined" ELSE gpu[Len(gpu)].to
  /\ \A t \in Threads : /\ pc[t] \in Excluding => queue_access = t
                        /\ pc[t] = "submit" => call[t].from = layout

-----------------------------------------------------------------------------
(* Fences have an owner                                                    *)

\* A call has the fence of its frame, of a frame it popped, of a submission that
\* failed, or one that its last waiter recycles.
Keeps(label, c, f) ==
  \/ c.frame # None /\ c.frame.fence = f
  \/ label \in {"track", "recycle_old"} /\ c.old.fence = f
  \/ label \in {"cleanup", "recycle_waited"} /\ c.fence = f
Placed(f) == \/ f \in Free \cup pending_destroy
             \/ \E k \in DOMAIN frames : frames[k].fence = f
HomeInv == \A f \in Fences : fence_state[f] # "absent" =>
             Placed(f) \/ \E t \in Threads : Keeps(pc[t], call[t], f)

\* A step of one thread keeps track of the fences it had a hold of.
Follows(t, l, c) == \A f \in Fences : fence_state'[f] # "absent" =>
  \/ Placed(f)' \/ Keeps(l, c, f)
  \/ fence_state[f] # "absent" /\ ~Placed(f) /\ ~Keeps(pc[t], call[t], f)

-----------------------------------------------------------------------------
(* Command pools have one owner                                            *)

FreePools == {free_pools[k] : k \in DOMAIN free_pools}
Stored    == {frames[k] : k \in DOMAIN frames}
StoredPools == {x.pool : x \in Stored}
\* A call has the pool it records with, or that of its frame.
HasPool(label, c, p) ==
  \/ c.frame # None /\ c.frame.pool = p
  \/ label \in {"record", "submit", "cleanup"} /\ c.pool = p
PoolInv ==
  /\ \A k, l \in DOMAIN free_pools : free_pools[k] = free_pools[l] => k = l
  /\ FreePools \subseteq live_pools /\ StoredPools \subseteq live_pools
  /\ FreePools \cap StoredPools = {}
  /\ \A x, y \in Stored : x.pool = y.pool => x = y
  /\ \A t \in Threads, p \in Pools : HasPool(pc[t], call[t], p) =>
       /\ p \in live_pools /\ p \notin FreePools /\ p \notin StoredPools
       /\ \A u \in Threads : HasPool(pc[u], call[u], p) => u = t
  /\ \A p \in live_pools : \/ p \in FreePools \/ p \in StoredPools
                           \/ \E t \in Threads : HasPool(pc[t], call[t], p)

\* What one thread and the queue had between them they still have, each pool in
\* one place; a pool that is new was not alive, one that is gone was theirs.
Mine(t, p) == p \in FreePools \/ p \in StoredPools \/ HasPool(pc[t], call[t], p)
Trade(t, l, c) ==
  /\ \A k, m \in DOMAIN free_pools' : free_pools'[k] = free_pools'[m] => k = m
  /\ FreePools' \cap StoredPools' = {}
  /\ \A x, y \in Stored' : x.pool = y.pool => x = y
  /\ \A p \in Pools : HasPool(l, c, p) => p \notin FreePools' /\ p \notin StoredPools'
  /\ \A p \in Pools : p \in FreePools' \/ p \in StoredPools' \/ HasPool(l, c, p) =>
       p \in live_pools' /\ (Mine(t, p) \/ p \notin live_pools)
  /\ \A p \in live_pools' : \/ p \in FreePools' \/ p \in StoredPools' \/ HasPool(l, c, p)
                            \/ p \in live_pools /\ ~Mine(t, p)
  /\ \A p \in live_pools : ~Mine(t, p) => p \in live_pools'

\* Nothing changes hands.
PoolStill ==
  /\ UNCHANGED <<free_pools, live_pools, frames>>
  /\ \A u \in Threads :
       /\ call'[u].frame = call[u].frame
       /\ pc'[u] \in {"record", "submit", "cleanup"} <=> pc[u] \in {"record", "submit", "cleanup"}
       /\ pc'[u] \in {"record", "submit", "cleanup"} => call'[u].pool = call[u].pool

PoolBusy(t) ==
  \/ \E op \in Ops : BeginSubmit(t, op)
  \/ Submit(t) \/ Cleanup(t) \/ HarvestFrame(t) \/ EvictFrame(t)
  \/ (HarvestEnds(t) \/ HarvestFails(t)) /\ call[t].frame # None

PoolCase == PoolStill \/ (\E t \in Threads : PoolBusy(t)) \/ Drop

-----------------------------------------------------------------------------
(* Frames and submissions, and the end of the queue                        *)

Resources(work) == [index |-> work.index, fence |-> work.fence, pool |-> work.pool]
\* Every frame, queued or still with its submit, is that of a submission.
WorkInv == \A x \in Retaining : \E k \in DOMAIN gpu : Resources(gpu[k]) = x

EmptyInv == dropped => frames = <<>> /\ free_pools = <<>> /\ free_fences = <<>>

-----------------------------------------------------------------------------
(* The surface has one caller at a time                                    *)

Presenting  == {"transition", "recover", "ring", "queue_present"}
Configured  == {"teardown", "destroy_sync", "reset_pending"}
Surfacing   == {"acquire", "acquired", "present"} \cup Presenting \cup Configured
LockInv == \A t \in Threads : pc[t] \in Surfacing => surface.lock = t

\* The steps of a thread that has the surface's lock, or takes it.
SurfaceAct(t) ==
  \/ GetCurrentTexture(t) \/ AcquireImage(t) \/ AcquireFails(t) \/ PublishAcquire(t)
  \/ Present(t) \/ PresentFlushFails(t) \/ TakePending(t) \/ Transition(t)
  \/ TransitionFails(t) \/ Recover(t) \/ Ring(t) \/ QueuePresent(t)
  \/ Configure(t) \/ TeardownIdle(t) \/ DestroySync(t) \/ ResetPending(t)

\* The surface and the threads that use it stay as they are.
SurfaceCalls ==
  \A t \in Threads : pc[t] \in Surfacing \/ pc'[t] \in Surfacing =>
                       pc'[t] = pc[t] /\ call'[t].acquire = call[t].acquire
SurfaceStill ==
  /\ UNCHANGED <<gpu, done, surface, sems, image, frame_fence>>
  /\ SurfaceCalls

SurfaceCase ==
  \/ SurfaceStill
  \/ \E t \in Threads : Submit(t) \/ SurfaceAct(t)
  \/ GpuFinish
  \/ \E i \in Images : ImageFree(i)

-----------------------------------------------------------------------------
(* The acquired frame that is not yet presented, and its fence             *)

\* What the surface's state says to the thread that is at a label.
PendingOK(label, a) ==
  /\ label \in {"acquire", "acquired"} => ~surface.current
  /\ label = "present" => surface.image_index # None
  /\ label \in Presenting =>
       surface.pending = NoAcquire /\ a.sync \in Images /\ a.image \in Images
  /\ label = "acquired" =>
       /\ a.sync = surface.next_sync /\ a.image \in Images /\ ~a.consumed
       /\ frame_fence[surface.next_sync] = "signaled"

\* A frame that was acquired is the application's, or about to be presented or
\* forgotten, or its present did not reach the HAL.
PendingInv ==
  /\ surface.image_index # None => surface.pending # NoAcquire
  /\ surface.pending # NoAcquire =>
       /\ surface.pending.sync \in Images /\ surface.pending.image \in Images
       /\ \/ surface.current \/ surface.pending.sync \in surface.skipped
          \/ \E t \in Threads : pc[t] \in {"present"} \cup Configured
  /\ \A t \in Threads : PendingOK(pc[t], call[t].acquire)

\* The frames that the GPU still has to signal, and those that were acquired and
\* have nothing to signal them yet.
Owed   == {gpu[k].sync : k \in {k \in Running : gpu[k].index = 0}}
Claims == {s \in Images :
             \/ surface.pending # NoAcquire /\ surface.pending.sync = s
             \/ \E t \in Threads : pc[t] \in {"transition", "recover"}
                                     /\ call[t].acquire.sync = s}
Torn   == \E t \in Threads : pc[t] \in {"destroy_sync", "reset_pending"}

WorkSync ==
  /\ \A k \in DOMAIN gpu : IF gpu[k].index = 0 THEN gpu[k].sync \in Images
                                               ELSE gpu[k].sync = None
  /\ \A k, l \in Running : gpu[k].index = 0 /\ gpu[l].sync = gpu[k].sync => k = l
SyncInv ==
  /\ \A s \in Owed : frame_fence[s] = "unsignaled" /\ s \notin Claims
  /\ \A s \in Claims : frame_fence[s] = "unsignaled"
  /\ \A s \in Images : \/ frame_fence[s] = "signaled"
                       \/ s \in Claims \cup surface.skipped \cup Owed
  /\ Torn => Owed = {}

\* The command buffer of a present stays until the ring has seen its fence.
InRing(s) == \/ \E r \in 0 .. RingSize - 1 : surface.ring[r] = s
             \/ \E t \in Threads : pc[t] = "ring" /\ call[t].acquire.sync = s
RingInv == \A k \in Running : gpu[k].index = 0 /\ gpu[k].signals # {} => InRing(gpu[k].sync)

-----------------------------------------------------------------------------
(* Semaphores                                                              *)

\* The acquire is waited for by the first submission, whose own signal the
\* present waits for.
Valued(a) == /\ sems[Acquired(a.sync)] = IF a.consumed THEN 0 ELSE 1
             /\ sems[Finished(a.sync)] = IF a.consumed THEN 1 ELSE 0
Rested(s) == /\ sems[Finished(s)] = 0
             /\ \/ sems[Acquired(s)] = 0
                \/ \E t \in Threads : pc[t] = "acquired" /\ surface.next_sync = s
Showing(i) == \E t \in Threads : pc[t] \in {"ring", "queue_present"} /\ call[t].acquire.image = i
Valuing    == {"acquired", "transition", "recover"}
SemInv ==
  /\ sems \in [Semaphores -> {0, 1}]
  /\ \A s \in Images : frame_fence[s] = "signaled" \/ s \in Owed => Rested(s)
  /\ surface.pending # NoAcquire => Valued(surface.pending)
  /\ \A t \in Threads : pc[t] \in Valuing => Valued(call[t].acquire)
  /\ \A i \in Images : sems[Ready(i)] = IF Showing(i) THEN 1 ELSE 0

\* The same when t is the only thread in a call on the surface.
SemAt(t) ==
  /\ sems \in [Semaphores -> {0, 1}]
  /\ \A s \in Images : frame_fence[s] = "signaled" \/ s \in Owed =>
       /\ sems[Finished(s)] = 0
       /\ (sems[Acquired(s)] = 0 \/ (pc[t] = "acquired" /\ surface.next_sync = s))
  /\ surface.pending # NoAcquire => Valued(surface.pending)
  /\ pc[t] \in Valuing => Valued(call[t].acquire)
  /\ \A i \in Images :
       sems[Ready(i)] = IF pc[t] \in {"ring", "queue_present"} /\ call[t].acquire.image = i
                          THEN 1 ELSE 0

SplitInv == Configuring = {} \/ Submitting = {}

\* Only a call that starts makes one more thread submit.
Splits == \/ Submitting' \subseteq Submitting
          \/ \E t \in Threads, op \in Ops : BeginSubmit(t, op) /\ Submitting' \subseteq Submitting \cup {t}

\* A submission that still has to wait for an acquire finds its signal: the frame
\* is not acquired again before the GPU got there.
Unused(s, k) == /\ sems[Acquired(s)] = 0 /\ frame_fence[s] = "unsignaled"
                /\ \A l \in Running : gpu[l].sync = s => k <= l
WaitInv ==
  /\ \A k \in Running : \A s \in Images : Acquired(s) \in gpu[k].waits => Unused(s, k)
  /\ Torn => Running = {}

-----------------------------------------------------------------------------
(* The invariant                                                           *)

SafeInv ==
  /\ IInv
  /\ ChainInv /\ HomeInv /\ PoolInv /\ WorkInv /\ EmptyInv
  /\ LockInv /\ PendingInv /\ WorkSync /\ SyncInv /\ RingInv /\ SemInv

=============================================================================
