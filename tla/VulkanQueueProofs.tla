------------------------- MODULE VulkanQueueProofs -------------------------
(***************************************************************************)
(* The Vulkan queue for any number of threads, fences and submissions.     *)
(* First part: IInv.  TypeStep and PcStep keep the types and what a call's *)
(* label says of its locals; most steps move no fence (QuietStep,          *)
(* QuietKeeps); the others have a lemma each, and LifeStep puts them       *)
(* together.  The fences are intact, and the tracker gives the core queue  *)
(* the timeline of HalTimeline: what it reports and answers has finished,  *)
(* whatever order threads harvest, evict and wait in, and whichever Vulkan *)
(* calls fail.                                                             *)
(* Second part: SafeInv.  Layouts chain, resources are retained and        *)
(* destroyed, acquires return and semaphores alternate.                    *)
(***************************************************************************)
EXTENDS VulkanQueueInvariants, FiniteSetTheorems, TLAPS

-----------------------------------------------------------------------------
(* Uses of a fence                                                         *)

USE DEF gpu_vars, recycle_vars, tracker_vars, surface_vars, history_vars

-----------------------------------------------------------------------------
(* Types are kept                                                          *)

LEMMA NoCallTyped == NoCall \in CallType
  BY DEF NoCall, CallType, NoAcquire, AcquireType

\* What the actions change in a call keeps its type.
LEMMA EditTyped ==
  ASSUME NEW c \in CallType
  PROVE  /\ \A x \in AllLayouts : [c EXCEPT !.from = x] \in CallType
         /\ \A x \in Fences : [c EXCEPT !.fence = x] \in CallType
         /\ \A x \in Frame \cup {None} : [c EXCEPT !.old = x] \in CallType
         /\ \A i \in Nat, x \in Frame :
              [c EXCEPT !.index = i, !.frame = x] \in CallType
         /\ [c EXCEPT !.frame = None, !.resume = "limit"] \in CallType
         /\ [c EXCEPT !.failed = TRUE] \in CallType
         /\ \A x \in AcquireType : [c EXCEPT !.acquire = x] \in CallType
         /\ \A o \in Ops : [c EXCEPT !.op = o] \in CallType
         /\ \A o \in Ops, i \in Nat : [c EXCEPT !.op = o, !.index = i] \in CallType
         /\ \A o \in Ops, p \in Pools : [c EXCEPT !.op = o, !.pool = p] \in CallType
<1>1. \A x \in AllLayouts : [c EXCEPT !.from = x] \in CallType
  BY DEF CallType
<1>2. \A x \in Fences : [c EXCEPT !.fence = x] \in CallType
  BY DEF CallType
<1>3. \A x \in Frame \cup {None} : [c EXCEPT !.old = x] \in CallType
  BY DEF CallType
<1>4. \A i \in Nat, x \in Frame : [c EXCEPT !.index = i, !.frame = x] \in CallType
  BY DEF CallType
<1>5. [c EXCEPT !.frame = None, !.resume = "limit"] \in CallType
  BY DEF CallType
<1>6. [c EXCEPT !.failed = TRUE] \in CallType
  BY DEF CallType
<1>7. \A x \in AcquireType : [c EXCEPT !.acquire = x] \in CallType
  BY DEF CallType
<1>8. \A o \in Ops : [c EXCEPT !.op = o] \in CallType
  BY DEF CallType
<1>9. \A o \in Ops, i \in Nat : [c EXCEPT !.op = o, !.index = i] \in CallType
  BY DEF CallType
<1>10. \A o \in Ops, p \in Pools : [c EXCEPT !.op = o, !.pool = p] \in CallType
  BY DEF CallType
<1>. QED BY Zenon, <1>1, <1>2, <1>3, <1>4, <1>5, <1>6, <1>7, <1>8, <1>9, <1>10

LEMMA WorkTyped ==
  ASSUME NEW i \in Nat, NEW f \in Fences \cup {None}, NEW p \in Pools \cup {None},
         NEW from \in AllLayouts \cup {None}, NEW to \in AllLayouts,
         NEW sync \in Images \cup {None},
         NEW w \in SUBSET SemType, NEW s \in SUBSET SemType
  PROVE  [index |-> i, fence |-> f, pool |-> p, from |-> from, to |-> to,
          sync |-> sync, waits |-> w, signals |-> s] \in WorkType
  BY DEF WorkType

\* What submissions and presents wait for and signal.
LEMMA SemsTyped ==
  ASSUME SurfacesType
  PROVE  /\ AcquireWaits \subseteq SemType /\ AcquireSignals \subseteq SemType
         /\ \A a \in AcquireType : /\ PresentWaits(a) \subseteq SemType
                                 /\ {Ready(a.image)} \subseteq SemType
                                 /\ a.sync \in Images \cup {None}
<1>1. surface.pending \in AcquireType
  BY DEF SurfacesType, SurfaceType
<1>2. \A a \in AcquireType : a.sync \in Images \cup {None} /\ a.image \in Images \cup {None}
  BY DEF AcquireType
<1>3. \A x \in Images \cup {None} : Acquired(x) \in SemType /\ Finished(x) \in SemType
                                  /\ Ready(x) \in SemType
  BY DEF Acquired, Finished, Ready, SemType
<1>. QED BY <1>1, <1>2, <1>3 DEF AcquireWaits, AcquireSignals, PresentWaits

\* A submission appends one entry with an index, a present one without.
LEMMA SubmitShape ==
  ASSUME TypeOK, PcInv, NEW t \in Threads, Submit(t)
  PROVE  \E f \in Fences, w \in WorkType :
           /\ TakeFence(f) /\ gpu' = Append(gpu, w)
           /\ w.index = last_issued + 1 /\ w.fence = f /\ w.pool = call[t].pool
           /\ w.from = call[t].from /\ w.to = layout' /\ w.sync = None
           /\ w.waits = AcquireWaits /\ w.signals = AcquireSignals
           /\ fence_state' = [fence_state EXCEPT ![f] = "unsignaled"]
           /\ fences' = fences \cup {<<last_issued + 1, f>>}
           /\ call' = [call EXCEPT ![t].index = last_issued + 1,
                         ![t].frame = [index |-> last_issued + 1, fence |-> f,
                                       pool |-> call[t].pool]]
<1>1. PICK f \in Fences, to \in Layouts :
        /\ TakeFence(f) /\ fence_state' = [fence_state EXCEPT ![f] = "unsignaled"]
        /\ last_issued' = last_issued + 1 /\ layout' = to
        /\ gpu' = Append(gpu, Work(last_issued', f, call[t].pool, call[t].from, to,
                                   None, AcquireWaits, AcquireSignals))
        /\ fences' = fences \cup {<<last_issued', f>>}
        /\ call' = [call EXCEPT ![t].index = last_issued',
                      ![t].frame = [index |-> last_issued', fence |-> f,
                                    pool |-> call[t].pool]]
  BY DEF Submit, Accept
<1> DEFINE w == [index |-> last_issued + 1, fence |-> f, pool |-> call[t].pool,
                 from |-> call[t].from, to |-> to, sync |-> None,
                 waits |-> AcquireWaits, signals |-> AcquireSignals]
<1>2. Work(last_issued + 1, f, call[t].pool, call[t].from, to, None, AcquireWaits,
           AcquireSignals) = w
  BY DEF Work
<1>3. call[t].pool \in Pools \cup {None} /\ call[t].from \in AllLayouts \cup {None}
  BY DEF TypeOK, CallsType, CallType
<1>4. last_issued + 1 \in Nat /\ to \in AllLayouts
  BY <1>1 DEF TypeOK, TrackerType, AllLayouts
<1>5. w \in WorkType
  BY <1>1, <1>3, <1>4, SemsTyped, WorkTyped DEF TypeOK
<1>6. gpu' = Append(gpu, w)
  BY <1>1, <1>2
<1>. QED BY <1>1, <1>5, <1>6

LEMMA PresentShape ==
  ASSUME TypeOK, NEW t \in Threads, Transition(t) \/ Recover(t)
  PROVE  \E w \in WorkType :
           /\ w.index = 0 /\ w.fence = None /\ gpu' = Append(gpu, w)
           /\ w.from = layout /\ w.to = layout' /\ w.sync = call[t].acquire.sync
           /\ w.waits = PresentWaits(call[t].acquire)
           /\ pc[t] = "transition" => w.signals = {Ready(call[t].acquire.image)}
           /\ pc[t] = "recover" => w.signals = {}
<1> DEFINE a == call[t].acquire
<1>1. a \in AcquireType /\ layout \in AllLayouts /\ "present" \in AllLayouts
  BY DEF TypeOK, CallsType, CallType, RestType, AllLayouts
<1>2. CASE Transition(t)
  <2>1. PresentWork(a.sync, PresentWaits(a), {Ready(a.image)}, layout, "present")
          = [index |-> 0, fence |-> None, pool |-> None, from |-> layout,
            to |-> "present", sync |-> a.sync,
            waits |-> PresentWaits(a), signals |-> {Ready(a.image)}]
    BY DEF PresentWork, Work
  <2>2. [index |-> 0, fence |-> None, pool |-> None, from |-> layout,
         to |-> "present", sync |-> a.sync,
         waits |-> PresentWaits(a), signals |-> {Ready(a.image)}] \in WorkType
    BY <1>1, SemsTyped, WorkTyped DEF TypeOK
  <2>. QED BY <1>2, <2>1, <2>2 DEF Transition, Accept
<1>3. CASE Recover(t)
  <2>1. PresentWork(a.sync, PresentWaits(a), {}, layout, layout)
          = [index |-> 0, fence |-> None, pool |-> None, from |-> layout,
            to |-> layout, sync |-> a.sync,
            waits |-> PresentWaits(a), signals |-> {}]
    BY DEF PresentWork, Work
  <2>2. [index |-> 0, fence |-> None, pool |-> None, from |-> layout,
         to |-> layout, sync |-> a.sync,
         waits |-> PresentWaits(a), signals |-> {}] \in WorkType
    BY <1>1, SemsTyped, WorkTyped DEF TypeOK
  <2>. QED BY <1>3, <2>1, <2>2 DEF Recover, Accept
<1>. QED BY <1>2, <1>3

\* A call on the surface leaves the queue's own state alone, but for one
\* submission without an index; of its call it only sets the acquire.
LEMMA SurfaceMove ==
  ASSUME TypeOK, NEW t \in Threads, SurfaceStep(t)
  PROVE  /\ pc[t] \in SurfaceLabels
         /\ \E l \in SurfaceLabels, c \in CallType : Moves(t, l, c)
         /\ UNCHANGED <<recycle_vars, tracker_vars, history_vars, done, fence_state,
                        frames, retire, dropped>>
         /\ \/ gpu' = gpu
            \/ \E w \in WorkType : w.index = 0 /\ w.fence = None /\ gpu' = Append(gpu, w)
<1>0. call[t] \in CallType
  BY DEF TypeOK, CallsType
<1>. /\ CallsType /\ surface.pending \in AcquireType /\ surface.next_sync \in Images
     /\ call[t].acquire \in AcquireType /\ NoCall \in CallType
  BY <1>0, NoCallTyped DEF TypeOK, CallType, SurfacesType, SurfaceType
<1>. \A a \in AcquireType : [call[t] EXCEPT !.acquire = a] \in CallType
  BY Zenon, <1>0, EditTyped
<1>1. CASE \/ GetCurrentTexture(t) \/ Present(t) \/ Transition(t) \/ TransitionFails(t)
           \/ Ring(t) \/ Configure(t) \/ TeardownIdle(t) \/ DestroySync(t)
  <2>1. /\ pc[t] \in SurfaceLabels /\ UNCHANGED call
        /\ \E l \in SurfaceLabels : Goto(t, l)
    BY <1>1 DEF GetCurrentTexture, Present, Transition, TransitionFails, Ring, Configure,
                TeardownIdle, DestroySync, MaySurface, SurfaceLabels
  <2>2. call' = [call EXCEPT ![t] = [call[t] EXCEPT !.acquire = call[t].acquire]]
    BY <2>1 DEF CallsType, CallType
  <2>3. \E l \in SurfaceLabels, c \in CallType : Moves(t, l, c)
    BY <2>1, <2>2 DEF Goto, Moves
  <2>. QED BY <1>1, <2>1, <2>3, PresentShape DEF GetCurrentTexture, Present, Transition,
              TransitionFails, Ring, Configure, TeardownIdle, DestroySync, Accept
<1>2. CASE \/ AcquireFails(t) \/ PublishAcquire(t) \/ Recover(t) \/ QueuePresent(t)
           \/ ResetPending(t)
  <2>1. pc[t] \in SurfaceLabels /\ Return(t)
    BY <1>2 DEF AcquireFails, PublishAcquire, Recover, QueuePresent, ResetPending,
                SurfaceLabels
  <2>2. \E l \in SurfaceLabels, c \in CallType : Moves(t, l, c)
    BY <2>1 DEF Return, Moves, SurfaceLabels
  <2>. QED BY <1>2, <2>1, <2>2, PresentShape DEF AcquireFails, PublishAcquire, Recover,
              QueuePresent, ResetPending, Accept
<1>3. CASE AcquireImage(t) \/ TakePending(t)
  <2>1. /\ pc[t] \in SurfaceLabels
        /\ \E l \in SurfaceLabels : Goto(t, l)
        /\ \E a \in AcquireType : call' = [call EXCEPT ![t].acquire = a]
    BY <1>3 DEF AcquireImage, TakePending, SurfaceLabels, AcquireType
  <2>2. \E l \in SurfaceLabels, c \in CallType : Moves(t, l, c)
    BY <2>1 DEF Goto, Moves
  <2>. QED BY <1>3, <2>1, <2>2 DEF AcquireImage, TakePending
<1>4. CASE AcquireBlocked(t) \/ PresentFlushFails(t)
  <2>1. pc[t] \in SurfaceLabels /\ UNCHANGED <<pc, call>>
    BY <1>4 DEF AcquireBlocked, PresentFlushFails, MaySurface, SurfaceLabels, vars
  <2>2. /\ pc' = [pc EXCEPT ![t] = pc[t]]
        /\ call' = [call EXCEPT ![t] = [call[t] EXCEPT !.acquire = call[t].acquire]]
    BY <2>1 DEF CallsType, CallType
  <2>3. \E l \in SurfaceLabels, c \in CallType : Moves(t, l, c)
    BY <2>1, <2>2 DEF Moves
  <2>. QED BY <1>4, <2>1, <2>3 DEF AcquireBlocked, PresentFlushFails, vars
<1>. QED BY <1>1, <1>2, <1>3, <1>4 DEF SurfaceStep, AcquireStep, PresentStep, ConfigureStep

LEMMA MoveFacts ==
  ASSUME CallsType, PcInv, NEW t \in Threads, pc[t] \in SurfaceLabels,
         NEW l \in SurfaceLabels, NEW c \in CallType, Moves(t, l, c)
  PROVE  /\ pc' = [pc EXCEPT ![t] = l] /\ call' = [call EXCEPT ![t] = c]
         /\ l \in Labels /\ c.frame = call[t].frame /\ c.index \in Nat
         /\ c.resume # "limit" /\ PcOK(l, c)
<1>1. call[t] \in CallType /\ call[t].frame = None /\ call[t].resume # "limit"
  BY DEF PcInv, PcOK, SurfaceLabels, CallsType
<1>2. c.frame = None /\ c.resume # "limit"
  <2>1. CASE c = NoCall
    BY <2>1 DEF NoCall
  <2>2. ASSUME NEW a \in AcquireType, c = [call[t] EXCEPT !.acquire = a]
        PROVE  c.frame = call[t].frame /\ c.resume = call[t].resume
    BY <1>1, <2>2 DEF CallType
  <2>. QED BY <1>1, <2>1, <2>2 DEF Moves
<1>3. l \in Labels /\ c.index \in Nat
  BY DEF SurfaceLabels, Labels, CallType
<1>4. PcOK(l, c)
  BY <1>2 DEF PcOK, SurfaceLabels
<1>. QED BY <1>1, <1>2, <1>3, <1>4 DEF Moves

LEMMA CallsTyped ==
  ASSUME TypeOK, PcInv, \A i \in returned : i \in Nat, [Next]_vars
  PROVE  CallsType'
<1>. CallsType /\ NoCall \in CallType
  BY NoCallTyped DEF TypeOK
<1>. USE DEF Labels
<1>0. \A t \in Threads : call[t] \in CallType /\ call[t].resume \in {"harvest", "limit"}
                        /\ call[t].op \in Ops \cup {"none"}
  BY DEF TypeOK, CallsType, CallType
<1>1. ASSUME NEW t \in Threads, SubmitStep(t) PROVE CallsType'
  <2>1. ASSUME NEW op \in Ops, BeginSubmit(t, op) PROVE CallsType'
    <3>1. PICK p \in Pools : call' = [call EXCEPT ![t] = [NoCall EXCEPT !.op = op, !.pool = p]]
      BY Zenon, <2>1 DEF BeginSubmit
    <3>2. [NoCall EXCEPT !.op = op, !.pool = p] \in CallType
      BY Zenon, <3>1, EditTyped
    <3>. QED BY <2>1, <3>1, <3>2 DEF BeginSubmit, Begin, Goto, CallsType
  <2>2. CASE Record(t)
    BY Zenon, <2>2, EditTyped DEF Record, Goto, CallsType, TypeOK, RestType
  <2>3. CASE RecordFails(t) \/ Cleanup(t)
    BY <2>3 DEF RecordFails, Goto, CallsType, Cleanup, Return
  <2>4. CASE Submit(t)
    <3>1. PICK f \in Fences :
            call' = [call EXCEPT ![t].index = last_issued + 1,
                       ![t].frame = [index |-> last_issued + 1, fence |-> f,
                                     pool |-> call[t].pool]]
      BY <2>4 DEF Submit
    <3>2. last_issued + 1 \in Nat /\ call[t].pool \in Pools
      BY <2>4 DEF Submit, TypeOK, TrackerType, PcInv, PcOK
    <3>3. [index |-> last_issued + 1, fence |-> f, pool |-> call[t].pool] \in Frame
      BY <3>1, <3>2 DEF Frame
    <3>. QED BY Zenon, <2>4, <3>1, <3>2, <3>3, EditTyped DEF Submit, Goto, CallsType
  <2>5. CASE SubmitFails(t)
    <3>1. CASE UNCHANGED call
      BY <2>5, <3>1 DEF SubmitFails, Goto, CallsType
    <3>2. ASSUME NEW f \in Fences, call' = [call EXCEPT ![t].fence = f]
          PROVE  CallsType'
      <4>1. [call[t] EXCEPT !.fence = f] \in CallType
        BY Zenon, <1>0, EditTyped
      <4>. QED BY <2>5, <3>2, <4>1 DEF SubmitFails, Goto, CallsType
    <3>. QED BY <2>5, <3>1, <3>2 DEF SubmitFails
  <2>. QED BY <1>1, <2>1, <2>2, <2>3, <2>4, <2>5 DEF SubmitStep
<1>2. ASSUME NEW t \in Threads, RetireStep(t) PROVE CallsType'
  <2>1. CASE LockRetire(t) \/ TryHarvest(t) \/ HarvestFails(t) \/ EvictFails(t)
    BY <2>1 DEF LockRetire, Goto, CallsType, TryHarvest, Return, HarvestFails, EvictFails
  <2>2. CASE HarvestFrame(t)
    <3>1. FrontFrame \in Frame
      BY <2>2 DEF HarvestFrame, FrontFrame, TypeOK, TrackerType
    <3>. QED BY Zenon, <2>2, <3>1, EditTyped DEF HarvestFrame, PopFrame, Goto, CallsType
  <2>3. CASE Track(t)
    <3>1. [call[t] EXCEPT !.old = None] \in CallType
      BY Zenon, <1>0, EditTyped
    <3>. QED BY <2>3, <1>0, <3>1 DEF Track, Goto, Resume, CallsType
  <2>4. CASE RecycleOld(t)
    <3>1. [call[t] EXCEPT !.old = None] \in CallType
      BY <1>0, EditTyped
    <3>. QED BY <2>4, <1>0, <3>1 DEF RecycleOld, Goto, Resume, CallsType
  <2>5. CASE HarvestEnds(t)
    <3>1. [call[t] EXCEPT !.frame = None, !.resume = "limit"] \in CallType
      BY Zenon, <1>0, EditTyped
    <3>2. CASE Return(t)
      BY <2>5, <3>2 DEF Return, CallsType
    <3>3. CASE call' = [call EXCEPT ![t].frame = None, ![t].resume = "limit"] /\ Goto(t, "limit")
      BY <2>5, <3>1, <3>3 DEF Goto, CallsType
    <3>. QED BY <2>5, <3>2, <3>3 DEF HarvestEnds
  <2>6. CASE EvictFrame(t)
    <3>1. 1 \in DOMAIN frames
      BY <2>6, VulkanAssumption DEF EvictFrame, TypeOK, TrackerType
    <3>2. FrontFrame \in Frame
      BY <3>1 DEF FrontFrame, TypeOK, TrackerType
    <3>. QED BY Zenon, <2>6, <3>2, EditTyped DEF EvictFrame, PopFrame, Goto, CallsType
  <2>7. CASE SubmitReturns(t)
    <3>1. CASE Return(t)
      BY <2>7, <3>1 DEF SubmitReturns, Return, CallsType
    <3>2. CASE /\ call[t].op # "submit"
               /\ Goto(t, "wait_test")
               /\ call' = [call EXCEPT ![t] = [NoCall EXCEPT !.op = "submit_empty",
                                                          !.index = call[t].index]]
      <4>1. call[t].op = "submit_empty" /\ "submit_empty" \in Ops
        BY <2>7, <1>0, <3>2 DEF SubmitReturns, PcInv, PcOK
      <4>2. call[t].index \in Nat
        BY <1>0 DEF CallType
      <4>3. [NoCall EXCEPT !.op = "submit_empty", !.index = call[t].index] \in CallType
        BY Zenon, <4>1, <4>2, EditTyped
      <4>. QED BY <2>7, <3>2, <4>3 DEF Goto, CallsType
    <3>. QED BY <2>7, <3>1, <3>2 DEF SubmitReturns
  <2>. QED BY <1>2, <2>1, <2>2, <2>3, <2>4, <2>5, <2>6, <2>7 DEF RetireStep
<1>3. ASSUME NEW t \in Threads, WaitStep(t) PROVE CallsType'
  <2>1. CASE BeginWait(t)
    <3>1. PICK i \in returned : call' = [call EXCEPT ![t] = [NoCall EXCEPT !.op = "wait", !.index = i]]
      BY Zenon, <2>1 DEF BeginWait
    <3>2. i \in Nat /\ "wait" \in Ops
      BY <2>1 DEF BeginWait, Begin, MayCall
    <3>. QED BY Zenon, <2>1, <3>1, <3>2, EditTyped DEF BeginWait, Begin, Goto, CallsType
  <2>2. CASE WaitTest(t)
    <3>1. fences \subseteq Nat \X Fences
      BY DEF TypeOK, TrackerType
    <3>2. FenceOf(call[t].index) # None => FenceOf(call[t].index) \in Fences
      BY <3>1 DEF FenceOf
    <3>3. CASE Return(t)
      BY <3>3 DEF Return, CallsType
    <3>4. CASE Goto(t, "try_harvest") /\ UNCHANGED call
      BY <3>4 DEF Goto, CallsType
    <3>5. CASE /\ FenceOf(call[t].index) # None
               /\ call' = [call EXCEPT ![t].fence = FenceOf(call[t].index)]
               /\ Goto(t, "wait")
      BY Zenon, <3>2, <3>5, EditTyped DEF Goto, CallsType
    <3>. QED BY <2>2, <3>3, <3>4, <3>5 DEF WaitTest
  <2>3. CASE Wait(t) \/ RecycleWaited(t) \/ PollFails(t) \/ WaitIdle(t) \/ WaitIdleFails(t)
    BY <2>3 DEF Wait, Goto, CallsType, RecycleWaited, Waited, Return, PollFails, WaitIdle, WaitIdleFails
  <2>4. CASE WaitFails(t)
    <3>1. [call[t] EXCEPT !.failed = TRUE] \in CallType
      BY Zenon, <1>0, EditTyped
    <3>. QED BY <2>4, <3>1 DEF WaitFails, Goto, CallsType
  <2>5. CASE Unpin(t)
    <3>1. CASE Return(t)
      BY <2>5, <3>1 DEF Return, CallsType
    <3>2. CASE UNCHANGED call /\ (Goto(t, "recycle_waited") \/ Goto(t, "try_harvest"))
      BY <2>5, <3>2 DEF Goto, CallsType
    <3>. QED BY <2>5, <3>1, <3>2 DEF Unpin, Waited
  <2>6. CASE Poll(t)
    BY Zenon, <2>6, EditTyped DEF Poll, Begin, Goto, CallsType, MayCall
  <2>7. CASE BeginWaitIdle(t)
    <3>1. last_issued \in Nat /\ "wait_idle" \in Ops
      BY <2>7 DEF TypeOK, TrackerType, BeginWaitIdle, Begin, MayCall
    <3>. QED BY Zenon, <2>7, <3>1, EditTyped DEF BeginWaitIdle, Begin, Goto, CallsType
  <2>. QED BY <1>3, <2>1, <2>2, <2>3, <2>4, <2>5, <2>6, <2>7 DEF WaitStep
<1>4. ASSUME NEW t \in Threads, SurfaceStep(t) PROVE CallsType'
  <2>1. PICK l \in SurfaceLabels, c \in CallType : Moves(t, l, c)
    BY <1>4, SurfaceMove
  <2>. QED BY <2>1 DEF Moves, SurfaceLabels, CallsType
<1>5. CASE GpuFinish
  BY <1>5 DEF GpuFinish, CallsType
<1>6. ASSUME NEW i \in Images, ImageFree(i) PROVE CallsType'
  BY <1>6 DEF ImageFree, CallsType
<1>7. CASE Drop
  BY <1>7 DEF Drop, CallsType
<1>8. CASE UNCHANGED vars
  BY <1>8 DEF vars, CallsType
<1>. QED BY <1>1, <1>2, <1>3, <1>4, <1>5, <1>6, <1>7, <1>8 DEF Next, Ended, SurfaceStep

LEMMA GpuAppend ==
  ASSUME GpuType, NEW w \in WorkType, gpu' = Append(gpu, w)
  PROVE  /\ gpu' \in Seq(WorkType)
         /\ Len(gpu) \in Nat /\ Len(gpu') = Len(gpu) + 1
         /\ DOMAIN gpu = 1 .. Len(gpu) /\ DOMAIN gpu' = 1 .. Len(gpu) + 1
         /\ gpu'[Len(gpu) + 1] = w
         /\ \A k \in DOMAIN gpu : gpu'[k] = gpu[k]
  BY DEF GpuType

LEMMA GpuTyped ==
  ASSUME TypeOK, PcInv, [Next]_vars
  PROVE  GpuType'
<1>. GpuType
  BY DEF TypeOK
<1>1. ASSUME NEW t \in Threads, SubmitStep(t) PROVE GpuType'
  <2>1. ASSUME NEW op \in Ops, BeginSubmit(t, op) PROVE GpuType'
    BY <2>1 DEF BeginSubmit, GpuType
  <2>2. CASE Record(t) \/ RecordFails(t) \/ SubmitFails(t) \/ Cleanup(t)
    BY <2>2 DEF Record, GpuType, RecordFails, SubmitFails, Cleanup
  <2>3. CASE Submit(t)
    <3>1. PICK f \in Fences, w \in WorkType : gpu' = Append(gpu, w) /\ w.fence = f
                                           /\ w.index = last_issued + 1
      BY <2>3, SubmitShape
    <3>2. done' = done /\ last_issued + 1 # 0
      BY <2>3 DEF Submit, Accept, TypeOK, TrackerType
    <3>. QED BY <3>1, <3>2, GpuAppend DEF GpuType
  <2>. QED BY <1>1, <2>1, <2>2, <2>3 DEF SubmitStep
<1>2. ASSUME NEW t \in Threads, RetireStep(t) PROVE GpuType'
  <2>1. CASE LockRetire(t) \/ TryHarvest(t) \/ HarvestFrame(t) \/ Track(t) \/ RecycleOld(t) \/ HarvestEnds(t) \/ HarvestFails(t) \/ EvictFrame(t) \/ EvictFails(t) \/ SubmitReturns(t)
    BY <2>1 DEF LockRetire, GpuType, TryHarvest, HarvestFrame, Track, RecycleOld, HarvestEnds, HarvestFails, EvictFrame, EvictFails, SubmitReturns
  <2>. QED BY <1>2, <2>1 DEF RetireStep
<1>3. ASSUME NEW t \in Threads, WaitStep(t) PROVE GpuType'
  <2>1. CASE BeginWait(t) \/ WaitTest(t) \/ Wait(t) \/ WaitFails(t) \/ Unpin(t) \/ RecycleWaited(t) \/ Poll(t) \/ PollFails(t) \/ BeginWaitIdle(t) \/ WaitIdle(t) \/ WaitIdleFails(t)
    BY Zenon, <2>1 DEF BeginWait, GpuType, WaitTest, Wait, WaitFails, Unpin, RecycleWaited, Poll, PollFails, BeginWaitIdle, WaitIdle, WaitIdleFails
  <2>. QED BY <1>3, <2>1 DEF WaitStep
<1>4. ASSUME NEW t \in Threads, SurfaceStep(t) PROVE GpuType'
  <2>1. CASE gpu' = gpu
    BY <1>4, <2>1, SurfaceMove DEF GpuType
  <2>2. ASSUME NEW w \in WorkType, w.index = 0, w.fence = None, gpu' = Append(gpu, w)
        PROVE  GpuType'
    <3>1. done' = done
      BY <1>4, SurfaceMove
    <3>. QED BY <2>2, <3>1, GpuAppend DEF GpuType
  <2>. QED BY <1>4, <2>1, <2>2, SurfaceMove
<1>5. CASE GpuFinish
  BY <1>5 DEF GpuFinish, GpuType
<1>6. ASSUME NEW i \in Images, ImageFree(i) PROVE GpuType'
  BY <1>6 DEF ImageFree, GpuType
<1>7. CASE Drop
  BY <1>7 DEF Drop, GpuType
<1>8. CASE UNCHANGED vars
  BY <1>8 DEF vars, GpuType
<1>. QED BY <1>1, <1>2, <1>3, <1>4, <1>5, <1>6, <1>7, <1>8 DEF Next, Ended, SurfaceStep

-----------------------------------------------------------------------------
(* What the recycler and the retirement queue do                           *)

LEMMA RestFacts ==
  ASSUME NEW S, NEW s \in Seq(S)
  PROVE  /\ Rest(s) \in Seq(S)
         /\ s = <<>> => Rest(s) = <<>>
         /\ s # <<>> => /\ Len(Rest(s)) = Len(s) - 1
                        /\ Len(s) \in DOMAIN s /\ Last(s) = s[Len(s)] /\ Last(s) \in S
         /\ \A k \in DOMAIN Rest(s) : k \in DOMAIN s /\ Rest(s)[k] = s[k]
<1>1. CASE s = <<>>
  BY <1>1 DEF Rest
<1>2. CASE s # <<>>
  <2>1. Len(s) \in Nat /\ Len(s) >= 1 /\ DOMAIN s = 1 .. Len(s)
    BY <1>2
  <2>2. Rest(s) = SubSeq(s, 1, Len(s) - 1)
    BY <1>2 DEF Rest, Front
  <2>3. /\ Rest(s) \in Seq(S) /\ Len(Rest(s)) = Len(s) - 1
        /\ \A k \in 1 .. Len(s) - 1 : Rest(s)[k] = s[k]
    BY <2>1, <2>2
  <2>. QED BY <1>2, <2>1, <2>3 DEF Last
<1>. QED BY <1>1, <1>2

\* A fence that is taken was the last free one, or did not exist.
LEMMA TakeFenceFacts ==
  ASSUME RecycleType, NEW f, TakeFence(f)
  PROVE  /\ f \in Fences /\ free_fences' = Rest(free_fences)
         /\ \/ free_fences # <<>> /\ f = free_fences[Len(free_fences)]
            \/ free_fences = <<>> /\ fence_state[f] = "absent"
<1>1. free_fences \in Seq(Fences)
  BY DEF RecycleType
<1>2. CASE free_fences # <<>>
  BY <1>1, <1>2, RestFacts DEF TakeFence, Taken
<1>3. CASE free_fences = <<>>
  <2>1. AbsentFences # {} /\ f = CHOOSE x \in AbsentFences : TRUE
    BY <1>3 DEF TakeFence, Taken
  <2>2. f \in AbsentFences
    BY <2>1
  <2>. QED BY <1>3, <2>2 DEF AbsentFences, TakeFence
<1>. QED BY <1>2, <1>3

\* A recycled fence is free again, at the end, or destroyed.
LEMMA RecycleFenceFacts ==
  ASSUME RecycleType, NEW f \in Fences, RecycleFence(f)
  PROVE  /\ \/ /\ free_fences' = Append(free_fences, f)
               /\ fence_state' = [fence_state EXCEPT ![f] = "unsignaled"]
            \/ /\ free_fences' = free_fences
               /\ fence_state' = [fence_state EXCEPT ![f] = "absent"]
         /\ fence_state' \in [Fences -> States] /\ free_fences' \in Seq(Fences)
<1>1. /\ fence_state \in [Fences -> States] /\ free_fences \in Seq(Fences)
      /\ "absent" \in States /\ "unsignaled" \in States
  BY DEF RecycleType, States
<1>2. CASE Len(free_fences) < MaxRecycled
  BY <1>1, <1>2 DEF RecycleFence
<1>3. CASE ~(Len(free_fences) < MaxRecycled)
  BY <1>1, <1>3 DEF RecycleFence
<1>. QED BY <1>2, <1>3

LEMMA RecyclePoolTyped ==
  ASSUME RecycleType, NEW p \in Pools, RecyclePool(p)
  PROVE  live_pools' \subseteq Pools /\ free_pools' \in Seq(Pools)
<1>1. live_pools \subseteq Pools /\ free_pools \in Seq(Pools)
  BY DEF RecycleType
<1>2. CASE Len(free_pools) < MaxRecycled
  BY <1>1, <1>2 DEF RecyclePool
<1>3. CASE ~(Len(free_pools) < MaxRecycled)
  BY <1>1, <1>3 DEF RecyclePool
<1>. QED BY <1>2, <1>3

\* The front frame leaves the queue.
LEMMA PopFacts ==
  ASSUME TrackerType, CallsType, NEW t \in Threads, frames # <<>>, PopFrame(t)
  PROVE  /\ FrontFrame \in Frame /\ 1 \in DOMAIN frames /\ frames' \in Seq(Frame)
         /\ DOMAIN frames = 1 .. Len(frames) /\ Len(frames) \in Nat
         /\ DOMAIN frames' = 1 .. Len(frames) - 1
         /\ \A k \in DOMAIN frames' : k + 1 \in DOMAIN frames /\ frames'[k] = frames[k + 1]
         /\ call' = [call EXCEPT ![t].old = FrontFrame]
         /\ pc' = [pc EXCEPT ![t] = "track"]
         /\ RecyclePool(FrontFrame.pool)
<1>1. frames \in Seq(Frame) /\ frames' = Tail(frames)
  BY DEF TrackerType, PopFrame
<1>2. Len(frames) \in Nat /\ Len(frames) >= 1 /\ DOMAIN frames = 1 .. Len(frames)
  BY <1>1
<1>3. /\ Tail(frames) \in Seq(Frame) /\ Len(Tail(frames)) = Len(frames) - 1
      /\ \A k \in 1 .. Len(frames) - 1 : Tail(frames)[k] = frames[k + 1]
  BY <1>1, <1>2
<1>. QED BY <1>1, <1>2, <1>3 DEF PopFrame, FrontFrame, Goto

\* A frame is inserted after those with smaller indices and before the others.
LEMMA InsertFacts ==
  ASSUME TrackerType, NEW x \in Frame, InsertFrame(x)
  PROVE  /\ frames' \in Seq(Frame)
         /\ \E at \in 1 .. Len(frames) + 1 :
              /\ \A k \in 1 .. at - 1 : frames[k].index <= x.index
              /\ at <= Len(frames) => frames[at].index > x.index
              /\ Len(frames) \in Nat /\ DOMAIN frames = 1 .. Len(frames)
              /\ DOMAIN frames' = 1 .. Len(frames) + 1
              /\ frames'[at] = x
              /\ \A k \in 1 .. at - 1 : frames'[k] = frames[k]
              /\ \A k \in at + 1 .. Len(frames) + 1 : frames'[k] = frames[k - 1]
<1>1. frames \in Seq(Frame) /\ Len(frames) \in Nat /\ DOMAIN frames = 1 .. Len(frames)
  BY DEF TrackerType
<1>2. PICK at \in 1 .. Len(frames) + 1 :
        /\ \A k \in 1 .. at - 1 : frames[k].index <= x.index
        /\ at <= Len(frames) => frames[at].index > x.index
        /\ frames' = InsertAt(frames, at, x)
  BY DEF InsertFrame
<1> DEFINE a == SubSeq(frames, 1, at - 1)
           b == SubSeq(frames, at, Len(frames))
<1>3. /\ a \in Seq(Frame) /\ Len(a) = at - 1 /\ \A k \in 1 .. at - 1 : a[k] = frames[k]
  BY <1>1, <1>2
<1>4. /\ b \in Seq(Frame) /\ Len(b) = Len(frames) - at + 1
      /\ \A k \in 1 .. Len(frames) - at + 1 : b[k] = frames[at + k - 1]
  BY <1>1, <1>2
<1>5. frames' = (a \o <<x>>) \o b
  BY <1>2 DEF InsertAt
<1> HIDE DEF a, b
<1>6. /\ a \o <<x>> \in Seq(Frame) /\ Len(a \o <<x>>) = at
      /\ \A k \in 1 .. at - 1 : (a \o <<x>>)[k] = frames[k]
      /\ (a \o <<x>>)[at] = x
  BY <1>1, <1>2, <1>3
<1> DEFINE c == a \o <<x>>
<1> HIDE DEF c
<1>7. /\ c \in Seq(Frame) /\ Len(c) = at /\ frames' = c \o b
      /\ \A k \in 1 .. at - 1 : c[k] = frames[k]
      /\ c[at] = x
  BY <1>5, <1>6 DEF c
<1>8. /\ frames' \in Seq(Frame) /\ Len(frames') = Len(frames) + 1
      /\ \A k \in 1 .. at : frames'[k] = c[k]
      /\ \A k \in at + 1 .. Len(frames) + 1 : frames'[k] = b[k - at]
  <2>1. b \in Seq(Frame) /\ Len(b) \in Nat /\ Len(c) \in Nat
    BY <1>1, <1>2, <1>4, <1>7
  <2>2. /\ c \o b \in Seq(Frame) /\ Len(c \o b) = Len(c) + Len(b)
        /\ \A k \in 1 .. Len(c) : (c \o b)[k] = c[k]
        /\ \A k \in Len(c) + 1 .. Len(c) + Len(b) : (c \o b)[k] = b[k - Len(c)]
    <3>1. c \in Seq(Frame) /\ b \in Seq(Frame)
      BY <1>7, <2>1
    <3>2. /\ c \o b \in Seq(Frame) /\ Len(c \o b) = Len(c) + Len(b)
          /\ \A i \in 1 .. Len(c) + Len(b) :
               (c \o b)[i] = IF i <= Len(c) THEN c[i] ELSE b[i - Len(c)]
      BY <3>1
    <3>3. ASSUME NEW k \in 1 .. Len(c) PROVE (c \o b)[k] = c[k]
      <4>1. k \in 1 .. Len(c) + Len(b) /\ k <= Len(c)
        BY <2>1
      <4>. QED BY <3>2, <4>1
    <3>4. ASSUME NEW k \in Len(c) + 1 .. Len(c) + Len(b)
          PROVE  (c \o b)[k] = b[k - Len(c)]
      <4>1. k \in 1 .. Len(c) + Len(b) /\ ~(k <= Len(c))
        BY <2>1
      <4>. QED BY <3>2, <4>1
    <3>. QED BY <3>2, <3>3, <3>4
  <2>3. Len(c) = at /\ Len(c) + Len(b) = Len(frames) + 1 /\ frames' = c \o b
    BY <1>1, <1>2, <1>4, <1>7
  <2>. QED BY <2>2, <2>3
<1>9. \A k \in at + 1 .. Len(frames) + 1 : frames'[k] = frames[k - 1]
  <2> TAKE k \in at + 1 .. Len(frames) + 1
  <2>1. k - at \in 1 .. Len(frames) - at + 1 /\ at + (k - at) - 1 = k - 1
    BY <1>1, <1>2
  <2>. QED BY <1>4, <1>8, <2>1
<1>10. DOMAIN frames' = 1 .. Len(frames) + 1
  BY <1>8
<1>11. frames'[at] = x /\ \A k \in 1 .. at - 1 : frames'[k] = frames[k]
  BY <1>1, <1>2, <1>7, <1>8
<1>. QED BY <1>1, <1>2, <1>8, <1>9, <1>10, <1>11

LEMMA HeldTyped ==
  ASSUME TypeOK, PcInv, NEW t \in Threads
  PROVE  /\ call[t] \in CallType
         /\ call[t].index \in Nat
         /\ call[t].frame # None => call[t].frame \in Frame
         /\ call[t].fence # None => call[t].fence \in Fences
         /\ pc[t] \in {"track", "recycle_old"} =>
              call[t].old \in Frame /\ call[t].old.fence \in Fences /\ call[t].old.index \in Nat
         /\ pc[t] \in {"wait", "unpin", "recycle_waited"} => call[t].fence \in Fences
         /\ pc[t] \in {"record", "submit", "cleanup"} => call[t].pool \in Pools
  BY DEF TypeOK, CallsType, CallType, PcInv, PcOK, Frame

LEMMA PopTyped ==
  ASSUME TypeOK, NEW t \in Threads, HarvestFrame(t) \/ EvictFrame(t)
  PROVE  frames # <<>> /\ PopFrame(t) /\ Signaled(FrontFrame.fence)
  BY VulkanAssumption DEF HarvestFrame, EvictFrame, TypeOK, TrackerType

LEMMA RecycleTyped ==
  ASSUME TypeOK, PcInv, [Next]_vars
  PROVE  RecycleType'
<1>. RecycleType /\ TrackerType /\ CallsType
  BY DEF TypeOK
<1>1. ASSUME NEW t \in Threads, SubmitStep(t) PROVE RecycleType'
  <2>1. ASSUME NEW op \in Ops, BeginSubmit(t, op) PROVE RecycleType'
    <3>1. PICK p \in Pools : TakePool(p)
      BY <2>1 DEF BeginSubmit
    <3>2. live_pools' \subseteq Pools /\ free_pools' \in Seq(Pools)
      BY <3>1, RestFacts DEF TakePool, RecycleType
    <3>. QED BY <2>1, <3>2 DEF BeginSubmit, RecycleType
  <2>2. CASE Record(t) \/ RecordFails(t)
    BY <2>2 DEF Record, RecycleType, RecordFails
  <2>3. CASE Submit(t)
    <3>1. PICK f \in Fences : TakeFence(f) /\ fence_state' = [fence_state EXCEPT ![f] = "unsignaled"]
      BY <2>3 DEF Submit
    <3>2. free_fences' \in Seq(Fences)
      BY <3>1, TakeFenceFacts, RestFacts DEF RecycleType
    <3>. QED BY <2>3, <3>1, <3>2 DEF Submit, RecycleType, States
  <2>4. CASE SubmitFails(t)
    <3>1. CASE UNCHANGED <<fence_state, free_fences>>
      BY <2>4, <3>1 DEF SubmitFails, RecycleType
    <3>2. ASSUME NEW f \in Fences, TakeFence(f),
                 fence_state' = [fence_state EXCEPT ![f] = "unsignaled"]
          PROVE  RecycleType'
      <4>1. free_fences' \in Seq(Fences)
        BY <3>2, TakeFenceFacts, RestFacts DEF RecycleType
      <4>. QED BY <2>4, <3>2, <4>1 DEF SubmitFails, RecycleType, States
    <3>. QED BY <2>4, <3>1, <3>2 DEF SubmitFails
  <2>5. CASE Cleanup(t)
    <3>1. live_pools' \subseteq Pools /\ free_pools' \in Seq(Pools)
      BY <2>5, HeldTyped, RecyclePoolTyped DEF Cleanup
    <3>2. CASE call[t].fence = None
      BY <2>5, <3>1, <3>2 DEF Cleanup, RecycleType
    <3>3. CASE call[t].fence # None
      <4>1. call[t].fence \in Fences /\ RecycleFence(call[t].fence)
        BY <2>5, <3>3, HeldTyped DEF Cleanup
      <4>. QED BY <3>1, <4>1, RecycleFenceFacts DEF RecycleType
    <3>. QED BY <3>2, <3>3
  <2>. QED BY <1>1, <2>1, <2>2, <2>3, <2>4, <2>5 DEF SubmitStep
<1>2. ASSUME NEW t \in Threads, RetireStep(t) PROVE RecycleType'
  <2>1. CASE LockRetire(t) \/ TryHarvest(t) \/ Track(t) \/ HarvestEnds(t) \/ HarvestFails(t) \/ EvictFails(t) \/ SubmitReturns(t)
    BY <2>1 DEF LockRetire, RecycleType, TryHarvest, Track, HarvestEnds, HarvestFails, EvictFails, SubmitReturns
  <2>2. CASE HarvestFrame(t)
    <3>1. FrontFrame \in Frame /\ RecyclePool(FrontFrame.pool)
      BY <2>2, PopTyped, PopFacts DEF TypeOK
    <3>2. FrontFrame.pool \in Pools
      BY <3>1 DEF Frame
    <3>. QED BY <2>2, <3>1, <3>2, RecyclePoolTyped DEF HarvestFrame, RecycleType
  <2>3. CASE RecycleOld(t)
    <3>1. call[t].old.fence \in Fences /\ RecycleFence(call[t].old.fence)
      BY <2>3, HeldTyped DEF RecycleOld
    <3>. QED BY <2>3, <3>1, RecycleFenceFacts DEF RecycleOld, RecycleType
  <2>4. CASE EvictFrame(t)
    <3>1. FrontFrame \in Frame /\ RecyclePool(FrontFrame.pool)
      BY <2>4, PopTyped, PopFacts DEF TypeOK
    <3>2. FrontFrame.pool \in Pools
      BY <3>1 DEF Frame
    <3>. QED BY <2>4, <3>1, <3>2, RecyclePoolTyped DEF EvictFrame, RecycleType
  <2>. QED BY <1>2, <2>1, <2>2, <2>3, <2>4 DEF RetireStep
<1>3. ASSUME NEW t \in Threads, WaitStep(t) PROVE RecycleType'
  <2>1. CASE BeginWait(t) \/ WaitTest(t) \/ Wait(t) \/ WaitFails(t) \/ Unpin(t) \/ Poll(t) \/ PollFails(t) \/ BeginWaitIdle(t) \/ WaitIdle(t) \/ WaitIdleFails(t)
    BY Zenon, <2>1 DEF BeginWait, RecycleType, WaitTest, Wait, WaitFails, Unpin, Poll, PollFails, BeginWaitIdle, WaitIdle, WaitIdleFails
  <2>2. CASE RecycleWaited(t)
    <3>1. call[t].fence \in Fences /\ RecycleFence(call[t].fence)
      BY <2>2, HeldTyped DEF RecycleWaited
    <3>. QED BY <2>2, <3>1, RecycleFenceFacts DEF RecycleWaited, RecycleType
  <2>. QED BY <1>3, <2>1, <2>2 DEF WaitStep
<1>4. ASSUME NEW t \in Threads, SurfaceStep(t) PROVE RecycleType'
  BY <1>4, SurfaceMove DEF RecycleType
<1>5. CASE GpuFinish
  <2>1. fence_state' = fence_state \/ \E f \in Fences : fence_state' = [fence_state EXCEPT ![f] = "signaled"]
    <3>1. done + 1 \in DOMAIN gpu
      BY <1>5 DEF GpuFinish, TypeOK, GpuType
    <3>. QED BY <1>5, <3>1 DEF GpuFinish, TypeOK, GpuType
  <2>. QED BY <1>5, <2>1 DEF GpuFinish, RecycleType, States
<1>6. ASSUME NEW i \in Images, ImageFree(i) PROVE RecycleType'
  BY <1>6 DEF ImageFree, RecycleType
<1>7. CASE Drop
  BY <1>7 DEF Drop, RecycleType, States
<1>8. CASE UNCHANGED vars
  BY <1>8 DEF vars, RecycleType
<1>. QED BY <1>1, <1>2, <1>3, <1>4, <1>5, <1>6, <1>7, <1>8 DEF Next, Ended, SurfaceStep

LEMMA TrackerTyped ==
  ASSUME TypeOK, PcInv, PinsCounted, [Next]_vars
  PROVE  TrackerType'
<1>. TrackerType /\ CallsType /\ RecycleType
  BY DEF TypeOK
<1>1. ASSUME NEW t \in Threads, SubmitStep(t) PROVE TrackerType'
  <2>1. ASSUME NEW op \in Ops, BeginSubmit(t, op) PROVE TrackerType'
    BY <2>1 DEF BeginSubmit, TrackerType
  <2>2. CASE Record(t) \/ RecordFails(t) \/ Cleanup(t)
    BY <2>2 DEF Record, TrackerType, RecordFails, Cleanup
  <2>3. CASE Submit(t)
    <3>1. PICK f \in Fences : fences' = fences \cup {<<last_issued', f>>} /\ last_issued' = last_issued + 1
      BY <2>3 DEF Submit
    <3>. QED BY <2>3, <3>1 DEF Submit, TrackerType
  <2>4. CASE SubmitFails(t)
    <3>1. last_issued' \in Nat
      BY <2>4 DEF SubmitFails, TrackerType
    <3>. QED BY <2>4, <3>1 DEF SubmitFails, TrackerType
  <2>. QED BY <1>1, <2>1, <2>2, <2>3, <2>4 DEF SubmitStep
<1>2. ASSUME NEW t \in Threads, RetireStep(t) PROVE TrackerType'
  <2>1. CASE LockRetire(t) \/ TryHarvest(t) \/ RecycleOld(t) \/ EvictFails(t) \/ SubmitReturns(t)
    BY <2>1 DEF LockRetire, TrackerType, TryHarvest, RecycleOld, EvictFails, SubmitReturns
  <2>2. CASE HarvestFrame(t)
    <3>1. frames' \in Seq(Frame)
      BY <2>2, PopTyped, PopFacts
    <3>. QED BY <2>2, <3>1 DEF HarvestFrame, TrackerType
  <2>3. CASE Track(t)
    <3>1. call[t].old.index \in Nat /\ call[t].old.fence \in Fences
      BY <2>3, HeldTyped DEF Track
    <3>2. MaxOf(completed, call[t].old.index) \in Nat
      BY <3>1 DEF MaxOf, TrackerType
    <3>3. fences' \subseteq Nat \X Fences
      BY <2>3 DEF Track, Unmapped, TrackerType
    <3>4. pending_destroy' \subseteq Fences
      BY <2>3, <3>1 DEF Track, TrackerType
    <3>. QED BY <2>3, <3>2, <3>3, <3>4 DEF Track, MarkCompleted, TrackerType
  <2>4. CASE HarvestEnds(t)
    <3>1. CASE InsertFrame(call[t].frame) /\ call[t].frame # None
      <4>1. frames' \in Seq(Frame)
        BY <3>1, HeldTyped, InsertFacts
      <4>. QED BY <2>4, <4>1 DEF HarvestEnds, TrackerType
    <3>2. CASE UNCHANGED frames
      BY <2>4, <3>2 DEF HarvestEnds, TrackerType
    <3>. QED BY <2>4, <3>1, <3>2 DEF HarvestEnds
  <2>5. CASE HarvestFails(t)
    <3>1. CASE InsertFrame(call[t].frame) /\ call[t].frame # None
      <4>1. frames' \in Seq(Frame)
        BY <3>1, HeldTyped, InsertFacts
      <4>. QED BY <2>5, <4>1 DEF HarvestFails, TrackerType
    <3>2. CASE UNCHANGED frames
      BY <2>5, <3>2 DEF HarvestFails, TrackerType
    <3>. QED BY <2>5, <3>1, <3>2 DEF HarvestFails
  <2>6. CASE EvictFrame(t)
    <3>1. frames' \in Seq(Frame)
      BY <2>6, PopTyped, PopFacts
    <3>. QED BY <2>6, <3>1 DEF EvictFrame, TrackerType
  <2>. QED BY <1>2, <2>1, <2>2, <2>3, <2>4, <2>5, <2>6 DEF RetireStep
<1>3. ASSUME NEW t \in Threads, WaitStep(t) PROVE TrackerType'
  <2>1. CASE BeginWait(t) \/ Wait(t) \/ WaitFails(t) \/ RecycleWaited(t) \/ BeginWaitIdle(t) \/ WaitIdleFails(t)
    BY Zenon, <2>1 DEF BeginWait, TrackerType, Wait, WaitFails, RecycleWaited, BeginWaitIdle, WaitIdleFails
  <2>2. CASE WaitTest(t)
    <3>1. pinned' \in [Fences -> Nat]
      BY <2>2 DEF WaitTest, TrackerType
    <3>. QED BY <2>2, <3>1 DEF WaitTest, TrackerType
  <2>3. CASE Unpin(t)
    <3>1. call[t].index \in Nat /\ call[t].fence \in Fences
      BY <2>3, HeldTyped DEF Unpin
    <3>2. completed' \in Nat
      BY <2>3, <3>1 DEF Unpin, MarkCompleted, MaxOf, TrackerType
    <3>3. pinned[call[t].fence] > 0
      BY <2>3, <3>1 DEF Unpin, PinsCounted, Looking
    <3>4. pinned' \in [Fences -> Nat]
      BY <2>3, <3>1, <3>3 DEF Unpin, TrackerType
    <3>5. pending_destroy' \subseteq Fences
      BY <2>3 DEF Unpin, TrackerType
    <3>. QED BY <2>3, <3>2, <3>4, <3>5 DEF Unpin, TrackerType
  <2>4. CASE Poll(t)
    <3>1. completed' \in Proven
      BY <2>4 DEF Poll
    <3>2. completed' \in Nat
      BY <3>1 DEF Proven, TrackerType
    <3>. QED BY <2>4, <3>2 DEF Poll, TrackerType
  <2>5. CASE PollFails(t)
    <3>1. completed' \in Proven
      BY <2>5 DEF PollFails
    <3>2. completed' \in Nat
      BY <3>1 DEF Proven, TrackerType
    <3>. QED BY <2>5, <3>2 DEF PollFails, TrackerType
  <2>6. CASE WaitIdle(t)
    <3>1. completed' \in Nat
      BY <2>6, HeldTyped DEF WaitIdle, MarkCompleted, MaxOf, TrackerType
    <3>. QED BY <2>6, <3>1 DEF WaitIdle, TrackerType
  <2>. QED BY <1>3, <2>1, <2>2, <2>3, <2>4, <2>5, <2>6 DEF WaitStep
<1>4. ASSUME NEW t \in Threads, SurfaceStep(t) PROVE TrackerType'
  BY <1>4, SurfaceMove DEF TrackerType
<1>5. CASE GpuFinish
  BY <1>5 DEF GpuFinish, TrackerType
<1>6. ASSUME NEW i \in Images, ImageFree(i) PROVE TrackerType'
  BY <1>6 DEF ImageFree, TrackerType
<1>7. CASE Drop
  <2>1. completed' \in Nat
    <3>1. CASE frames = <<>>
      BY <1>7, <3>1 DEF Drop, TrackerType
    <3>2. CASE frames # <<>>
      <4>1. Last(frames).index \in Nat
        <5>1. Last(frames) \in Frame
          BY <3>2, RestFacts DEF TrackerType
        <5>. QED BY <5>1 DEF Frame
      <4>. QED BY <1>7, <3>2, <4>1 DEF Drop, MaxOf, TrackerType
    <3>. QED BY <3>1, <3>2
  <2>. QED BY <1>7, <2>1 DEF Drop, TrackerType
<1>8. CASE UNCHANGED vars
  BY <1>8 DEF vars, TrackerType
<1>. QED BY <1>1, <1>2, <1>3, <1>4, <1>5, <1>6, <1>7, <1>8 DEF Next, Ended, SurfaceStep

\* What the actions change in the surface keeps its type.
LEMMA SurfaceEdits ==
  ASSUME NEW s \in SurfaceType
  PROVE  /\ [s EXCEPT !.pending.consumed = TRUE] \in SurfaceType
         /\ \A t \in Threads \cup {NoThread} : [s EXCEPT !.lock = t] \in SurfaceType
         /\ \A t \in Threads : [s EXCEPT !.lock = t, !.current = FALSE] \in SurfaceType
         /\ [s EXCEPT !.lock = NoThread, !.present_error = TRUE] \in SurfaceType
         /\ [s EXCEPT !.current = FALSE, !.skipped = @ \cup {s.pending.sync}] \in SurfaceType
         /\ [s EXCEPT !.pending = NoAcquire, !.image_index = None,
                      !.skipped = @ \ {s.pending.sync}] \in SurfaceType
         /\ [s EXCEPT !.ring = NoRing] \in SurfaceType
         /\ [s EXCEPT !.alive = FALSE] \in SurfaceType
         /\ \A a \in AcquireType :
              [s EXCEPT !.ring = ReleaseFence(@, a.sync),
                        !.next_sync = (@ + 1) % Cardinality(Images),
                        !.image_index = a.image, !.pending = a, !.current = TRUE,
                        !.lock = NoThread] \in SurfaceType
         /\ \A x \in Images \cup {None} :
              [s EXCEPT !.ring[s.ring_next] = x,
                        !.ring_next = (@ + 1) % RingSize] \in SurfaceType
<1>1. [s EXCEPT !.pending.consumed = TRUE] \in SurfaceType
  BY DEF SurfaceType, AcquireType
<1>2. \A t \in Threads \cup {NoThread} : [s EXCEPT !.lock = t] \in SurfaceType
  BY DEF SurfaceType
<1>3. \A t \in Threads : [s EXCEPT !.lock = t, !.current = FALSE] \in SurfaceType
  BY DEF SurfaceType
<1>4. [s EXCEPT !.lock = NoThread, !.present_error = TRUE] \in SurfaceType
  BY DEF SurfaceType
<1>5. s.pending \in AcquireType /\ s.pending.sync \in Images \cup {None}
  BY DEF SurfaceType, AcquireType
<1>6. [s EXCEPT !.current = FALSE, !.skipped = @ \cup {s.pending.sync}] \in SurfaceType
  BY <1>5 DEF SurfaceType
<1>7. NoAcquire \in AcquireType
  BY DEF NoAcquire, AcquireType
<1>8. [s EXCEPT !.pending = NoAcquire, !.image_index = None,
                !.skipped = @ \ {s.pending.sync}] \in SurfaceType
  BY <1>7 DEF SurfaceType
<1>9. NoRing \in [0 .. RingSize - 1 -> Images \cup {None}]
  BY DEF NoRing
<1>10. [s EXCEPT !.ring = NoRing] \in SurfaceType
  BY <1>9 DEF SurfaceType
<1>11. [s EXCEPT !.alive = FALSE] \in SurfaceType
  BY DEF SurfaceType
<1>12. ASSUME NEW a \in AcquireType
       PROVE  [s EXCEPT !.ring = ReleaseFence(@, a.sync),
                      !.next_sync = (@ + 1) % Cardinality(Images),
                      !.image_index = a.image, !.pending = a, !.current = TRUE,
                      !.lock = NoThread] \in SurfaceType
  <2>1. ReleaseFence(s.ring, a.sync)
          \in [0 .. RingSize - 1 -> Images \cup {None}]
    BY DEF ReleaseFence, SurfaceType
  <2>2. (s.next_sync + 1) % Cardinality(Images) \in Images
    <3>1. Cardinality(Images) \in Nat /\ Cardinality(Images) # 0
      BY VulkanAssumption, FS_CardinalityType, FS_EmptySet
    <3>2. s.next_sync \in 0 .. Cardinality(Images) - 1
      BY VulkanAssumption DEF SurfaceType
    <3>3. (s.next_sync + 1) % Cardinality(Images) \in 0 .. Cardinality(Images) - 1
      BY <3>1, <3>2
    <3>. QED BY <3>3, VulkanAssumption
  <2>3. a.image \in Images \cup {None}
    BY DEF AcquireType
  <2>. QED BY <2>1, <2>2, <2>3 DEF SurfaceType
<1>13. ASSUME NEW x \in Images \cup {None}
       PROVE  [s EXCEPT !.ring[s.ring_next] = x,
                        !.ring_next = (@ + 1) % RingSize] \in SurfaceType
  <2>1. s.ring_next \in 0 .. RingSize - 1 /\ RingSize \in Nat \ {0}
    BY VulkanAssumption DEF SurfaceType
  <2>2. (s.ring_next + 1) % RingSize \in 0 .. RingSize - 1
    BY <2>1
  <2>3. [s.ring EXCEPT ![s.ring_next] = x]
          \in [0 .. RingSize - 1 -> Images \cup {None}]
    BY <2>1 DEF SurfaceType
  <2>. QED BY <2>2, <2>3 DEF SurfaceType
<1>. QED BY Zenon, <1>1, <1>2, <1>3, <1>4, <1>6, <1>8, <1>10, <1>11, <1>12, <1>13

LEMMA NewSurfaceTyped == NewSurface \in SurfaceType
<1>1. 0 \in Images /\ 0 \in 0 .. RingSize - 1
  <2>1. Cardinality(Images) \in Nat /\ Cardinality(Images) # 0
    BY VulkanAssumption, FS_CardinalityType, FS_EmptySet
  <2>2. RingSize \in Nat \ {0} /\ Images = 0 .. Cardinality(Images) - 1
    BY VulkanAssumption
  <2>. QED BY <2>1, <2>2
<1>2. NoAcquire \in AcquireType
  BY DEF NoAcquire, AcquireType
<1>3. NoRing \in [0 .. RingSize - 1 -> Images \cup {None}]
  BY DEF NoRing
<1>. QED BY <1>1, <1>2, <1>3 DEF NewSurface, SurfaceType

LEMMA SurfacesTyped ==
  ASSUME TypeOK, PcInv, [Next]_vars
  PROVE  SurfacesType'
<1>. SurfacesType /\ surface \in SurfaceType
  BY DEF TypeOK, SurfacesType
<1>0. \A t \in Threads : call[t].acquire \in AcquireType
  BY DEF TypeOK, CallsType, CallType
<1>1. ASSUME NEW t \in Threads, SubmitStep(t) PROVE SurfacesType'
  <2>1. ASSUME NEW op \in Ops, BeginSubmit(t, op) PROVE SurfacesType'
    BY <2>1 DEF BeginSubmit, SurfacesType
  <2>2. CASE Record(t) \/ RecordFails(t) \/ SubmitFails(t) \/ Cleanup(t)
    BY <2>2 DEF Record, SurfacesType, RecordFails, SubmitFails, Cleanup
  <2>3. CASE Submit(t)
    <3>1. surface' \in SurfaceType
      BY Zenon, <2>3, SurfaceEdits DEF Submit, Consume
    <3>. QED BY <2>3, <3>1 DEF Submit, SurfacesType
  <2>. QED BY <1>1, <2>1, <2>2, <2>3 DEF SubmitStep
<1>2. ASSUME NEW t \in Threads, RetireStep(t) PROVE SurfacesType'
  <2>1. CASE LockRetire(t) \/ TryHarvest(t) \/ HarvestFrame(t) \/ Track(t) \/ RecycleOld(t) \/ HarvestEnds(t) \/ HarvestFails(t) \/ EvictFrame(t) \/ EvictFails(t) \/ SubmitReturns(t)
    BY <2>1 DEF LockRetire, SurfacesType, TryHarvest, HarvestFrame, Track, RecycleOld, HarvestEnds, HarvestFails, EvictFrame, EvictFails, SubmitReturns
  <2>. QED BY <1>2, <2>1 DEF RetireStep
<1>3. ASSUME NEW t \in Threads, WaitStep(t) PROVE SurfacesType'
  <2>1. CASE BeginWait(t) \/ WaitTest(t) \/ Wait(t) \/ WaitFails(t) \/ Unpin(t) \/ RecycleWaited(t) \/ Poll(t) \/ PollFails(t) \/ BeginWaitIdle(t) \/ WaitIdle(t) \/ WaitIdleFails(t)
    BY Zenon, <2>1 DEF BeginWait, SurfacesType, WaitTest, Wait, WaitFails, Unpin, RecycleWaited, Poll, PollFails, BeginWaitIdle, WaitIdle, WaitIdleFails
  <2>. QED BY <1>3, <2>1 DEF WaitStep
<1>4. ASSUME NEW t \in Threads, AcquireStep(t) PROVE SurfacesType'
  <2>1. CASE GetCurrentTexture(t)
    <3>1. surface' \in SurfaceType
      BY Zenon, <2>1, SurfaceEdits DEF GetCurrentTexture
    <3>. QED BY <2>1, <3>1 DEF GetCurrentTexture, SurfacesType, States
  <2>2. CASE AcquireImage(t) \/ AcquireBlocked(t)
    BY <2>2 DEF AcquireImage, SurfacesType, AcquireBlocked, vars
  <2>3. CASE AcquireFails(t)
    <3>1. surface' \in SurfaceType
      BY Zenon, <2>3, SurfaceEdits DEF AcquireFails
    <3>. QED BY <2>3, <3>1 DEF AcquireFails, SurfacesType, States
  <2>4. CASE PublishAcquire(t)
    <3>1. surface' \in SurfaceType
      BY Zenon, <2>4, <1>0, SurfaceEdits DEF PublishAcquire
    <3>. QED BY Zenon, <2>4, <3>1 DEF PublishAcquire, SurfacesType, States
  <2>. QED BY <1>4, <2>1, <2>2, <2>3, <2>4 DEF AcquireStep
<1>5. ASSUME NEW t \in Threads, PresentStep(t) PROVE SurfacesType'
  <2>1. CASE Present(t)
    <3>1. surface' \in SurfaceType
      BY Zenon, <2>1, SurfaceEdits DEF Present
    <3>. QED BY <2>1, <3>1 DEF Present, SurfacesType, States
  <2>2. CASE PresentFlushFails(t)
    <3>1. surface' \in SurfaceType
      BY Zenon, <2>2, SurfaceEdits DEF PresentFlushFails
    <3>. QED BY <2>2, <3>1 DEF PresentFlushFails, SurfacesType, States
  <2>3. CASE TakePending(t)
    <3>1. surface' \in SurfaceType
      BY Zenon, <2>3, SurfaceEdits DEF TakePending
    <3>. QED BY <2>3, <3>1 DEF TakePending, SurfacesType, States
  <2>4. CASE Transition(t) \/ TransitionFails(t)
    BY <2>4 DEF Transition, SurfacesType, TransitionFails
  <2>5. CASE Recover(t)
    <3>1. surface' \in SurfaceType
      BY Zenon, <2>5, SurfaceEdits DEF Recover, Accept
    <3>. QED BY <2>5, <3>1 DEF Recover, SurfacesType, States
  <2>6. CASE Ring(t)
    <3>1. call[t].acquire.sync \in Images \cup {None}
      BY <1>0 DEF AcquireType
    <3>2. surface' \in SurfaceType
      BY Zenon, <2>6, <3>1, SurfaceEdits DEF Ring
    <3>. QED BY <2>6, <3>2 DEF Ring, SurfacesType
  <2>7. CASE QueuePresent(t)
    <3>1. surface' \in SurfaceType
      BY Zenon, <2>7, SurfaceEdits DEF QueuePresent
    <3>. QED BY Zenon, <2>7, <3>1 DEF QueuePresent, SurfacesType, States
  <2>. QED BY <1>5, <2>1, <2>2, <2>3, <2>4, <2>5, <2>6, <2>7 DEF PresentStep
<1>6. ASSUME NEW t \in Threads, ConfigureStep(t) PROVE SurfacesType'
  <2>1. CASE Configure(t)
    <3>1. surface' \in SurfaceType
      BY Zenon, <2>1, SurfaceEdits DEF Configure
    <3>. QED BY <2>1, <3>1 DEF Configure, SurfacesType, States
  <2>2. CASE TeardownIdle(t)
    <3>1. surface' \in SurfaceType
      BY Zenon, <2>2, SurfaceEdits DEF TeardownIdle
    <3>. QED BY <2>2, <3>1 DEF TeardownIdle, SurfacesType, States
  <2>3. CASE DestroySync(t)
    <3>1. surface' \in SurfaceType
      BY Zenon, <2>3, SurfaceEdits DEF DestroySync
    <3>. QED BY <2>3, <3>1 DEF DestroySync, SurfacesType, States
  <2>4. CASE ResetPending(t)
    BY <2>4, NewSurfaceTyped DEF ResetPending, SurfacesType, States
  <2>. QED BY <1>6, <2>1, <2>2, <2>3, <2>4 DEF ConfigureStep
<1>7. CASE GpuFinish
  BY <1>7 DEF GpuFinish, SurfacesType, States
<1>8. ASSUME NEW i \in Images, ImageFree(i) PROVE SurfacesType'
  BY <1>8 DEF ImageFree, SurfacesType
<1>9. CASE Drop
  BY <1>9 DEF Drop, SurfacesType
<1>10. CASE UNCHANGED vars
  BY <1>10 DEF vars, SurfacesType
<1>. QED BY <1>1, <1>2, <1>3, <1>4, <1>5, <1>6, <1>7, <1>8, <1>9, <1>10 DEF Next, Ended

LEMMA RestTyped ==
  ASSUME TypeOK, [Next]_vars
  PROVE  RestType'
<1>. RestType
  BY DEF TypeOK
<1>1. ASSUME NEW t \in Threads, SubmitStep(t) PROVE RestType'
  <2>1. ASSUME NEW op \in Ops, BeginSubmit(t, op) PROVE RestType'
    BY <2>1 DEF BeginSubmit, RestType
  <2>2. CASE Record(t) \/ RecordFails(t) \/ Submit(t) \/ SubmitFails(t) \/ Cleanup(t)
    BY <2>2 DEF Record, RestType, RecordFails, Submit, Accept, AllLayouts, SubmitFails, Cleanup
  <2>. QED BY <1>1, <2>1, <2>2 DEF SubmitStep
<1>2. ASSUME NEW t \in Threads, RetireStep(t) PROVE RestType'
  <2>1. CASE LockRetire(t) \/ TryHarvest(t) \/ HarvestFrame(t) \/ Track(t) \/ RecycleOld(t) \/ HarvestEnds(t) \/ HarvestFails(t) \/ EvictFrame(t) \/ EvictFails(t) \/ SubmitReturns(t)
    BY <2>1 DEF LockRetire, RestType, TryHarvest, HarvestFrame, Track, RecycleOld, HarvestEnds, HarvestFails, EvictFrame, EvictFails, SubmitReturns
  <2>. QED BY <1>2, <2>1 DEF RetireStep
<1>3. ASSUME NEW t \in Threads, WaitStep(t) PROVE RestType'
  <2>1. CASE BeginWait(t) \/ WaitTest(t) \/ Wait(t) \/ WaitFails(t) \/ Unpin(t) \/ RecycleWaited(t) \/ Poll(t) \/ PollFails(t) \/ BeginWaitIdle(t) \/ WaitIdle(t) \/ WaitIdleFails(t)
    BY Zenon, <2>1 DEF BeginWait, RestType, WaitTest, Wait, WaitFails, Unpin, RecycleWaited, Poll, PollFails, BeginWaitIdle, WaitIdle, WaitIdleFails
  <2>. QED BY <1>3, <2>1 DEF WaitStep
<1>4. ASSUME NEW t \in Threads, AcquireStep(t) PROVE RestType'
  <2>1. CASE GetCurrentTexture(t) \/ AcquireImage(t) \/ AcquireFails(t) \/ PublishAcquire(t) \/ AcquireBlocked(t)
    BY <2>1 DEF GetCurrentTexture, RestType, AcquireImage, AcquireFails, PublishAcquire, AcquireBlocked, vars
  <2>. QED BY <1>4, <2>1 DEF AcquireStep
<1>5. ASSUME NEW t \in Threads, PresentStep(t) PROVE RestType'
  <2>1. CASE Present(t) \/ PresentFlushFails(t) \/ TakePending(t) \/ Transition(t) \/ TransitionFails(t) \/ Recover(t) \/ Ring(t) \/ QueuePresent(t)
    BY <2>1 DEF Present, RestType, PresentFlushFails, TakePending, Transition, Accept, AllLayouts, TransitionFails, Recover, Ring, QueuePresent
  <2>. QED BY <1>5, <2>1 DEF PresentStep
<1>6. ASSUME NEW t \in Threads, ConfigureStep(t) PROVE RestType'
  <2>1. CASE Configure(t) \/ TeardownIdle(t) \/ DestroySync(t) \/ ResetPending(t)
    BY <2>1 DEF Configure, RestType, TeardownIdle, DestroySync, ResetPending
  <2>. QED BY <1>6, <2>1 DEF ConfigureStep
<1>7. CASE GpuFinish
  BY <1>7 DEF GpuFinish, RestType
<1>8. ASSUME NEW i \in Images, ImageFree(i) PROVE RestType'
  BY <1>8 DEF ImageFree, RestType
<1>9. CASE Drop
  BY <1>9 DEF Drop, RestType
<1>10. CASE UNCHANGED vars
  BY <1>10 DEF vars, RestType
<1>. QED BY <1>1, <1>2, <1>3, <1>4, <1>5, <1>6, <1>7, <1>8, <1>9, <1>10 DEF Next, Ended

LEMMA TypeStep ==
  ASSUME TypeOK, PcInv, PinsCounted, \A i \in returned : i \in Nat, [Next]_vars
  PROVE  TypeOK'
  BY CallsTyped, GpuTyped, RecycleTyped, TrackerTyped, SurfacesTyped, RestTyped
  DEF TypeOK

-----------------------------------------------------------------------------
(* Where a thread is says what its call holds                              *)

LEMMA PcLift ==
  ASSUME CallsType, PcInv, NEW t \in Threads, NEW l \in Labels, NEW c,
         pc' = [pc EXCEPT ![t] = l], call' = [call EXCEPT ![t] = c], PcOK(l, c)
  PROVE  PcInv'
  BY DEF PcInv, CallsType

LEMMA PcSame ==
  ASSUME PcInv, UNCHANGED <<pc, call>>
  PROVE  PcInv'
  BY DEF PcInv

LEMMA PcBlank == \A l \in Labels \ {"limit", "track", "recycle_old", "wait", "unpin",
                                   "recycle_waited", "wait_test", "record", "submit",
                                   "cleanup"} : PcOK(l, NoCall)
  BY DEF PcOK, NoCall

LEMMA PcStep ==
  ASSUME TypeOK, PcInv, CallInv, IndexInv, [Next]_vars
  PROVE  PcInv'
<1>. CallsType
  BY DEF TypeOK
<1>0. \A t \in Threads : call[t] \in CallType /\ PcOK(pc[t], call[t])
  BY DEF TypeOK, CallsType, PcInv
<1>1. ASSUME NEW t \in Threads, SubmitStep(t) PROVE PcInv'
  <2>1. ASSUME NEW op \in Ops, BeginSubmit(t, op) PROVE PcInv'
    <3>1. PICK p \in Pools : call' = [call EXCEPT ![t] = [NoCall EXCEPT !.op = op, !.pool = p]]
      BY Zenon, <2>1 DEF BeginSubmit
    <3>2. PcOK("record", [NoCall EXCEPT !.op = op, !.pool = p])
      BY <2>1, <3>1, VulkanAssumption DEF BeginSubmit, PcOK, NoCall
    <3>. QED BY <2>1, <3>1, <3>2, PcLift DEF BeginSubmit, Begin, Goto, Labels
  <2>2. CASE Record(t)
    <3>1. PcOK("submit", [call[t] EXCEPT !.from = layout])
      BY <2>2, <1>0 DEF Record, PcOK, CallType
    <3>. QED BY <2>2, <3>1, PcLift DEF Record, Goto, Labels
  <2>3. CASE RecordFails(t)
    <3>1. PcOK("cleanup", call[t])
      BY <2>3, <1>0 DEF RecordFails, PcOK
    <3>2. call' = [call EXCEPT ![t] = call[t]]
      BY <2>3 DEF RecordFails, CallsType
    <3>. QED BY <2>3, <3>1, <3>2, PcLift DEF RecordFails, Goto, Labels
  <2>4. CASE Submit(t)
    <3>1. PICK f \in Fences :
            call' = [call EXCEPT ![t].index = last_issued + 1,
                       ![t].frame = [index |-> last_issued + 1, fence |-> f,
                                     pool |-> call[t].pool]]
      BY <2>4, SubmitShape
    <3>2. PICK c : c = [call[t] EXCEPT !.index = last_issued + 1,
                         !.frame = [index |-> last_issued + 1, fence |-> f,
                                    pool |-> call[t].pool]]
      OBVIOUS
    <3>3. call' = [call EXCEPT ![t] = c] /\ pc' = [pc EXCEPT ![t] = "lock_retire"]
      BY <2>4, <3>1, <3>2 DEF Submit, Goto
    <3>4. PcOK("lock_retire", c)
      BY <2>4, <1>0, <3>2 DEF Submit, PcOK, CallType
    <3>. QED BY <3>3, <3>4, PcLift DEF Labels
  <2>5. CASE SubmitFails(t)
    <3>1. PcOK("cleanup", call[t])
      BY <2>5, <1>0 DEF SubmitFails, PcOK
    <3>2. CASE UNCHANGED call
      <4>1. call' = [call EXCEPT ![t] = call[t]]
        BY <3>2 DEF CallsType
      <4>. QED BY <2>5, <3>1, <4>1, PcLift DEF SubmitFails, Goto, Labels
    <3>3. ASSUME NEW f \in Fences, call' = [call EXCEPT ![t].fence = f]
          PROVE  PcInv'
      <4>1. PcOK("cleanup", [call[t] EXCEPT !.fence = f])
        BY <2>5, <1>0 DEF SubmitFails, PcOK, CallType
      <4>. QED BY <2>5, <3>3, <4>1, PcLift DEF SubmitFails, Goto, Labels
    <3>. QED BY <2>5, <3>2, <3>3 DEF SubmitFails
  <2>6. CASE Cleanup(t)
    <3>1. PcOK("idle", NoCall)
      BY PcBlank DEF Labels
    <3>. QED BY <2>6, <3>1, PcLift DEF Cleanup, Return, Labels
  <2>. QED BY <1>1, <2>1, <2>2, <2>3, <2>4, <2>5, <2>6 DEF SubmitStep
<1>2. ASSUME NEW t \in Threads, RetireStep(t) PROVE PcInv'
  <2>1. CASE LockRetire(t)
    <3>1. PcOK("harvest", call[t])
      BY <2>1, <1>0 DEF LockRetire, PcOK
    <3>2. call' = [call EXCEPT ![t] = call[t]]
      BY <2>1 DEF LockRetire, CallsType
    <3>. QED BY <2>1, <3>1, <3>2, PcLift DEF LockRetire, Goto, Labels
  <2>2. CASE TryHarvest(t)
    <3>1. CASE Goto(t, "harvest") /\ UNCHANGED call
      <4>1. PcOK("harvest", call[t])
        BY <2>2, <3>1, <1>0 DEF PcOK, CallType, TryHarvest
      <4>2. call' = [call EXCEPT ![t] = call[t]]
        BY <3>1 DEF CallsType
      <4>. QED BY <3>1, <4>1, <4>2, PcLift DEF Goto, Labels
    <3>2. CASE Return(t)
      <4>1. PcOK("idle", NoCall)
        BY PcBlank DEF Labels
      <4>. QED BY <3>2, <4>1, PcLift DEF Return, Labels
    <3>. QED BY <2>2, <3>1, <3>2 DEF TryHarvest
  <2>3. CASE HarvestFrame(t)
    <3>1. FrontFrame \in Frame /\ call' = [call EXCEPT ![t].old = FrontFrame]
          /\ pc' = [pc EXCEPT ![t] = "track"]
      BY <2>3, PopTyped, PopFacts DEF TypeOK
    <3>2. FrontFrame # None
      BY <3>1, VulkanAssumption
    <3>3. PcOK("track", [call[t] EXCEPT !.old = FrontFrame])
      BY <2>3, <1>0, <3>2 DEF HarvestFrame, PcOK, CallType
    <3>. QED BY <3>1, <3>3, PcLift DEF Labels
  <2>4. CASE Track(t)
    <3>1. CASE Resume(t)
      <4>1. call[t].resume \in {"harvest", "limit"} /\ call[t].resume \in Labels
        BY <1>0 DEF CallType, Labels
      <4>2. PcOK(call[t].resume, [call[t] EXCEPT !.old = None])
        BY <2>4, <1>0, <4>1 DEF Track, PcOK, CallType
      <4>. QED BY <3>1, <4>1, <4>2, PcLift DEF Resume, Goto
    <3>2. CASE Goto(t, "recycle_old") /\ UNCHANGED call
      <4>1. PcOK("recycle_old", call[t])
        BY <2>4, <3>2, <1>0 DEF PcOK, CallType, Track
      <4>2. call' = [call EXCEPT ![t] = call[t]]
        BY <3>2 DEF CallsType
      <4>. QED BY <3>2, <4>1, <4>2, PcLift DEF Goto, Labels
    <3>. QED BY <2>4, <3>1, <3>2 DEF Track
  <2>5. CASE RecycleOld(t)
    <3>1. CASE Resume(t)
      <4>1. call[t].resume \in {"harvest", "limit"} /\ call[t].resume \in Labels
        BY <1>0 DEF CallType, Labels
      <4>2. PcOK(call[t].resume, [call[t] EXCEPT !.old = None])
        BY <2>5, <1>0, <4>1 DEF RecycleOld, PcOK, CallType
      <4>. QED BY <3>1, <4>1, <4>2, PcLift DEF Resume, Goto
    <3>. QED BY <2>5, <3>1 DEF RecycleOld
  <2>6. CASE HarvestEnds(t)
    <3>1. CASE Return(t)
      <4>1. PcOK("idle", NoCall)
        BY PcBlank DEF Labels
      <4>. QED BY <3>1, <4>1, PcLift DEF Return, Labels
    <3>2. CASE Goto(t, "limit") /\ call' = [call EXCEPT ![t] = [call[t] EXCEPT !.frame = None, !.resume = "limit"]] /\ call[t].frame # None
      <4>1. PcOK("limit", [call[t] EXCEPT !.frame = None, !.resume = "limit"])
        BY <2>6, <3>2, <1>0 DEF PcOK, CallType
      <4>. QED BY <3>2, <4>1, PcLift DEF Goto, Labels
    <3>. QED BY <2>6, <3>1, <3>2 DEF HarvestEnds
  <2>7. CASE HarvestFails(t)
    <3>1. PcOK("idle", NoCall)
      BY PcBlank DEF Labels
    <3>. QED BY <2>7, <3>1, PcLift DEF HarvestFails, Return, Labels
  <2>8. CASE EvictFrame(t)
    <3>1. FrontFrame \in Frame /\ call' = [call EXCEPT ![t].old = FrontFrame]
          /\ pc' = [pc EXCEPT ![t] = "track"]
      BY <2>8, PopTyped, PopFacts DEF TypeOK
    <3>2. FrontFrame # None
      BY <3>1, VulkanAssumption
    <3>3. PcOK("track", [call[t] EXCEPT !.old = FrontFrame])
      BY <2>8, <1>0, <3>2 DEF EvictFrame, PcOK, CallType
    <3>. QED BY <3>1, <3>3, PcLift DEF Labels
  <2>9. CASE EvictFails(t)
    <3>1. PcOK("idle", NoCall)
      BY PcBlank DEF Labels
    <3>. QED BY <2>9, <3>1, PcLift DEF EvictFails, Return, Labels
  <2>10. CASE SubmitReturns(t)
    <3>1. CASE Return(t)
      <4>1. PcOK("idle", NoCall)
        BY PcBlank DEF Labels
      <4>. QED BY <3>1, <4>1, PcLift DEF Return, Labels
    <3>2. CASE /\ Goto(t, "wait_test")
               /\ call' = [call EXCEPT ![t] = [NoCall EXCEPT !.op = "submit_empty",
                                                          !.index = call[t].index]]
      <4>1. call[t].index # 0
        BY <2>10, <1>0 DEF SubmitReturns, PcOK, CallInv, CallOK, Accepted
      <4>2. PcOK("wait_test", [NoCall EXCEPT !.op = "submit_empty", !.index = call[t].index])
        BY <4>1 DEF PcOK, NoCall
      <4>. QED BY <3>2, <4>2, PcLift DEF Goto, Labels
    <3>. QED BY <2>10, <3>1, <3>2 DEF SubmitReturns
  <2>. QED BY <1>2, <2>1, <2>2, <2>3, <2>4, <2>5, <2>6, <2>7, <2>8, <2>9, <2>10 DEF RetireStep
<1>3. ASSUME NEW t \in Threads, WaitStep(t) PROVE PcInv'
  <2>1. CASE BeginWait(t)
    <3>1. PICK i \in returned : call' = [call EXCEPT ![t] = [NoCall EXCEPT !.op = "wait", !.index = i]]
      BY Zenon, <2>1 DEF BeginWait
    <3>2. i # 0
      BY <3>1 DEF CallInv, Accepted
    <3>3. PcOK("wait_test", [NoCall EXCEPT !.op = "wait", !.index = i])
      BY <3>2 DEF PcOK, NoCall
    <3>. QED BY <2>1, <3>1, <3>3, PcLift DEF BeginWait, Begin, Goto, Labels
  <2>2. CASE WaitTest(t)
    <3>1. CASE Return(t)
      <4>1. PcOK("idle", NoCall)
        BY PcBlank DEF Labels
      <4>. QED BY <3>1, <4>1, PcLift DEF Return, Labels
    <3>2. CASE Goto(t, "try_harvest") /\ UNCHANGED call
      <4>1. PcOK("try_harvest", call[t])
        BY <2>2, <3>2, <1>0 DEF PcOK, CallType, WaitTest
      <4>2. call' = [call EXCEPT ![t] = call[t]]
        BY <3>2 DEF CallsType
      <4>. QED BY <3>2, <4>1, <4>2, PcLift DEF Goto, Labels
    <3>3. CASE Goto(t, "wait") /\ call' = [call EXCEPT ![t] = [call[t] EXCEPT !.fence = FenceOf(call[t].index)]] /\ FenceOf(call[t].index) # None
      <4>1. PcOK("wait", [call[t] EXCEPT !.fence = FenceOf(call[t].index)])
        BY <2>2, <3>3, <1>0 DEF PcOK, CallType, WaitTest
      <4>. QED BY <3>3, <4>1, PcLift DEF Goto, Labels
    <3>. QED BY <2>2, <3>1, <3>2, <3>3 DEF WaitTest
  <2>3. CASE Wait(t)
    <3>1. PcOK("unpin", call[t])
      BY <2>3, <1>0 DEF Wait, PcOK
    <3>2. call' = [call EXCEPT ![t] = call[t]]
      BY <2>3 DEF Wait, CallsType
    <3>. QED BY <2>3, <3>1, <3>2, PcLift DEF Wait, Goto, Labels
  <2>4. CASE WaitFails(t)
    <3>1. PcOK("unpin", [call[t] EXCEPT !.failed = TRUE])
      BY <2>4, <1>0 DEF WaitFails, PcOK, CallType
    <3>. QED BY <2>4, <3>1, PcLift DEF WaitFails, Goto, Labels
  <2>5. CASE Unpin(t)
    <3>1. CASE Return(t)
      <4>1. PcOK("idle", NoCall)
        BY PcBlank DEF Labels
      <4>. QED BY <3>1, <4>1, PcLift DEF Return, Labels
    <3>2. CASE Goto(t, "try_harvest") /\ UNCHANGED call
      <4>1. PcOK("try_harvest", call[t])
        BY <2>5, <3>2, <1>0 DEF PcOK, CallType, Unpin
      <4>2. call' = [call EXCEPT ![t] = call[t]]
        BY <3>2 DEF CallsType
      <4>. QED BY <3>2, <4>1, <4>2, PcLift DEF Goto, Labels
    <3>3. CASE Goto(t, "recycle_waited") /\ UNCHANGED call
      <4>1. PcOK("recycle_waited", call[t])
        BY <2>5, <3>3, <1>0 DEF PcOK, CallType, Unpin
      <4>2. call' = [call EXCEPT ![t] = call[t]]
        BY <3>3 DEF CallsType
      <4>. QED BY <3>3, <4>1, <4>2, PcLift DEF Goto, Labels
    <3>. QED BY <2>5, <3>1, <3>2, <3>3 DEF Unpin, Waited
  <2>6. CASE RecycleWaited(t)
    <3>1. CASE Return(t)
      <4>1. PcOK("idle", NoCall)
        BY PcBlank DEF Labels
      <4>. QED BY <3>1, <4>1, PcLift DEF Return, Labels
    <3>2. CASE Goto(t, "try_harvest") /\ UNCHANGED call
      <4>1. PcOK("try_harvest", call[t])
        BY <2>6, <3>2, <1>0 DEF PcOK, CallType, RecycleWaited
      <4>2. call' = [call EXCEPT ![t] = call[t]]
        BY <3>2 DEF CallsType
      <4>. QED BY <3>2, <4>1, <4>2, PcLift DEF Goto, Labels
    <3>. QED BY <2>6, <3>1, <3>2 DEF RecycleWaited, Waited
  <2>7. CASE Poll(t)
    <3>1. PcOK("try_harvest", [call[t] EXCEPT !.op = "poll"])
      BY <2>7, <1>0 DEF Poll, PcOK, CallType, Begin, MayCall
    <3>. QED BY <2>7, <3>1, PcLift DEF Poll, Goto, Labels, Begin
  <2>8. CASE PollFails(t)
    BY <2>8, PcSame DEF PollFails
  <2>9. CASE BeginWaitIdle(t)
    <3>1. PcOK("wait_idle", [NoCall EXCEPT !.op = "wait_idle", !.index = last_issued])
      BY <2>9, <1>0 DEF BeginWaitIdle, PcOK, CallType, Begin, MayCall, NoCall
    <3>. QED BY <2>9, <3>1, PcLift DEF BeginWaitIdle, Goto, Labels, Begin
  <2>10. CASE WaitIdle(t)
    <3>1. PcOK("lock_retire", call[t])
      BY <2>10, <1>0 DEF WaitIdle, PcOK
    <3>2. call' = [call EXCEPT ![t] = call[t]]
      BY <2>10 DEF WaitIdle, CallsType
    <3>. QED BY <2>10, <3>1, <3>2, PcLift DEF WaitIdle, Goto, Labels
  <2>11. CASE WaitIdleFails(t)
    <3>1. PcOK("idle", NoCall)
      BY PcBlank DEF Labels
    <3>. QED BY <2>11, <3>1, PcLift DEF WaitIdleFails, Return, Labels
  <2>. QED BY <1>3, <2>1, <2>2, <2>3, <2>4, <2>5, <2>6, <2>7, <2>8, <2>9, <2>10, <2>11 DEF WaitStep
<1>4. ASSUME NEW t \in Threads, SurfaceStep(t) PROVE PcInv'
  <2>1. PICK l \in SurfaceLabels, c \in CallType : Moves(t, l, c)
    BY <1>4, SurfaceMove
  <2>. QED BY <1>4, <2>1, SurfaceMove, MoveFacts, PcLift
<1>5. CASE GpuFinish
  BY <1>5, PcSame DEF GpuFinish
<1>6. ASSUME NEW i \in Images, ImageFree(i) PROVE PcInv'
  BY <1>6, PcSame DEF ImageFree
<1>7. CASE Drop
  BY <1>7, PcSame DEF Drop
<1>8. CASE UNCHANGED vars
  BY <1>8, PcSame DEF vars
<1>. QED BY <1>1, <1>2, <1>3, <1>4, <1>5, <1>6, <1>7, <1>8 DEF Next, Ended, SurfaceStep

-----------------------------------------------------------------------------
(* Steps that no fence notices                                             *)

LEMMA SameMove ==
  ASSUME CallsType, NEW t \in Threads, NEW l \in Labels, NEW c,
         pc' = [pc EXCEPT ![t] = l], call' = [call EXCEPT ![t] = c],
         c.frame = call[t].frame,
         \/ pc[t] \in Plain /\ l \in Plain
         \/ /\ pc[t] \in Plain \cup {"cleanup"} /\ l \in Plain \cup {"cleanup"}
            /\ call[t].fence = None /\ c.fence = None
         \/ /\ pc[t] = "wait" /\ l = "unpin"
            /\ c.fence = call[t].fence /\ c.index = call[t].index
  PROVE  \A u \in Threads : Same(u)
<1>1. pc'[t] = l /\ call'[t] = c
  BY DEF CallsType
<1>2. \A u \in Threads \ {t} : pc'[u] = pc[u] /\ call'[u] = call[u]
  BY DEF CallsType
<1>3. ASSUME NEW u \in Threads \ {t} PROVE Same(u)
  BY <1>2 DEF Same, Looking, Popping, Waiter, Failed
<1>4. Same(t)
  BY <1>1 DEF Same, Looking, Popping, Waiter, Failed, Plain
<1>. QED BY <1>3, <1>4

LEMMA SameAll == ASSUME UNCHANGED <<pc, call>> PROVE \A t \in Threads : Same(t)
  BY DEF Same, Looking, Popping, Waiter, Failed

LEMMA SameGoto ==
  ASSUME CallsType, NEW t \in Threads, NEW l \in Plain, pc[t] \in Plain, Goto(t, l),
         UNCHANGED call
  PROVE  \A u \in Threads : Same(u)
<1>1. l \in Labels /\ call' = [call EXCEPT ![t] = call[t]]
  BY DEF Plain, CallsType
<1>. QED BY <1>1, SameMove DEF Goto

LEMMA SameReturn ==
  ASSUME CallsType, NEW t \in Threads, pc[t] \in Plain, call[t].frame = None, Return(t)
  PROVE  \A u \in Threads : Same(u)
<1>1. NoCall.frame = call[t].frame /\ "idle" \in Plain /\ "idle" \in Labels
  BY DEF NoCall, Plain, Labels
<1>. QED BY <1>1, SameMove DEF Return

LEMMA QuietStep ==
  ASSUME TypeOK, PcInv, [Next]_vars
  PROVE  Quiet \/ (\E t \in Threads : Busy(t)) \/ GpuFinish \/ Drop
<1> DEFINE Goal == Quiet \/ (\E t \in Threads : Busy(t)) \/ GpuFinish \/ Drop
<1>. CallsType /\ completed \in Nat
  BY DEF TypeOK, TrackerType
<1>0. \A t \in Threads : call[t] \in CallType /\ PcOK(pc[t], call[t])
  BY DEF TypeOK, CallsType, PcInv
<1>00. /\ NoCall.frame = None /\ NoCall.fence = None
       /\ \A o : [NoCall EXCEPT !.op = o].frame = None
       /\ \A o, p : [NoCall EXCEPT !.op = o, !.pool = p].frame = None
       /\ \A o, p : [NoCall EXCEPT !.op = o, !.index = p].frame = None
  BY DEF NoCall
<1>000. /\ \A c \in CallType : \A o : /\ [c EXCEPT !.op = o].frame = c.frame
                                     /\ [c EXCEPT !.acquire = o].frame = c.frame
                                     /\ [c EXCEPT !.from = o].frame = c.frame
                                     /\ [c EXCEPT !.failed = o].frame = c.frame
        /\ \A c \in CallType : \A o : /\ [c EXCEPT !.failed = o].fence = c.fence
                                     /\ [c EXCEPT !.failed = o].index = c.index
  BY DEF CallType
<1>1. ASSUME NEW t \in Threads, SubmitStep(t) PROVE Goal
  <2>1. ASSUME NEW op \in Ops, BeginSubmit(t, op) PROVE Goal
    <3>p. PICK p \in Pools : call' = [call EXCEPT ![t] = [NoCall EXCEPT !.op = op, !.pool = p]]
      BY Zenon, <2>1 DEF BeginSubmit
    <3>1. pc' = [pc EXCEPT ![t] = "record"] /\ call' = [call EXCEPT ![t] = [NoCall EXCEPT !.op = op, !.pool = p]]
      BY <2>1, <3>p DEF BeginSubmit, Begin, Goto, CallsType
    <3>2. \A u \in Threads : Same(u)
      <4>1. pc[t] \in Plain /\ "record" \in Plain /\ "record" \in Labels
        BY <2>1, <3>p DEF BeginSubmit, Plain, Labels, Begin, MayCall
      <4>2. ([NoCall EXCEPT !.op = op, !.pool = p]).frame = call[t].frame
        BY <2>1, <3>p, <1>0, <1>00, <1>000 DEF BeginSubmit, PcOK, Begin, MayCall
      <4>. QED BY <3>1, <4>1, <4>2, SameMove
    <3>. QED BY <2>1, <3>p, <3>2 DEF Quiet, BeginSubmit
  <2>2. CASE Record(t)
    <3>1. pc' = [pc EXCEPT ![t] = "submit"] /\ call' = [call EXCEPT ![t] = [call[t] EXCEPT !.from = layout]]
      BY <2>2 DEF Record, Goto, CallsType
    <3>2. \A u \in Threads : Same(u)
      <4>1. pc[t] \in Plain /\ "submit" \in Plain /\ "submit" \in Labels
        BY <2>2 DEF Record, Plain, Labels
      <4>2. ([call[t] EXCEPT !.from = layout]).frame = call[t].frame
        BY <2>2, <1>0, <1>00, <1>000 DEF Record, PcOK
      <4>. QED BY <3>1, <4>1, <4>2, SameMove
    <3>. QED BY <2>2, <3>2 DEF Quiet, Record
  <2>3. CASE RecordFails(t)
    <3>1. pc' = [pc EXCEPT ![t] = "cleanup"] /\ call' = [call EXCEPT ![t] = call[t]]
      BY <2>3 DEF RecordFails, Goto, CallsType
    <3>2. \A u \in Threads : Same(u)
      <4>1. pc[t] \in Plain \cup {"cleanup"} /\ "cleanup" \in Plain \cup {"cleanup"} /\ "cleanup" \in Labels
        BY <2>3 DEF RecordFails, Plain, Labels
      <4>2. (call[t]).frame = call[t].frame /\ (call[t]).fence = None /\ call[t].fence = None
        BY <2>3, <1>0, <1>00, <1>000 DEF RecordFails, PcOK
      <4>. QED BY <3>1, <4>1, <4>2, SameMove
    <3>. QED BY <2>3, <3>2 DEF Quiet, RecordFails
  <2>4. CASE Submit(t)
    BY <2>4 DEF Busy
  <2>5. CASE SubmitFails(t)
    <3>1. CASE UNCHANGED call
      <4>1. pc' = [pc EXCEPT ![t] = "cleanup"] /\ call' = [call EXCEPT ![t] = call[t]]
        BY <2>5, <3>1 DEF SubmitFails, Goto, Fails, CallsType
      <4>2. \A u \in Threads : Same(u)
        <5>1. pc[t] \in Plain \cup {"cleanup"} /\ "cleanup" \in Plain \cup {"cleanup"} /\ "cleanup" \in Labels
          BY <2>5, <3>1 DEF SubmitFails, Plain, Labels
        <5>2. (call[t]).frame = call[t].frame /\ (call[t]).fence = None /\ call[t].fence = None
          BY <2>5, <3>1, <1>0, <1>00, <1>000 DEF SubmitFails, PcOK
        <5>. QED BY <4>1, <5>1, <5>2, SameMove
      <4>3. call[t].fence = None /\ None \notin Fences
        BY <2>5, <1>0, VulkanAssumption DEF SubmitFails, PcOK
      <4>4. UNCHANGED <<fence_state, free_fences>>
        <5>1. ASSUME NEW f \in Fences, call' = [call EXCEPT ![t].fence = f] PROVE FALSE
          <6>1. call'[t] = [call[t] EXCEPT !.fence = f] /\ call'[t] = call[t]
            BY <5>1, <3>1 DEF CallsType
          <6>2. call'[t].fence = f
            BY <6>1, <1>0 DEF CallType
          <6>. QED BY <4>3, <6>1, <6>2
        <5>. QED BY <2>5, <5>1 DEF SubmitFails
      <4>. QED BY <2>5, <4>2, <4>4 DEF Quiet, SubmitFails
    <3>2. CASE call' # call
      BY <2>5, <3>2 DEF Busy
    <3>. QED BY <3>1, <3>2
  <2>6. CASE Cleanup(t)
    <3>1. CASE call[t].fence = None
      <4>1. pc' = [pc EXCEPT ![t] = "idle"] /\ call' = [call EXCEPT ![t] = NoCall]
        BY <2>6, <3>1 DEF Cleanup, Return, CallsType
      <4>2. \A u \in Threads : Same(u)
        <5>1. pc[t] \in Plain \cup {"cleanup"} /\ "idle" \in Plain \cup {"cleanup"} /\ "idle" \in Labels
          BY <2>6, <3>1 DEF Cleanup, Plain, Labels
        <5>2. (NoCall).frame = call[t].frame /\ (NoCall).fence = None /\ call[t].fence = None
          BY <2>6, <3>1, <1>0, <1>00, <1>000 DEF Cleanup, PcOK
        <5>. QED BY <4>1, <5>1, <5>2, SameMove
      <4>. QED BY <2>6, <3>1, <4>2 DEF Quiet, Cleanup
    <3>2. CASE call[t].fence # None
      BY <2>6, <3>2 DEF Busy
    <3>. QED BY <3>1, <3>2
  <2>. QED BY <1>1, <2>1, <2>2, <2>3, <2>4, <2>5, <2>6 DEF SubmitStep
<1>2. ASSUME NEW t \in Threads, RetireStep(t) PROVE Goal
  <2>1. CASE LockRetire(t)
    <3>1. \A u \in Threads : Same(u)
      BY <2>1, SameGoto DEF LockRetire, Plain, Labels
    <3>. QED BY <2>1, <3>1 DEF Quiet, LockRetire
  <2>2. CASE TryHarvest(t)
    <3>1. CASE Goto(t, "harvest") /\ UNCHANGED call
      <4>1. \A u \in Threads : Same(u)
        BY <2>2, <3>1, SameGoto DEF TryHarvest, Plain, Labels
      <4>. QED BY <2>2, <3>1, <4>1 DEF Quiet, TryHarvest
    <3>2. CASE Return(t)
      <4>1. \A u \in Threads : Same(u)
        BY <2>2, <3>2, <1>0, SameReturn DEF TryHarvest, PcOK, Plain, Labels
      <4>. QED BY <2>2, <3>2, <4>1 DEF Quiet, TryHarvest
    <3>. QED BY <2>2, <3>1, <3>2 DEF TryHarvest
  <2>3. CASE HarvestFrame(t) \/ Track(t) \/ RecycleOld(t) \/ EvictFrame(t)
    BY <2>3 DEF Busy
  <2>4. CASE HarvestEnds(t)
    <3>1. CASE call[t].frame = None
      <4>1. \A u \in Threads : Same(u)
        BY <2>4, <3>1, <1>0, SameReturn DEF HarvestEnds, PcOK, Plain, Labels
      <4>. QED BY <2>4, <3>1, <4>1 DEF Quiet, HarvestEnds
    <3>2. CASE call[t].frame # None
      BY <2>4, <3>2 DEF Busy
    <3>. QED BY <3>1, <3>2
  <2>5. CASE HarvestFails(t)
    <3>1. CASE call[t].frame = None
      <4>1. \A u \in Threads : Same(u)
        BY <2>5, <3>1, <1>0, SameReturn DEF HarvestFails, PcOK, Plain, Labels
      <4>. QED BY <2>5, <3>1, <4>1 DEF Quiet, HarvestFails
    <3>2. CASE call[t].frame # None
      BY <2>5, <3>2 DEF Busy
    <3>. QED BY <3>1, <3>2
  <2>6. CASE EvictFails(t)
    <3>1. \A u \in Threads : Same(u)
      BY <2>6, <1>0, SameReturn DEF EvictFails, PcOK, Plain, Labels
    <3>. QED BY <2>6, <3>1 DEF Quiet, EvictFails
  <2>7. CASE SubmitReturns(t)
    <3>1. CASE Return(t)
      <4>1. \A u \in Threads : Same(u)
        BY <2>7, <3>1, <1>0, SameReturn DEF SubmitReturns, PcOK, Plain, Labels
      <4>. QED BY <2>7, <3>1, <4>1 DEF Quiet, SubmitReturns
    <3>2. CASE Goto(t, "wait_test") /\ call' = [call EXCEPT ![t] = [NoCall EXCEPT !.op = "submit_empty", !.index = call[t].index]]
      <4>1. pc' = [pc EXCEPT ![t] = "wait_test"] /\ call' = [call EXCEPT ![t] = [NoCall EXCEPT !.op = "submit_empty", !.index = call[t].index]]
        BY <2>7, <3>2 DEF SubmitReturns, Return, Goto, CallsType
      <4>2. \A u \in Threads : Same(u)
        <5>1. pc[t] \in Plain /\ "wait_test" \in Plain /\ "wait_test" \in Labels
          BY <2>7, <3>2 DEF SubmitReturns, Plain, Labels
        <5>2. ([NoCall EXCEPT !.op = "submit_empty", !.index = call[t].index]).frame = call[t].frame
          BY <2>7, <3>2, <1>0, <1>00, <1>000 DEF SubmitReturns, PcOK
        <5>. QED BY <4>1, <5>1, <5>2, SameMove
      <4>. QED BY <2>7, <3>2, <4>2 DEF Quiet, SubmitReturns
    <3>. QED BY <2>7, <3>1, <3>2 DEF SubmitReturns
  <2>. QED BY <1>2, <2>1, <2>2, <2>3, <2>4, <2>5, <2>6, <2>7 DEF RetireStep
<1>3. ASSUME NEW t \in Threads, WaitStep(t) PROVE Goal
  <2>1. CASE BeginWait(t)
    <3>p. PICK i \in returned : call' = [call EXCEPT ![t] = [NoCall EXCEPT !.op = "wait", !.index = i]]
      BY Zenon, <2>1 DEF BeginWait
    <3>1. pc' = [pc EXCEPT ![t] = "wait_test"] /\ call' = [call EXCEPT ![t] = [NoCall EXCEPT !.op = "wait", !.index = i]]
      BY <2>1, <3>p DEF BeginWait, Begin, Goto, CallsType
    <3>2. \A u \in Threads : Same(u)
      <4>1. pc[t] \in Plain /\ "wait_test" \in Plain /\ "wait_test" \in Labels
        BY <2>1, <3>p DEF BeginWait, Plain, Labels, Begin, MayCall
      <4>2. ([NoCall EXCEPT !.op = "wait", !.index = i]).frame = call[t].frame
        BY <2>1, <3>p, <1>0, <1>00, <1>000 DEF BeginWait, PcOK, Begin, MayCall
      <4>. QED BY <3>1, <4>1, <4>2, SameMove
    <3>. QED BY <2>1, <3>p, <3>2 DEF Quiet, BeginWait
  <2>2. CASE WaitTest(t)
    <3>1. CASE Return(t) /\ UNCHANGED pinned
      <4>1. \A u \in Threads : Same(u)
        BY <2>2, <3>1, <1>0, SameReturn DEF WaitTest, PcOK, Plain, Labels
      <4>. QED BY <2>2, <3>1, <4>1 DEF Quiet, WaitTest
    <3>2. CASE Goto(t, "try_harvest") /\ UNCHANGED <<call, pinned>>
      <4>1. \A u \in Threads : Same(u)
        BY <2>2, <3>2, SameGoto DEF WaitTest, Plain, Labels
      <4>. QED BY <2>2, <3>2, <4>1 DEF Quiet, WaitTest
    <3>3. CASE Goto(t, "wait")
      BY <2>2, <3>3 DEF Busy
    <3>. QED BY <2>2, <3>1, <3>2, <3>3 DEF WaitTest
  <2>3. CASE Wait(t)
    <3>1. pc' = [pc EXCEPT ![t] = "unpin"] /\ call' = [call EXCEPT ![t] = call[t]]
      BY <2>3 DEF Wait, Goto, CallsType
    <3>2. \A u \in Threads : Same(u)
      <4>1. pc[t] = "wait"
        BY <2>3 DEF Wait
      <4>2. LET c == call[t] IN c.frame = call[t].frame /\ c.fence = call[t].fence /\ c.index = call[t].index
        BY <1>0, <1>000
      <4>. QED BY <3>1, <4>1, <4>2, SameMove DEF Labels
    <3>. QED BY <2>3, <3>2 DEF Quiet, Wait
  <2>4. CASE WaitFails(t)
    <3>1. pc' = [pc EXCEPT ![t] = "unpin"] /\ call' = [call EXCEPT ![t] = [call[t] EXCEPT !.failed = TRUE]]
      BY <2>4 DEF WaitFails, Goto, CallsType
    <3>2. \A u \in Threads : Same(u)
      <4>1. pc[t] = "wait"
        BY <2>4 DEF WaitFails
      <4>2. LET c == [call[t] EXCEPT !.failed = TRUE] IN c.frame = call[t].frame /\ c.fence = call[t].fence /\ c.index = call[t].index
        BY <1>0, <1>000
      <4>. QED BY <3>1, <4>1, <4>2, SameMove DEF Labels
    <3>. QED BY <2>4, <3>2 DEF Quiet, WaitFails
  <2>5. CASE Unpin(t) \/ RecycleWaited(t)
    BY <2>5 DEF Busy
  <2>6. CASE Poll(t)
    <3>1. pc' = [pc EXCEPT ![t] = "try_harvest"] /\ call' = [call EXCEPT ![t] = [call[t] EXCEPT !.op = "poll"]]
      BY <2>6 DEF Poll, Begin, Goto, CallsType
    <3>2. \A u \in Threads : Same(u)
      <4>1. pc[t] \in Plain /\ "try_harvest" \in Plain /\ "try_harvest" \in Labels
        BY <2>6 DEF Poll, Plain, Labels, Begin, MayCall
      <4>2. ([call[t] EXCEPT !.op = "poll"]).frame = call[t].frame
        BY <2>6, <1>0, <1>00, <1>000 DEF Poll, PcOK, Begin, MayCall
      <4>. QED BY <3>1, <4>1, <4>2, SameMove
    <3>3. completed <= completed'
      BY <2>6 DEF Poll, MarkCompleted, MaxOf, Proven, TypeOK, CallsType, CallType
    <3>. QED BY <2>6, <3>2, <3>3 DEF Quiet, Poll
  <2>7. CASE PollFails(t)
    <3>1. completed <= completed'
      BY <2>7 DEF PollFails, Proven, TypeOK, TrackerType
    <3>. QED BY <2>7, <3>1, SameAll DEF Quiet, PollFails
  <2>8. CASE BeginWaitIdle(t)
    <3>1. pc' = [pc EXCEPT ![t] = "wait_idle"] /\ call' = [call EXCEPT ![t] = [NoCall EXCEPT !.op = "wait_idle", !.index = last_issued]]
      BY <2>8 DEF BeginWaitIdle, Begin, Goto, CallsType
    <3>2. \A u \in Threads : Same(u)
      <4>1. pc[t] \in Plain /\ "wait_idle" \in Plain /\ "wait_idle" \in Labels
        BY <2>8 DEF BeginWaitIdle, Plain, Labels, Begin, MayCall
      <4>2. ([NoCall EXCEPT !.op = "wait_idle", !.index = last_issued]).frame = call[t].frame
        BY <2>8, <1>0, <1>00, <1>000 DEF BeginWaitIdle, PcOK, Begin, MayCall
      <4>. QED BY <3>1, <4>1, <4>2, SameMove
    <3>. QED BY <2>8, <3>2 DEF Quiet, BeginWaitIdle
  <2>9. CASE WaitIdle(t)
    <3>1. \A u \in Threads : Same(u)
      BY <2>9, SameGoto DEF WaitIdle, Plain, Labels
    <3>2. completed <= completed'
      BY <2>9 DEF WaitIdle, MarkCompleted, MaxOf, Proven, TypeOK, CallsType, CallType
    <3>. QED BY <2>9, <3>1, <3>2 DEF Quiet, WaitIdle
  <2>10. CASE WaitIdleFails(t)
    <3>1. \A u \in Threads : Same(u)
      BY <2>10, <1>0, SameReturn DEF WaitIdleFails, PcOK, Plain, Labels
    <3>. QED BY <2>10, <3>1 DEF Quiet, WaitIdleFails
  <2>. QED BY <1>3, <2>1, <2>2, <2>3, <2>4, <2>5, <2>6, <2>7, <2>8, <2>9, <2>10 DEF WaitStep
<1>4. ASSUME NEW t \in Threads, SurfaceStep(t) PROVE Goal
  <2>1. PICK l \in SurfaceLabels, c \in CallType : Moves(t, l, c)
    BY <1>4, SurfaceMove
  <2>2. pc[t] \in SurfaceLabels
    BY <1>4, SurfaceMove
  <2>3. pc[t] \in Plain /\ l \in Plain
    BY <2>2 DEF SurfaceLabels, Plain, Labels
  <2>4. \A u \in Threads : Same(u)
    BY <2>1, <2>2, <2>3, MoveFacts, SameMove
  <2>. QED BY <1>4, <2>4, SurfaceMove DEF Quiet
<1>5. CASE GpuFinish
  BY <1>5
<1>6. ASSUME NEW i \in Images, ImageFree(i) PROVE Goal
  BY <1>6, SameAll DEF Quiet, ImageFree
<1>7. CASE Drop
  BY <1>7
<1>8. CASE UNCHANGED vars
  BY <1>8, SameAll DEF Quiet, vars
<1>. QED BY <1>1, <1>2, <1>3, <1>4, <1>5, <1>6, <1>7, <1>8 DEF Next, Ended, SurfaceStep

-----------------------------------------------------------------------------
(* What such steps keep                                                    *)

\* A submission stays the last use of its fence until the fence is given away.
LEMMA CurrentKept ==
  ASSUME TypeOK, NEW i, NEW f, Current(i, f),
         fence_state'[f] = fence_state[f], done' = done,
         gpu' = gpu \/ \E w \in WorkType : w.fence # f /\ gpu' = Append(gpu, w)
  PROVE  Current(i, f)'
<1>. GpuType
  BY DEF TypeOK
<1>1. PICK k \in DOMAIN gpu : At(i, f, k)
  BY DEF Current
<1>2. CASE gpu' = gpu
  BY <1>1, <1>2 DEF Current, At
<1>3. ASSUME NEW w \in WorkType, w.fence # f, gpu' = Append(gpu, w)
      PROVE  Current(i, f)'
  <2>1. /\ Len(gpu) \in Nat /\ DOMAIN gpu = 1 .. Len(gpu)
        /\ DOMAIN gpu' = 1 .. Len(gpu) + 1 /\ gpu'[Len(gpu) + 1] = w
        /\ \A l \in DOMAIN gpu : gpu'[l] = gpu[l]
    BY <1>3, GpuAppend
  <2>2. ASSUME NEW l \in DOMAIN gpu', l > k PROVE gpu'[l].fence # f
    <3>1. CASE l = Len(gpu) + 1
      BY Zenon, <1>3, <2>1, <3>1
    <3>2. CASE l \in DOMAIN gpu
      BY <1>1, <2>1, <2>2, <3>2 DEF At
    <3>3. l = Len(gpu) + 1 \/ l \in 1 .. Len(gpu)
      BY <2>1, <2>2
    <3>. QED BY <2>1, <3>1, <3>2, <3>3
  <2>3. k \in DOMAIN gpu' /\ gpu'[k] = gpu[k]
    BY <1>1, <2>1
  <2>4. At(i, f, k)'
    BY <1>1, <2>2, <2>3 DEF At
  <2>. QED BY <2>3, <2>4 DEF Current
<1>. QED BY <1>2, <1>3

\* Only fences are ever in use.
LEMMA CurrentFence ==
  ASSUME TypeOK, NEW i, NEW f, Current(i, f)
  PROVE  f \in Fences /\ f # None /\ i # 0 /\ fence_state[f] # "absent"
  BY VulkanAssumption DEF Current, At, TypeOK, GpuType

LEMMA QuietSets ==
  ASSUME Quiet
  PROVE  /\ Framed' = Framed /\ Handed' = Handed /\ Popped' = Popped
         /\ Watched' = Watched /\ Uses' = Uses /\ Free' = Free
         /\ \A f : Pins(f)' = Pins(f) /\ (Held(f)' <=> Held(f))
         /\ \A t \in Threads : (Popping(t)' <=> Popping(t)) /\ (Late(t)' <=> Late(t))
<1>1. \A t \in Threads : (Popping(t)' <=> Popping(t)) /\ (Late(t)' <=> Late(t))
                         /\ (Waiter(t)' <=> Waiter(t))
  BY DEF Quiet, Same, Popping, Late, Looking, Waiter
<1>2. Framed' = Framed
  BY DEF Quiet, Framed, Key
<1>3. Handed' = Handed
  BY DEF Quiet, Same, Handed, Key
<1>4. Popped' = Popped
  BY <1>1 DEF Quiet, Same, Popped, Key
<1>5. Watched' = Watched
  BY <1>1 DEF Quiet, Same, Watched
<1>6. \A f : Pins(f)' = Pins(f)
  BY DEF Quiet, Same, Pins, Looking, Waiter
<1>7. \A f : Held(f)' <=> Held(f)
  BY <1>2, <1>3, <1>4 DEF Held, Quiet
<1>8. Uses' = Uses /\ Free' = Free
  BY <1>2, <1>3, <1>4, <1>5 DEF Uses, Free, Quiet
<1>. QED BY <1>1, <1>2, <1>3, <1>4, <1>5, <1>6, <1>7, <1>8

LEMMA QuietGpu ==
  ASSUME TypeOK, Quiet
  PROVE  /\ \A k \in DOMAIN gpu : k \in DOMAIN gpu' /\ gpu'[k] = gpu[k]
         /\ \A k \in DOMAIN gpu' \ DOMAIN gpu : gpu'[k].index = 0
         /\ DOMAIN gpu = 1 .. Len(gpu) /\ DOMAIN gpu' = 1 .. Len(gpu')
         /\ Len(gpu) \in Nat /\ Len(gpu') \in Nat /\ Len(gpu) <= Len(gpu')
<1>. GpuType /\ gpu \in Seq(WorkType)
  BY DEF TypeOK, GpuType
<1>1. CASE gpu' = gpu
  BY <1>1
<1>2. ASSUME NEW w \in WorkType, w.index = 0, gpu' = Append(gpu, w)
      PROVE  /\ \A k \in DOMAIN gpu : k \in DOMAIN gpu' /\ gpu'[k] = gpu[k]
             /\ \A k \in DOMAIN gpu' \ DOMAIN gpu : gpu'[k].index = 0
             /\ DOMAIN gpu = 1 .. Len(gpu) /\ DOMAIN gpu' = 1 .. Len(gpu')
             /\ Len(gpu) \in Nat /\ Len(gpu') \in Nat /\ Len(gpu) <= Len(gpu')
  BY <1>2, GpuAppend
<1>. QED BY <1>1, <1>2 DEF Quiet

LEMMA QuietKeeps ==
  ASSUME TypeOK, TypeOK', PcInv, UsesInv, IndexInv, FrameInv, FreeInv, PinInv, TrackInv, Quiet
  PROVE  UsesInv' /\ FrameInv' /\ FreeInv' /\ PinInv' /\ TrackInv'
<1>1. UsesInv'
  <2>1. \A u \in Uses : Current(u[1], u[2])'
    <3>1. TAKE u \in Uses
    <3>2. Current(u[1], u[2]) /\ u[2] # None
      BY CurrentFence DEF UsesInv
    <3>. QED BY <3>2, CurrentKept DEF Quiet
  <2>. QED BY <2>1, QuietSets DEF UsesInv
<1>2. FrameInv'
  <2>1. \A t \in Threads : call'[t].frame = call[t].frame /\ (Popping(t)' <=> Popping(t))
                            /\ (Popping(t) => call'[t].old = call[t].old)
    BY QuietSets DEF Quiet, Same
  <2>2. \A k \in DOMAIN gpu' : gpu'[k].index # 0 => k \in DOMAIN gpu /\ gpu'[k] = gpu[k]
    BY QuietGpu
  <2>3. \A k \in done' + 1 .. Len(gpu') : gpu'[k].index # 0 =>
          <<gpu'[k].index, gpu'[k].fence>> \in Framed' \cup Handed'
    <3>1. TAKE k \in done' + 1 .. Len(gpu')
    <3>2. HAVE gpu'[k].index # 0
    <3>3. k \in done + 1 .. Len(gpu) /\ gpu'[k] = gpu[k]
      BY <3>1, <3>2, <2>2, QuietGpu DEF Quiet, TypeOK, GpuType
    <3>. QED BY <3>2, <3>3, QuietSets DEF FrameInv
  <2>4. frames' = frames
    BY DEF Quiet
  <2>. QED BY <2>1, <2>3, <2>4 DEF FrameInv
<1>3. FreeInv'
  <2>1. \A t \in Threads : (Failed(t)' <=> Failed(t))
                            /\ (Failed(t) => call'[t].fence = call[t].fence)
    BY DEF Quiet, Same
  <2>2. free_fences' = free_fences /\ fence_state' = fence_state
    BY DEF Quiet
  <2>. QED BY <2>1, <2>2, QuietSets DEF FreeInv
<1>4. PinInv'
  <2>1. \A t \in Threads : /\ pc'[t] = "recycle_old" <=> pc[t] = "recycle_old"
                           /\ pc'[t] = "track" <=> pc[t] = "track"
                           /\ (Popping(t) => call'[t].old = call[t].old)
                           /\ (Late(t) => call'[t].fence = call[t].fence)
    BY DEF Quiet, Same, Late, Waiter
  <2>2. /\ pinned' = pinned /\ fences' = fences /\ pending_destroy' = pending_destroy
        /\ fence_state' = fence_state
    BY DEF Quiet
  <2>. QED BY <2>1, <2>2, QuietSets DEF PinInv, Popping, Key
<1>5. TrackInv'
  <2>1. Tracked' = Tracked
    BY DEF Quiet, Same, Popping, Key, Tracked
  <2>2. ~dropped' => \A k \in DOMAIN gpu' : gpu'[k].index > completed' =>
          <<gpu'[k].index, gpu'[k].fence>> \in fences'
    <3>1. SUFFICES ASSUME ~dropped, NEW k \in DOMAIN gpu', gpu'[k].index > completed'
                   PROVE  <<gpu'[k].index, gpu'[k].fence>> \in fences
      BY DEF Quiet
    <3>2. completed \in Nat /\ completed' \in Nat /\ completed <= completed'
      BY DEF TypeOK, TrackerType, Quiet
    <3>3. gpu'[k] \in WorkType
      BY <3>1 DEF TypeOK, GpuType
    <3>4. gpu'[k].index \in Nat /\ gpu'[k].index # 0
      BY <3>1, <3>2, <3>3 DEF WorkType
    <3>5. k \in DOMAIN gpu /\ gpu'[k] = gpu[k]
      BY <3>1, <3>4, QuietGpu
    <3>. QED BY <3>1, <3>2, <3>4, <3>5 DEF TrackInv
  <2>. QED BY <2>1, <2>2, QuietSets DEF TrackInv, Quiet
<1>. QED BY <1>1, <1>2, <1>3, <1>4, <1>5

-----------------------------------------------------------------------------
(* Where fences are used                                                   *)

\* A use is known by its index and by its fence.
LEMMA UseFacts ==
  ASSUME TypeOK, UsesInv, IndexInv
  PROVE  /\ \A u \in Uses : /\ Current(u[1], u[2])
                            /\ u[1] \in Nat /\ u[1] # 0 /\ u[1] <= last_issued
                            /\ u[2] \in Fences /\ fence_state[u[2]] # "absent"
         /\ \A u, v \in Uses : u[1] = v[1] <=> u[2] = v[2]
<1>0. \A k \in DOMAIN gpu : gpu[k].index \in Nat /\ k \in Nat
  <2>1. gpu \in Seq(WorkType)
    BY DEF TypeOK, GpuType
  <2>2. \A k \in DOMAIN gpu : gpu[k] \in WorkType /\ k \in Nat
    BY <2>1
  <2>. QED BY <2>2 DEF WorkType
<1>1. ASSUME NEW u \in Uses
      PROVE  /\ Current(u[1], u[2])
             /\ u[1] \in Nat /\ u[1] # 0 /\ u[1] <= last_issued
             /\ u[2] \in Fences /\ fence_state[u[2]] # "absent"
  <2>1. Current(u[1], u[2])
    BY DEF UsesInv
  <2>2. PICK k \in DOMAIN gpu : gpu[k].index = u[1]
    BY <2>1 DEF Current, At
  <2>. QED BY <2>1, <2>2, <1>0, CurrentFence DEF IndexInv
<1>2. ASSUME NEW u \in Uses, NEW v \in Uses PROVE u[1] = v[1] <=> u[2] = v[2]
  <2>1. PICK k \in DOMAIN gpu : At(u[1], u[2], k)
    BY <1>1 DEF Current
  <2>2. PICK l \in DOMAIN gpu : At(v[1], v[2], l)
    BY <1>1 DEF Current
  <2>3. u[1] # 0 /\ v[1] # 0
    BY <1>1
  <2>4. k \in Nat /\ l \in Nat
    BY <1>0
  <2>5. ASSUME u[1] = v[1] PROVE k = l
    BY <1>0, <2>1, <2>2, <2>3, <2>4, <2>5 DEF At, IndexInv
  <2>6. ASSUME u[2] = v[2] PROVE k = l
    BY <2>1, <2>2, <2>4, <2>6 DEF At
  <2>. QED BY <2>1, <2>2, <2>5, <2>6 DEF At
<1>. QED BY <1>1, <1>2

LEMMA UseKinds ==
  /\ \A k \in DOMAIN frames : Key(frames[k]) \in Framed /\ Key(frames[k]) \in Uses
  /\ \A t \in Threads : /\ call[t].frame # None =>
                             Key(call[t].frame) \in Handed /\ Key(call[t].frame) \in Uses
                        /\ Popping(t) => Key(call[t].old) \in Popped /\ Key(call[t].old) \in Uses
                        /\ Waiter(t) => /\ <<call[t].index, call[t].fence>> \in Watched
                                        /\ <<call[t].index, call[t].fence>> \in Uses
  /\ fences \subseteq Uses
  BY DEF Framed, Handed, Popped, Watched, Uses

LEMMA MoveSets ==
  ASSUME CallsType, NEW t \in Threads, NEW l \in Labels, NEW c,
         pc' = [pc EXCEPT ![t] = l], call' = [call EXCEPT ![t] = c]
  PROVE  /\ c.frame = call[t].frame => Handed' = Handed
         /\ c.frame # None /\ call[t].frame = None => Handed' = Handed \cup {Key(c.frame)}
         /\ c.frame = None => /\ Handed' \subseteq Handed
                              /\ Handed \subseteq Handed' \cup {Key(call[t].frame)}
         /\ ~InPop(l) /\ ~InPop(pc[t]) => Popped' = Popped
         /\ InPop(l) /\ InPop(pc[t]) /\ c.old = call[t].old => Popped' = Popped
         /\ InPop(l) /\ ~InPop(pc[t]) => Popped' = Popped \cup {Key(c.old)}
         /\ ~InPop(l) => Popped' \subseteq Popped
         /\ l # "track" /\ pc[t] # "track" => Tracked' = Tracked
         /\ l = "track" /\ pc[t] # "track" => Tracked' = Tracked \cup {Key(c.old)}
         /\ l # "track" => Tracked \subseteq Tracked' \cup {Key(call[t].old)}
         /\ ~InWait(l) /\ ~InWait(pc[t]) => Watched' = Watched
         /\ InWait(l) /\ InWait(pc[t]) /\ c.index = call[t].index /\ c.fence = call[t].fence
              => Watched' = Watched
         /\ InWait(l) /\ ~InWait(pc[t]) => Watched' = Watched \cup {<<c.index, c.fence>>}
         /\ ~InWait(l) => Watched' \subseteq Watched
<1>1. pc'[t] = l /\ call'[t] = c
  BY DEF CallsType
<1>2. \A u \in Threads \ {t} : pc'[u] = pc[u] /\ call'[u] = call[u]
  BY DEF CallsType
<1>3. c.frame = call[t].frame => Handed' = Handed
  BY <1>1, <1>2 DEF Handed, Key
<1>4. c.frame # None /\ call[t].frame = None => Handed' = Handed \cup {Key(c.frame)}
  BY <1>1, <1>2 DEF Handed, Key
<1>5. c.frame = None => /\ Handed' \subseteq Handed
                        /\ Handed \subseteq Handed' \cup {Key(call[t].frame)}
  BY <1>1, <1>2 DEF Handed, Key
<1>6. ~InPop(l) /\ ~InPop(pc[t]) => Popped' = Popped
  BY <1>1, <1>2 DEF Popped, Popping, InPop, Key
<1>7. InPop(l) /\ InPop(pc[t]) /\ c.old = call[t].old => Popped' = Popped
  BY <1>1, <1>2 DEF Popped, Popping, InPop, Key
<1>8. InPop(l) /\ ~InPop(pc[t]) => Popped' = Popped \cup {Key(c.old)}
  BY <1>1, <1>2 DEF Popped, Popping, InPop, Key
<1>9. ~InPop(l) => Popped' \subseteq Popped
  BY <1>1, <1>2 DEF Popped, Popping, InPop, Key
<1>10. /\ l # "track" /\ pc[t] # "track" => Tracked' = Tracked
       /\ l = "track" /\ pc[t] # "track" => Tracked' = Tracked \cup {Key(c.old)}
       /\ l # "track" => Tracked \subseteq Tracked' \cup {Key(call[t].old)}
  BY <1>1, <1>2 DEF Tracked, Key
<1>11. ~InWait(l) /\ ~InWait(pc[t]) => Watched' = Watched
  BY <1>1, <1>2 DEF Watched, Waiter, InWait
<1>12. InWait(l) /\ InWait(pc[t]) /\ c.index = call[t].index /\ c.fence = call[t].fence
         => Watched' = Watched
  BY <1>1, <1>2 DEF Watched, Waiter, InWait
<1>13. InWait(l) /\ ~InWait(pc[t]) => Watched' = Watched \cup {<<c.index, c.fence>>}
  BY <1>1, <1>2 DEF Watched, Waiter, InWait
<1>14. ~InWait(l) => Watched' \subseteq Watched
  BY <1>1, <1>2 DEF Watched, Waiter, InWait
<1>. QED BY <1>3, <1>4, <1>5, <1>6, <1>7, <1>8, <1>9, <1>10, <1>11, <1>12, <1>13, <1>14

LEMMA MovePins ==
  ASSUME CallsType, NEW t \in Threads, NEW l \in Labels, NEW c,
         pc' = [pc EXCEPT ![t] = l], call' = [call EXCEPT ![t] = c]
  PROVE  /\ ~InLook(l) /\ ~InLook(pc[t]) => \A f : Pins(f)' = Pins(f)
         /\ InLook(l) /\ ~InLook(pc[t]) =>
              /\ \A f : f # c.fence => Pins(f)' = Pins(f)
              /\ \A f : f = c.fence => Pins(f)' = Pins(f) \cup {t} /\ t \notin Pins(f)
         /\ ~InLook(l) /\ InLook(pc[t]) =>
              /\ \A f : f # call[t].fence => Pins(f)' = Pins(f)
              /\ \A f : f = call[t].fence => Pins(f)' = Pins(f) \ {t} /\ t \in Pins(f)
<1>1. pc'[t] = l /\ call'[t] = c
  BY DEF CallsType
<1>2. \A u \in Threads \ {t} : pc'[u] = pc[u] /\ call'[u] = call[u]
  BY DEF CallsType
<1>4. ~InLook(l) /\ ~InLook(pc[t]) => \A f : Pins(f)' = Pins(f)
  BY <1>1, <1>2 DEF Pins, Looking, InLook
<1>5. ASSUME InLook(l) /\ ~InLook(pc[t])
      PROVE  /\ \A f : f # c.fence => Pins(f)' = Pins(f)
             /\ \A f : f = c.fence => Pins(f)' = Pins(f) \cup {t} /\ t \notin Pins(f)
  BY <1>1, <1>2, <1>5 DEF Pins, Looking, InLook
<1>6. ASSUME ~InLook(l) /\ InLook(pc[t])
      PROVE  /\ \A f : f # call[t].fence => Pins(f)' = Pins(f)
             /\ \A f : f = call[t].fence => Pins(f)' = Pins(f) \ {t} /\ t \in Pins(f)
  BY <1>1, <1>2, <1>6 DEF Pins, Looking, InLook
<1>. QED BY <1>4, <1>5, <1>6

LEMMA MoveOthers ==
  ASSUME CallsType, NEW t \in Threads, NEW l \in Labels, NEW c,
         pc' = [pc EXCEPT ![t] = l], call' = [call EXCEPT ![t] = c]
  PROVE  /\ pc'[t] = l /\ call'[t] = c
         /\ \A u \in Threads : u # t =>
              /\ pc'[u] = pc[u] /\ call'[u] = call[u]
              /\ Popping(u)' <=> Popping(u)
              /\ Failed(u)' <=> Failed(u)
              /\ Late(u)' <=> Late(u)
         /\ Popping(t)' <=> InPop(l)
         /\ Failed(t)' <=> l = "cleanup" /\ c.fence # None
         /\ Late(t)' <=> l = "recycle_waited"
  BY DEF CallsType, Popping, Failed, Late, InPop

\* A fence that no thread waits for is not pinned.
LEMMA Unpinned ==
  ASSUME TypeOK, PinInv, NEW f \in Fences, \A u \in Uses : u[2] # f
  PROVE  Pins(f) = {} /\ pinned[f] = 0 /\ f \notin pending_destroy
<1>1. Pins(f) = {}
  BY UseKinds DEF Pins, Looking, Waiter
<1>2. pinned[f] = 0
  BY <1>1, FS_EmptySet DEF PinInv
<1>. QED BY <1>1, <1>2 DEF PinInv

-----------------------------------------------------------------------------
(* A fence is given to a submission                                        *)

\* What is in the free list, or absent, is in no other place.
LEMMA FreshFence ==
  ASSUME Base, NEW f, TakeFence(f)
  PROVE  /\ f \in Fences /\ \A u \in Uses : u[2] # f
         /\ Pins(f) = {} /\ pinned[f] = 0 /\ f \notin pending_destroy
         /\ \A t \in Threads : Failed(t) => call[t].fence # f
         /\ Free' = Free \ {f}
         /\ \A k, l \in DOMAIN free_fences' : free_fences'[k] = free_fences'[l] => k = l
<1>. TypeOK /\ RecycleType /\ free_fences \in Seq(Fences)
  BY DEF Base, TypeOK, RecycleType
<1>1. f \in Fences /\ free_fences' = Rest(free_fences)
  BY TakeFenceFacts
<1>2. CASE free_fences = <<>> /\ fence_state[f] = "absent"
  <2>1. \A u \in Uses : u[2] # f
    BY <1>2, UseFacts DEF Base, LifeInv
  <2>2. \A t \in Threads : Failed(t) => call[t].fence # f
    BY <1>2 DEF Base, LifeInv, FreeInv
  <2>3. free_fences' = <<>> /\ DOMAIN free_fences = {} /\ DOMAIN free_fences' = {}
    <3>1. free_fences' = <<>>
      BY <1>1, <1>2 DEF Rest
    <3>. QED BY <1>2, <3>1
  <2>4. Free = {} /\ Free' = {}
    BY <2>3 DEF Free
  <2>5. Pins(f) = {} /\ pinned[f] = 0 /\ f \notin pending_destroy
    BY <1>1, <2>1, Unpinned DEF Base, LifeInv
  <2>. QED BY <1>1, <2>1, <2>2, <2>3, <2>4, <2>5
<1>3. CASE free_fences # <<>> /\ f = free_fences[Len(free_fences)]
  <2>1. /\ Len(free_fences) \in DOMAIN free_fences
        /\ DOMAIN free_fences = 1 .. Len(free_fences) /\ Len(free_fences) \in Nat
        /\ DOMAIN free_fences' = 1 .. Len(free_fences) - 1
        /\ \A k \in DOMAIN free_fences' : k \in DOMAIN free_fences
                                          /\ free_fences'[k] = free_fences[k]
    <3>1. Rest(free_fences) \in Seq(Fences)
      BY RestFacts
    <3>2. Len(Rest(free_fences)) = Len(free_fences) - 1
      BY <1>3, RestFacts
    <3>. QED BY <1>1, <1>3, <3>1, <3>2, RestFacts
  <2>2. f \in Free
    BY <1>3, <2>1 DEF Free
  <2>3. (\A u \in Uses : u[2] # f) /\ (\A t \in Threads : Failed(t) => call[t].fence # f)
    BY <2>2 DEF Base, LifeInv, FreeInv
  <2>4. \A k, l \in DOMAIN free_fences : free_fences[k] = free_fences[l] => k = l
    BY DEF Base, LifeInv, FreeInv
  <2>5. Free' = Free \ {f}
    <3>1. \A k \in DOMAIN free_fences' : free_fences'[k] \in Free /\ free_fences'[k] # f
      BY <1>3, <2>1, <2>4 DEF Free
    <3>2. \A k \in DOMAIN free_fences : free_fences[k] # f => k \in DOMAIN free_fences'
      BY <1>3, <2>1
    <3>. QED BY <2>1, <3>1, <3>2 DEF Free
  <2>6. Pins(f) = {} /\ pinned[f] = 0 /\ f \notin pending_destroy
    BY <1>1, <2>3, Unpinned DEF Base, LifeInv
  <2>. QED BY <1>1, <2>1, <2>3, <2>4, <2>5, <2>6
<1>. QED BY <1>2, <1>3, TakeFenceFacts

LEMMA SubmitParts ==
  ASSUME TypeOK, PcInv, NEW t \in Threads, Submit(t)
  PROVE  \E f, w, c :
           /\ f \in Fences /\ w \in WorkType
           /\ TakeFence(f) /\ w.index = last_issued + 1 /\ w.fence = f
           /\ gpu' = Append(gpu, w)
           /\ fence_state' = [fence_state EXCEPT ![f] = "unsignaled"]
           /\ fences' = fences \cup {<<last_issued + 1, f>>}
           /\ pc' = [pc EXCEPT ![t] = "lock_retire"] /\ call' = [call EXCEPT ![t] = c]
           /\ c.frame # None /\ Key(c.frame) = <<last_issued + 1, f>>
           /\ c.frame.index = last_issued + 1
<1>1. PICK f \in Fences, w \in WorkType :
        /\ TakeFence(f) /\ w.index = last_issued + 1 /\ w.fence = f
        /\ gpu' = Append(gpu, w)
        /\ fence_state' = [fence_state EXCEPT ![f] = "unsignaled"]
        /\ fences' = fences \cup {<<last_issued + 1, f>>}
        /\ call' = [call EXCEPT ![t].index = last_issued + 1,
                      ![t].frame = [index |-> last_issued + 1, fence |-> f,
                                    pool |-> call[t].pool]]
  BY SubmitShape
<1>2. PICK c : c = [call[t] EXCEPT !.index = last_issued + 1,
                     !.frame = [index |-> last_issued + 1, fence |-> f,
                                pool |-> call[t].pool]]
  OBVIOUS
<1>3. call' = [call EXCEPT ![t] = c] /\ pc' = [pc EXCEPT ![t] = "lock_retire"]
  BY Zenon, <1>1, <1>2 DEF Submit, Goto
<1>4. c.frame = [index |-> last_issued + 1, fence |-> f, pool |-> call[t].pool]
  BY <1>2 DEF TypeOK, CallsType, CallType
<1>5. c.frame \in Frame
  BY <1>4 DEF Submit, PcInv, PcOK, TypeOK, TrackerType, Frame
<1>6. c.frame # None /\ Key(c.frame) = <<last_issued + 1, f>>
      /\ c.frame.index = last_issued + 1
  BY <1>4, <1>5, VulkanAssumption DEF Key
<1>. QED BY <1>1, <1>3, <1>6
LEMMA SubmitKeeps ==
  ASSUME Base, NEW t \in Threads, Submit(t)
  PROVE  LifeInv'
<1>. USE DEF Base
<1>. TypeOK /\ CallsType /\ GpuType /\ RecycleType /\ LifeInv
  BY DEF TypeOK
<1>. USE DEF LifeInv
<1>0. PICK i : i = last_issued + 1
  OBVIOUS
<1>1. PICK f, w, c :
        /\ f \in Fences /\ w \in WorkType
        /\ TakeFence(f) /\ w.index = i /\ w.fence = f
        /\ gpu' = Append(gpu, w)
        /\ fence_state' = [fence_state EXCEPT ![f] = "unsignaled"]
        /\ fences' = fences \cup {<<i, f>>}
        /\ pc' = [pc EXCEPT ![t] = "lock_retire"] /\ call' = [call EXCEPT ![t] = c]
        /\ c.frame # None /\ Key(c.frame) = <<i, f>> /\ c.frame.index = i
  BY <1>0, SubmitParts
<1>2. /\ pc[t] = "submit" /\ call[t].frame = None
      /\ UNCHANGED <<done, completed, pinned, pending_destroy, frames, dropped>>
  BY DEF Submit, Accept, PcInv, PcOK
<1>3. /\ \A u \in Uses : u[2] # f
      /\ Pins(f) = {} /\ pinned[f] = 0 /\ f \notin pending_destroy
      /\ \A u \in Threads : Failed(u) => call[u].fence # f
      /\ Free' = Free \ {f}
      /\ \A k, l \in DOMAIN free_fences' : free_fences'[k] = free_fences'[l] => k = l
  BY <1>1, FreshFence
<1>4. /\ fence_state'[f] = "unsignaled"
      /\ \A g \in Fences : g # f => fence_state'[g] = fence_state[g]
  BY <1>1 DEF RecycleType
<1>5. /\ Framed' = Framed /\ Handed' = Handed \cup {<<i, f>>} /\ Popped' = Popped
      /\ Tracked' = Tracked /\ Watched' = Watched
  <2>1. "lock_retire" \in Labels /\ ~InPop("lock_retire") /\ ~InWait("lock_retire")
        /\ ~InPop(pc[t]) /\ ~InWait(pc[t]) /\ pc[t] # "track"
    BY <1>2 DEF Labels, InPop, InWait
  <2>2. Framed' = Framed
    BY <1>2 DEF Framed, Key
  <2>3. Handed' = Handed \cup {<<i, f>>}
    <3>1. Handed' = Handed \cup {Key(c.frame)}
      BY <1>1, <1>2, <2>1, MoveSets
    <3>2. Key(c.frame) = <<i, f>>
      BY <1>1
    <3>. QED BY <3>1, <3>2
  <2>4. Popped' = Popped /\ Tracked' = Tracked /\ Watched' = Watched
    BY <1>1, <1>2, <2>1, MoveSets
  <2>. QED BY <2>2, <2>3, <2>4
<1>6. Uses' = Uses \cup {<<i, f>>}
  BY <1>1, <1>5 DEF Uses
<1>7. \A g : Pins(g)' = Pins(g)
  BY <1>1, <1>2, MovePins DEF InLook, Labels
<1>8. /\ pc'[t] = "lock_retire" /\ call'[t] = c
      /\ ~Popping(t)' /\ ~Failed(t)' /\ ~Late(t)'
      /\ \A u \in Threads : u # t =>
           /\ pc'[u] = pc[u] /\ call'[u] = call[u]
           /\ Popping(u)' <=> Popping(u)
           /\ Failed(u)' <=> Failed(u)
           /\ Late(u)' <=> Late(u)
  BY <1>1, MoveOthers DEF InPop, Labels
<1>9. /\ Len(gpu) \in Nat /\ DOMAIN gpu = 1 .. Len(gpu)
      /\ DOMAIN gpu' = 1 .. Len(gpu) + 1 /\ Len(gpu') = Len(gpu) + 1
      /\ gpu'[Len(gpu) + 1] = w /\ \A k \in DOMAIN gpu : gpu'[k] = gpu[k]
  BY <1>1, GpuAppend
<1>10. /\ \A u \in Uses : u[1] \in Nat /\ u[1] # 0 /\ u[1] # i /\ u[2] \in Fences
       /\ i \in Nat /\ i # 0 /\ done \in Nat /\ done <= Len(gpu)
  BY <1>0, UseFacts DEF TypeOK, TrackerType, GpuType
<1>11. UsesInv'
  <2>1. ASSUME NEW u \in Uses PROVE Current(u[1], u[2])'
    <3>1. u[2] # f /\ fence_state'[u[2]] = fence_state[u[2]]
      BY <1>3, <1>4, <1>10
    <3>2. Current(u[1], u[2])
      BY DEF UsesInv
    <3>. QED BY <1>1, <1>2, <3>1, <3>2, CurrentKept
  <2>2. PICK n : n = Len(gpu) + 1
    OBVIOUS
  <2>3. n \in DOMAIN gpu' /\ gpu'[n] = w /\ ~(n <= done') /\ \A l \in DOMAIN gpu' : ~(l > n)
    BY <1>2, <1>9, <1>10, <2>2
  <2>4. At(i, f, n)'
    BY <1>1, <1>4, <2>3 DEF At
  <2>5. Current(i, f)'
    BY <2>3, <2>4, <1>10 DEF Current
  <2>. QED BY <1>6, <2>1, <2>5 DEF UsesInv
<1>12. FrameInv'
  <2>1. \A k \in DOMAIN frames : frames[k].index # i
    BY <1>10, UseKinds DEF Key
  <2>2. \A u \in Threads : call[u].frame # None => call[u].frame.index # i
    BY <1>10, UseKinds DEF Key
  <2>3. \A u \in Threads : Popping(u) => call[u].old.index # i
    BY <1>10, UseKinds DEF Key
  <2>4. \A k \in done' + 1 .. Len(gpu') : gpu'[k].index # 0 =>
          <<gpu'[k].index, gpu'[k].fence>> \in Framed' \cup Handed'
    <3>1. TAKE k \in done' + 1 .. Len(gpu')
    <3>2. CASE k = Len(gpu) + 1
      BY <1>1, <1>5, <1>9, <3>2
    <3>3. CASE k \in done + 1 .. Len(gpu)
      BY <1>5, <1>9, <1>10, <3>3 DEF FrameInv
    <3>. QED BY <1>2, <1>9, <1>10, <3>1, <3>2, <3>3
  <2>5. \A k, l \in DOMAIN frames' : k < l => frames'[k].index < frames'[l].index
    BY <1>2 DEF FrameInv
  <2>6. \A u \in Threads : call'[u].frame # None =>
          /\ \A k \in DOMAIN frames' : frames'[k].index # call'[u].frame.index
          /\ \A v \in Threads : call'[v].frame # None
                                /\ call'[v].frame.index = call'[u].frame.index => v = u
    BY <1>1, <1>2, <1>8, <2>1, <2>2 DEF FrameInv
  <2>7. \A u \in Threads : Popping(u)' =>
          /\ \A k \in DOMAIN frames' : frames'[k].index # call'[u].old.index
          /\ \A v \in Threads : call'[v].frame # None =>
                                  call'[v].frame.index # call'[u].old.index
          /\ \A v \in Threads : Popping(v)' /\ call'[v].old.index = call'[u].old.index
                                  => v = u
    BY <1>1, <1>2, <1>8, <2>3 DEF FrameInv
  <2>. QED BY <2>4, <2>5, <2>6, <2>7 DEF FrameInv
<1>13. FreeInv'
  <2>1. \A g \in Free' : fence_state'[g] = "unsignaled" /\ \A u \in Uses' : u[2] # g
    <3>1. TAKE g \in Free'
    <3>2. Free \subseteq Fences
      BY DEF Free, RecycleType
    <3>3. g \in Free /\ g # f /\ g \in Fences
      BY <1>3, <3>2
    <3>. QED BY <1>4, <1>6, <3>3 DEF FreeInv
  <2>2. \A u \in Threads : Failed(u)' =>
          /\ Failed(u) /\ u # t /\ call'[u].fence = call[u].fence
          /\ call[u].fence # f /\ call[u].fence \in Fences
    BY <1>3, <1>8 DEF Failed, CallsType, CallType
  <2>. QED BY <1>3, <1>4, <1>6, <2>1, <2>2 DEF FreeInv
<1>14. PinInv'
  <2>1. \A g \in Fences : pinned'[g] = Cardinality(Pins(g))'
    BY <1>2, <1>7 DEF PinInv
  <2>2. \A g : g # f => (Held(g)' <=> Held(g))
    BY <1>1, <1>5 DEF Held
  <2>3. \A g \in pending_destroy' :
          pinned'[g] > 0 /\ fence_state'[g] = "signaled" /\ ~Held(g)'
    <3>1. TAKE g \in pending_destroy'
    <3>2. g \in pending_destroy /\ g \in Fences /\ g # f
      BY <1>2, <1>3 DEF TypeOK, TrackerType
    <3>. QED BY <1>2, <1>4, <2>2, <3>2 DEF PinInv
  <2>4. \A u \in Threads : Late(u)' =>
          Late(u) /\ u # t /\ call'[u].fence = call[u].fence /\ call[u].fence # f
    BY <1>3, <1>8, UseKinds DEF Late, Waiter
  <2>5. \A u \in Threads : pc'[u] = "recycle_old" =>
          pc[u] = "recycle_old" /\ call'[u].old = call[u].old /\ call[u].old.fence # f
    BY <1>3, <1>8, UseKinds DEF Popping, Key
  <2>6. \A u \in Threads : pc'[u] = "track" =>
          pc[u] = "track" /\ call'[u].old = call[u].old
    BY <1>8
  <2>7. \A u \in Threads : pc'[u] = "recycle_old" =>
          pinned'[call'[u].old.fence] = 0 /\ \A v \in fences' : v[2] # call'[u].old.fence
    BY <1>1, <1>2, <2>5 DEF PinInv
  <2>8. ASSUME NEW u \in Threads, pc'[u] = "track" PROVE Key(call[u].old)' \in fences'
    <3>1. Key(call[u].old) \in fences
      BY <2>6, <2>8 DEF PinInv
    <3>2. Key(call[u].old)' = Key(call[u].old)
      BY <2>6, <2>8 DEF Key
    <3>. QED BY <1>1, <3>1, <3>2
  <2>9. \A u \in Threads : Late(u)' =>
          /\ pinned'[call'[u].fence] = 0
          /\ ~Held(call[u].fence)
          /\ \A v \in Threads : Late(v)' /\ call'[v].fence = call'[u].fence => v = u
    BY <1>2, <2>4 DEF PinInv
  <2>10. \A u \in Threads : Late(u)' => ~Held(call[u].fence)'
    <3>1. TAKE u \in Threads
    <3>2. HAVE Late(u)'
    <3>3. call'[u].fence = call[u].fence /\ call[u].fence # f /\ ~Held(call[u].fence)
      BY <2>4, <2>9, <3>2
    <3>. QED BY <2>2, <3>3
  <2>. QED BY <2>1, <2>3, <2>7, <2>8, <2>9, <2>10 DEF PinInv
<1>15. TrackInv'
  <2>1. ~dropped' => \A k \in DOMAIN gpu' : gpu'[k].index > completed' =>
          <<gpu'[k].index, gpu'[k].fence>> \in fences'
    <3>1. SUFFICES ASSUME ~dropped, NEW k \in DOMAIN gpu', gpu'[k].index > completed
                   PROVE  <<gpu'[k].index, gpu'[k].fence>> \in fences'
      BY <1>2
    <3>2. CASE k = Len(gpu) + 1
      BY <1>1, <1>9, <3>2
    <3>3. CASE k \in DOMAIN gpu
      BY <1>1, <1>9, <3>1, <3>3 DEF TrackInv
    <3>. QED BY <1>9, <3>2, <3>3
  <2>. QED BY <1>1, <1>5, <2>1 DEF TrackInv
<1>. QED BY <1>11, <1>12, <1>13, <1>14, <1>15

-----------------------------------------------------------------------------
(* A fence is recycled                                                     *)

LEMMA RecycleFree ==
  ASSUME RecycleType, FreeInv, NEW f \in Fences, RecycleFence(f), f \notin Free
  PROVE  /\ \A k, l \in DOMAIN free_fences' : free_fences'[k] = free_fences'[l] => k = l
         /\ Free' \subseteq Free \cup {f}
         /\ f \in Free' => fence_state'[f] = "unsignaled"
         /\ \A g \in Fences : g # f => fence_state'[g] = fence_state[g]
<1>1. \A g \in Fences : g # f => fence_state'[g] = fence_state[g]
  BY RecycleFenceFacts DEF RecycleType
<1>2. CASE /\ free_fences' = Append(free_fences, f)
           /\ fence_state' = [fence_state EXCEPT ![f] = "unsignaled"]
  <2>1. /\ Len(free_fences) \in Nat /\ DOMAIN free_fences = 1 .. Len(free_fences)
        /\ DOMAIN free_fences' = 1 .. Len(free_fences) + 1
        /\ free_fences'[Len(free_fences) + 1] = f
        /\ \A k \in DOMAIN free_fences : free_fences'[k] = free_fences[k]
    BY <1>2 DEF RecycleType
  <2>2. \A k \in DOMAIN free_fences : free_fences[k] # f
    BY DEF Free
  <2>3. \A k, l \in DOMAIN free_fences : free_fences[k] = free_fences[l] => k = l
    BY DEF FreeInv
  <2>4. \A k \in DOMAIN free_fences' : k \in DOMAIN free_fences \/ k = Len(free_fences) + 1
    BY <2>1
  <2>5. \A k, l \in DOMAIN free_fences' : free_fences'[k] = free_fences'[l] => k = l
    BY <2>1, <2>2, <2>3, <2>4
  <2>6. Free' \subseteq Free \cup {f}
    BY <2>1, <2>4 DEF Free
  <2>. QED BY <1>1, <1>2, <2>5, <2>6 DEF RecycleType
<1>3. CASE /\ free_fences' = free_fences
           /\ fence_state' = [fence_state EXCEPT ![f] = "absent"]
  BY <1>1, <1>3 DEF Free, FreeInv
<1>. QED BY <1>2, <1>3, RecycleFenceFacts

LEMMA RecycleKeeps ==
  ASSUME Base, NEW t \in Threads, NEW l \in Labels, NEW c,
         pc' = [pc EXCEPT ![t] = l], call' = [call EXCEPT ![t] = c],
         c.frame = call[t].frame,
         ~InPop(l), ~InWait(l), ~InLook(l), l # "cleanup",
         pc[t] # "track", ~InLook(pc[t]),
         UNCHANGED <<gpu, done, completed, frames, fences, pinned, pending_destroy, dropped>>,
         NEW f \in Fences, RecycleFence(f), f \notin Free, f \notin pending_destroy,
         \A u \in Uses' : u[2] # f,
         \A u \in Threads : u # t /\ Failed(u) => call[u].fence # f
  PROVE  LifeInv'
<1>. USE DEF Base
<1>. TypeOK /\ CallsType /\ GpuType /\ RecycleType /\ LifeInv
  BY DEF TypeOK
<1>. USE DEF LifeInv
<1>1. /\ Framed' = Framed /\ Handed' = Handed /\ Popped' \subseteq Popped
      /\ Tracked' = Tracked /\ Watched' \subseteq Watched
  <2>1. Framed' = Framed
    BY DEF Framed, Key
  <2>2. Handed' = Handed
    BY MoveSets
  <2>3. Popped' \subseteq Popped
    BY MoveSets
  <2>4. Tracked' = Tracked
    BY MoveSets DEF InPop
  <2>5. Watched' \subseteq Watched
    BY MoveSets
  <2>. QED BY <2>1, <2>2, <2>3, <2>4, <2>5
<1>2. Uses' \subseteq Uses
  BY <1>1 DEF Uses
<1>3. \A g : Pins(g)' = Pins(g)
  BY MovePins
<1>4. /\ pc'[t] = l /\ call'[t] = c
      /\ ~Popping(t)' /\ ~Failed(t)' /\ ~Late(t)'
      /\ \A u \in Threads : u # t =>
           /\ pc'[u] = pc[u] /\ call'[u] = call[u]
           /\ Popping(u)' <=> Popping(u)
           /\ Failed(u)' <=> Failed(u)
           /\ Late(u)' <=> Late(u)
  <2>1. /\ pc'[t] = l /\ call'[t] = c
        /\ Popping(t)' <=> InPop(l)
        /\ Failed(t)' <=> l = "cleanup" /\ c.fence # None
        /\ Late(t)' <=> l = "recycle_waited"
    BY MoveOthers
  <2>2. l # "recycle_waited"
    BY DEF InWait
  <2>3. \A u \in Threads : u # t =>
          /\ pc'[u] = pc[u] /\ call'[u] = call[u]
          /\ Popping(u)' <=> Popping(u)
          /\ Failed(u)' <=> Failed(u)
          /\ Late(u)' <=> Late(u)
    BY MoveOthers
  <2>. QED BY <2>1, <2>2, <2>3
<1>5. /\ \A k, m \in DOMAIN free_fences' : free_fences'[k] = free_fences'[m] => k = m
      /\ Free' \subseteq Free \cup {f}
      /\ f \in Free' => fence_state'[f] = "unsignaled"
      /\ \A g \in Fences : g # f => fence_state'[g] = fence_state[g]
  BY RecycleFree
<1>6. UsesInv'
  <2>1. ASSUME NEW u \in Uses' PROVE Current(u[1], u[2])'
    <3>1. u \in Uses /\ u[2] # f
      BY <1>2, <2>1
    <3>2. fence_state'[u[2]] = fence_state[u[2]]
      BY <1>5, <3>1, UseFacts
    <3>3. Current(u[1], u[2])
      BY <3>1 DEF UsesInv
    <3>. QED BY <3>2, <3>3, CurrentKept
  <2>. QED BY <2>1 DEF UsesInv
<1>7. FrameInv'
  <2>1. \A u \in Threads : call'[u].frame = call[u].frame
    BY <1>4
  <2>2. \A u \in Threads : Popping(u)' => Popping(u) /\ call'[u].old = call[u].old
    BY <1>4
  <2>3. \A k \in done' + 1 .. Len(gpu') : gpu'[k].index # 0 =>
          <<gpu'[k].index, gpu'[k].fence>> \in Framed' \cup Handed'
    BY <1>1 DEF FrameInv
  <2>4. \A u \in Threads : Popping(u)' =>
          /\ \A k \in DOMAIN frames' : frames'[k].index # call'[u].old.index
          /\ \A v \in Threads : call'[v].frame # None =>
                                  call'[v].frame.index # call'[u].old.index
          /\ \A v \in Threads : Popping(v)' /\ call'[v].old.index = call'[u].old.index
                                  => v = u
    BY <2>1, <2>2 DEF FrameInv
  <2>. QED BY <2>1, <2>3, <2>4 DEF FrameInv
<1>8. FreeInv'
  <2>1. \A g \in Free' : fence_state'[g] = "unsignaled" /\ \A u \in Uses' : u[2] # g
    <3>1. Free \subseteq Fences
      BY DEF Free, RecycleType
    <3>. QED BY <1>2, <1>5, <3>1 DEF FreeInv
  <2>2. \A u \in Threads : Failed(u)' =>
          /\ Failed(u) /\ u # t /\ call'[u].fence = call[u].fence
          /\ call[u].fence # f /\ call[u].fence \in Fences
    BY <1>4 DEF Failed, CallsType, CallType
  <2>3. \A u \in Threads : Failed(u)' =>
          /\ fence_state'[call'[u].fence] = "unsignaled"
          /\ call'[u].fence \notin Free'
          /\ \A v \in Uses' : v[2] # call'[u].fence
          /\ \A v \in Threads : Failed(v)' /\ call'[v].fence = call'[u].fence => v = u
    BY <1>2, <1>5, <2>2 DEF FreeInv
  <2>. QED BY <1>5, <2>1, <2>3 DEF FreeInv
<1>9. PinInv'
  <2>1. \A g \in Fences : pinned'[g] = Cardinality(Pins(g))'
    BY <1>3 DEF PinInv
  <2>2. \A g : Held(g)' => Held(g)
    BY <1>1 DEF Held
  <2>3. \A g \in pending_destroy' :
          pinned'[g] > 0 /\ fence_state'[g] = "signaled" /\ ~Held(g)'
    <3>1. \A g \in pending_destroy' : g \in pending_destroy /\ g \in Fences /\ g # f
      BY DEF TypeOK, TrackerType
    <3>. QED BY <1>5, <2>2, <3>1 DEF PinInv
  <2>4. \A u \in Threads : Late(u)' => Late(u) /\ call'[u].fence = call[u].fence
    BY <1>4
  <2>5. \A u \in Threads : pc'[u] \in {"track", "recycle_old"} =>
          pc'[u] = pc[u] /\ call'[u].old = call[u].old
    BY <1>4 DEF InPop
  <2>6. \A u \in Threads : pc'[u] = "recycle_old" =>
          pinned'[call'[u].old.fence] = 0 /\ \A v \in fences' : v[2] # call'[u].old.fence
    BY <2>5 DEF PinInv
  <2>7. ASSUME NEW u \in Threads, pc'[u] = "track" PROVE Key(call[u].old)' \in fences'
    <3>1. Key(call[u].old) \in fences
      BY <2>5, <2>7 DEF PinInv
    <3>2. Key(call[u].old)' = Key(call[u].old)
      BY <2>5, <2>7 DEF Key
    <3>. QED BY <3>1, <3>2
  <2>8. \A u \in Threads : Late(u)' =>
          /\ pinned'[call'[u].fence] = 0
          /\ ~Held(call[u].fence)
          /\ \A v \in Threads : Late(v)' /\ call'[v].fence = call'[u].fence => v = u
    BY <2>4 DEF PinInv
  <2>9. ASSUME NEW u \in Threads, Late(u)' PROVE ~Held(call[u].fence)'
    <3>1. PICK g : g = call[u].fence
      OBVIOUS
    <3>2. g = call'[u].fence /\ ~Held(g)
      BY <2>4, <2>8, <2>9, <3>1
    <3>3. ~Held(g)'
      BY <2>2, <3>2
    <3>. QED BY <3>2, <3>3 DEF Held
  <2>. QED BY <2>1, <2>3, <2>6, <2>7, <2>8, <2>9 DEF PinInv
<1>10. TrackInv'
  BY <1>1 DEF TrackInv
<1>. QED BY <1>6, <1>7, <1>8, <1>9, <1>10

\* Threads are finitely many, so are the pins of a fence.
LEMMA PinsFinite == ASSUME NEW f PROVE IsFiniteSet(Pins(f))
  BY VulkanAssumption, FS_Subset DEF Pins

LEMMA PinsNone ==
  ASSUME PinInv, NEW f \in Fences, pinned[f] = 0
  PROVE  Pins(f) = {}
  BY PinsFinite, FS_EmptySet DEF PinInv

LEMMA CleanupKeeps ==
  ASSUME Base, NEW t \in Threads, Cleanup(t), call[t].fence # None
  PROVE  LifeInv'
<1>. TypeOK /\ CallsType /\ PcInv /\ PinInv /\ FreeInv
  BY DEF Base, LifeInv, TypeOK
<1>1. PICK f : f = call[t].fence
  OBVIOUS
<1>2. f \in Fences /\ Failed(t) /\ RecycleFence(f)
  BY <1>1, HeldTyped DEF Cleanup, Failed
<1>3. /\ pc' = [pc EXCEPT ![t] = "idle"] /\ call' = [call EXCEPT ![t] = NoCall]
      /\ pc[t] = "cleanup"
  BY DEF Cleanup, Return
<1>4. NoCall.frame = None /\ call[t].frame = None
  BY <1>3 DEF NoCall, PcInv, PcOK
<1>5. (\A u \in Uses : u[2] # f) /\ f \notin Free
      /\ \A u \in Threads : u # t /\ Failed(u) => call[u].fence # f
  BY <1>1, <1>2 DEF FreeInv
<1>6. f \notin pending_destroy
  BY <1>2, <1>5, Unpinned
<1>7. /\ "idle" \in Labels /\ ~InPop("idle") /\ ~InWait("idle") /\ ~InLook("idle")
      /\ ~InPop(pc[t]) /\ ~InWait(pc[t]) /\ ~InLook(pc[t]) /\ pc[t] # "track"
  BY <1>3 DEF Labels, InPop, InWait, InLook
<1>8. UNCHANGED <<gpu, done, completed, frames, fences, pinned, pending_destroy, dropped>>
  BY DEF Cleanup
<1>9. Uses' = Uses
  <2>1. Handed' = Handed /\ Popped' = Popped /\ Watched' = Watched
    BY <1>3, <1>4, <1>7, MoveSets
  <2>. QED BY <1>8, <2>1 DEF Uses, Framed, Key
<1>10. NoCall.frame = call[t].frame /\ \A u \in Uses' : u[2] # f
  BY <1>4, <1>5, <1>9
<1>. QED BY <1>2, <1>3, <1>5, <1>6, <1>7, <1>8, <1>10, RecycleKeeps

LEMMA RecycleOldKeeps ==
  ASSUME Base, NEW t \in Threads, RecycleOld(t)
  PROVE  LifeInv'
<1>. TypeOK /\ CallsType /\ PcInv /\ PinInv /\ FreeInv /\ FrameInv /\ UsesInv /\ IndexInv
  BY DEF Base, LifeInv, TypeOK
<1>1. PICK f : f = call[t].old.fence
  OBVIOUS
<1>2. /\ pc[t] = "recycle_old" /\ Popping(t) /\ f \in Fences /\ RecycleFence(f)
      /\ call[t].old.index \in Nat
  BY <1>1, HeldTyped DEF RecycleOld, Popping
<1>3. PICK l, c :
        /\ l \in Labels
        /\ pc' = [pc EXCEPT ![t] = l] /\ call' = [call EXCEPT ![t] = c]
        /\ l \in {"harvest", "limit"} /\ c.frame = call[t].frame
  <2>1. PICK c : c = [call[t] EXCEPT !.old = None]
    OBVIOUS
  <2>2. call[t] \in CallType /\ c.frame = call[t].frame
    BY <2>1 DEF CallsType, CallType
  <2>3. call[t].resume \in {"harvest", "limit"} /\ call[t].resume \in Labels
    BY <2>2 DEF CallType, Labels
  <2>. QED BY <2>1, <2>2, <2>3 DEF RecycleOld, Resume, Goto
<1>4. UNCHANGED <<gpu, done, completed, frames, fences, pinned, pending_destroy, dropped>>
  BY DEF RecycleOld
<1>5. /\ ~InPop(l) /\ ~InWait(l) /\ ~InLook(l) /\ l # "cleanup"
      /\ ~InWait(pc[t]) /\ ~InLook(pc[t]) /\ pc[t] # "track"
  BY <1>2, <1>3 DEF InPop, InWait, InLook
<1>6. /\ Key(call[t].old) \in Uses /\ Key(call[t].old) \in Popped
      /\ Key(call[t].old)[1] = call[t].old.index /\ Key(call[t].old)[2] = f
  BY <1>1, <1>2, UseKinds DEF Key
<1>7. \A u \in Uses : u[1] # call[t].old.index => u[2] # f
  BY <1>6, UseFacts
<1>8. Held(f) /\ pinned[f] = 0 /\ (\A u \in fences : u[2] # f) /\ f \notin pending_destroy
  BY <1>1, <1>2, <1>6 DEF Held, PinInv
<1>9. f \notin Free /\ \A u \in Threads : u # t /\ Failed(u) => call[u].fence # f
  BY <1>6 DEF FreeInv
<1>10. \A u \in Uses' : u[2] # f
  <2>1. \A u \in Framed' : u[2] # f
    <3>1. \A k \in DOMAIN frames : frames[k].fence # f
      BY <1>2, <1>7, UseKinds DEF FrameInv, Key
    <3>. QED BY <1>4, <3>1 DEF Framed, Key
  <2>2. \A u \in Handed' : u[2] # f
    <3>1. Handed' = Handed
      BY <1>3, MoveSets
    <3>2. \A u \in Threads : call[u].frame # None => call[u].frame.fence # f
      BY <1>2, <1>7, UseKinds DEF FrameInv, Key
    <3>. QED BY <3>1, <3>2 DEF Handed, Key
  <2>3. \A u \in Popped' : u[2] # f
    <3>1. \A u \in Threads : Popping(u)' => u # t /\ Popping(u) /\ call'[u].old = call[u].old
      BY <1>3, <1>5, MoveOthers
    <3>2. \A u \in Threads : u # t /\ Popping(u) => call[u].old.fence # f
      BY <1>2, <1>7, UseKinds DEF FrameInv, Key
    <3>. QED BY <3>1, <3>2 DEF Popped, Key
  <2>4. \A u \in Watched' : u[2] # f
    <3>1. Watched' \subseteq Watched
      BY <1>3, <1>5, MoveSets
    <3>2. Pins(f) = {}
      BY <1>2, <1>8, PinsNone
    <3>3. \A u \in Threads : Waiter(u) => call[u].fence # f
      <4>1. TAKE u \in Threads
      <4>2. CASE Late(u)
        BY <1>8, <4>2 DEF PinInv
      <4>3. CASE Looking(u)
        BY <3>2, <4>3 DEF Pins
      <4>. QED BY <4>2, <4>3 DEF Waiter, Late, Looking
    <3>. QED BY <3>1, <3>3 DEF Watched
  <2>. QED BY <1>4, <1>8, <2>1, <2>2, <2>3, <2>4 DEF Uses
<1>. QED BY <1>2, <1>3, <1>4, <1>5, <1>8, <1>9, <1>10, RecycleKeeps

LEMMA RecycleWaitedKeeps ==
  ASSUME Base, NEW t \in Threads, RecycleWaited(t)
  PROVE  LifeInv'
<1>. TypeOK /\ CallsType /\ PcInv /\ PinInv /\ FreeInv /\ FrameInv /\ UsesInv /\ IndexInv
  BY DEF Base, LifeInv, TypeOK
<1>1. PICK f : f = call[t].fence
  OBVIOUS
<1>2. pc[t] = "recycle_waited" /\ Late(t) /\ Waiter(t) /\ f \in Fences /\ RecycleFence(f)
  BY <1>1, HeldTyped DEF RecycleWaited, Late, Waiter
<1>3. PICK l, c :
        /\ l \in Labels
        /\ pc' = [pc EXCEPT ![t] = l] /\ call' = [call EXCEPT ![t] = c]
        /\ l \in {"idle", "try_harvest"} /\ c.frame = call[t].frame
  <2>1. CASE Return(t)
    <3>1. NoCall.frame = None /\ call[t].frame = None /\ "idle" \in Labels
      BY <1>2 DEF NoCall, Labels, PcInv, PcOK
    <3>. QED BY <2>1, <3>1 DEF Return
  <2>2. CASE Goto(t, "try_harvest") /\ UNCHANGED call
    <3>1. PICK c : c = call[t] /\ call' = [call EXCEPT ![t] = c] /\ c.frame = call[t].frame
      BY <2>2 DEF CallsType
    <3>2. pc' = [pc EXCEPT ![t] = "try_harvest"] /\ "try_harvest" \in Labels
      BY <2>2 DEF Goto, Labels
    <3>. QED BY <3>1, <3>2
  <2>. QED BY <2>1, <2>2 DEF RecycleWaited, Waited
<1>4. UNCHANGED <<gpu, done, completed, frames, fences, pinned, pending_destroy, dropped>>
  BY DEF RecycleWaited
<1>5. /\ ~InPop(l) /\ ~InWait(l) /\ ~InLook(l) /\ l # "cleanup"
      /\ ~InPop(pc[t]) /\ ~InLook(pc[t]) /\ pc[t] # "track"
  BY <1>2, <1>3 DEF InPop, InWait, InLook
<1>6. ~Held(f) /\ pinned[f] = 0 /\ f \notin pending_destroy
  BY <1>1, <1>2 DEF PinInv
<1>7. <<call[t].index, f>> \in Uses
  BY <1>1, <1>2, UseKinds
<1>8. f \notin Free /\ \A u \in Threads : u # t /\ Failed(u) => call[u].fence # f
  BY <1>7 DEF FreeInv
<1>9. \A u \in Uses' : u[2] # f
  <2>1. Framed' = Framed /\ Handed' = Handed /\ Popped' = Popped
    <3>1. Handed' = Handed
      BY <1>3, MoveSets
    <3>2. Popped' = Popped
      BY <1>3, <1>5, MoveSets
    <3>. QED BY <1>4, <3>1, <3>2 DEF Framed, Key
  <2>2. \A u \in Watched' : u[2] # f
    <3>1. \A u \in Threads : u # t => pc'[u] = pc[u] /\ call'[u] = call[u]
      BY <1>3, MoveOthers
    <3>2. pc'[t] = l
      BY <1>3, MoveOthers
    <3>3. \A u \in Threads : u # t /\ Waiter(u) => call[u].fence # f
      <4>1. TAKE u \in Threads
      <4>2. Pins(f) = {}
        BY <1>2, <1>6, PinsNone
      <4>3. CASE Late(u)
        BY <1>1, <1>2, <4>3 DEF PinInv
      <4>4. CASE Looking(u)
        BY <4>2, <4>4 DEF Pins
      <4>. QED BY <4>3, <4>4 DEF Waiter, Late, Looking
    <3>. QED BY <1>5, <3>1, <3>2, <3>3 DEF Watched, Waiter, InWait
  <2>. QED BY <1>4, <1>6, <2>1, <2>2 DEF Uses, Held
<1>. QED BY <1>2, <1>3, <1>4, <1>5, <1>6, <1>8, <1>9, RecycleKeeps

\* The fence of a submission that the device refuses.
LEMMA SubmitFailsKeeps ==
  ASSUME Base, NEW t \in Threads, SubmitFails(t), call' # call
  PROVE  LifeInv'
<1>. USE DEF Base
<1>. TypeOK /\ CallsType /\ GpuType /\ RecycleType /\ LifeInv
  BY DEF TypeOK
<1>. USE DEF LifeInv
<1>1. PICK f \in Fences : /\ TakeFence(f) /\ call' = [call EXCEPT ![t].fence = f]
                          /\ fence_state' = [fence_state EXCEPT ![f] = "unsignaled"]
  BY DEF SubmitFails
<1>2. PICK c : c = [call[t] EXCEPT !.fence = f]
  OBVIOUS
<1>3. /\ pc' = [pc EXCEPT ![t] = "cleanup"] /\ call' = [call EXCEPT ![t] = c]
      /\ c.frame = call[t].frame /\ c.fence = f /\ f # None /\ pc[t] = "submit"
  BY <1>1, <1>2, VulkanAssumption DEF SubmitFails, Goto, CallsType, CallType
<1>4. UNCHANGED <<gpu, done, completed, frames, fences, pinned, pending_destroy, dropped>>
  BY DEF SubmitFails
<1>5. /\ \A u \in Uses : u[2] # f
      /\ f \notin pending_destroy
      /\ \A u \in Threads : Failed(u) => call[u].fence # f
      /\ Free' = Free \ {f}
      /\ \A k, l \in DOMAIN free_fences' : free_fences'[k] = free_fences'[l] => k = l
  BY <1>1, FreshFence
<1>6. /\ fence_state'[f] = "unsignaled"
      /\ \A g \in Fences : g # f => fence_state'[g] = fence_state[g]
  BY <1>1 DEF RecycleType
<1>7. /\ "cleanup" \in Labels /\ ~InPop("cleanup") /\ ~InWait("cleanup") /\ ~InLook("cleanup")
      /\ ~InPop(pc[t]) /\ ~InWait(pc[t]) /\ ~InLook(pc[t]) /\ pc[t] # "track"
  BY <1>3 DEF Labels, InPop, InWait, InLook
<1>8. /\ Framed' = Framed /\ Handed' = Handed /\ Popped' = Popped
      /\ Tracked' = Tracked /\ Watched' = Watched
  <2>1. Framed' = Framed
    BY <1>4 DEF Framed, Key
  <2>2. Handed' = Handed
    BY <1>3, <1>7, MoveSets
  <2>3. Popped' = Popped /\ Tracked' = Tracked /\ Watched' = Watched
    BY <1>3, <1>7, MoveSets
  <2>. QED BY <2>1, <2>2, <2>3
<1>9. Uses' = Uses
  BY <1>4, <1>8 DEF Uses
<1>10. \A g : Pins(g)' = Pins(g) /\ (Held(g)' <=> Held(g))
  <2>1. \A g : Pins(g)' = Pins(g)
    BY <1>3, <1>7, MovePins
  <2>2. \A g : Held(g)' <=> Held(g)
    BY <1>4, <1>8 DEF Held
  <2>. QED BY <2>1, <2>2
<1>11. /\ pc'[t] = "cleanup" /\ call'[t] = c /\ Failed(t)' /\ ~Popping(t)' /\ ~Late(t)'
       /\ \A u \in Threads : u # t =>
            /\ pc'[u] = pc[u] /\ call'[u] = call[u]
            /\ Popping(u)' <=> Popping(u)
            /\ Failed(u)' <=> Failed(u)
            /\ Late(u)' <=> Late(u)
  <2>1. /\ pc'[t] = "cleanup" /\ call'[t] = c
        /\ Popping(t)' <=> InPop("cleanup")
        /\ Failed(t)' <=> "cleanup" = "cleanup" /\ c.fence # None
        /\ Late(t)' <=> "cleanup" = "recycle_waited"
    BY <1>3, <1>7, MoveOthers
  <2>2. \A u \in Threads : u # t =>
          /\ pc'[u] = pc[u] /\ call'[u] = call[u]
          /\ Popping(u)' <=> Popping(u)
          /\ Failed(u)' <=> Failed(u)
          /\ Late(u)' <=> Late(u)
    BY <1>3, <1>7, MoveOthers
  <2>. QED BY <1>3, <1>7, <2>1, <2>2
<1>12. UsesInv'
  <2>1. ASSUME NEW u \in Uses PROVE Current(u[1], u[2])'
    <3>1. fence_state'[u[2]] = fence_state[u[2]]
      BY <1>5, <1>6, UseFacts
    <3>2. Current(u[1], u[2])
      BY DEF UsesInv
    <3>. QED BY <1>4, <3>1, <3>2, CurrentKept
  <2>. QED BY <1>9, <2>1 DEF UsesInv
<1>13. FrameInv'
  <2>1. \A u \in Threads : call'[u].frame = call[u].frame
    BY <1>3, <1>11
  <2>2. \A u \in Threads : Popping(u)' => Popping(u) /\ call'[u].old = call[u].old
    BY <1>11
  <2>3. \A k \in done' + 1 .. Len(gpu') : gpu'[k].index # 0 =>
          <<gpu'[k].index, gpu'[k].fence>> \in Framed' \cup Handed'
    BY <1>4, <1>8 DEF FrameInv
  <2>4. \A u \in Threads : Popping(u)' =>
          /\ \A k \in DOMAIN frames' : frames'[k].index # call'[u].old.index
          /\ \A v \in Threads : call'[v].frame # None =>
                                  call'[v].frame.index # call'[u].old.index
          /\ \A v \in Threads : Popping(v)' /\ call'[v].old.index = call'[u].old.index
                                  => v = u
    BY <1>4, <2>1, <2>2 DEF FrameInv
  <2>. QED BY <1>4, <2>1, <2>3, <2>4 DEF FrameInv
<1>14. FreeInv'
  <2>1. \A g \in Free' : fence_state'[g] = "unsignaled" /\ \A u \in Uses' : u[2] # g
    <3>1. Free \subseteq Fences
      BY DEF Free, RecycleType
    <3>. QED BY <1>5, <1>6, <1>9, <3>1 DEF FreeInv
  <2>2. \A u \in Threads : u # t /\ Failed(u)' =>
          /\ Failed(u) /\ call'[u].fence = call[u].fence
          /\ call[u].fence # f /\ call[u].fence \in Fences
    BY <1>5, <1>11 DEF Failed, CallsType, CallType
  <2>3. \A u \in Threads : u # t /\ Failed(u)' =>
          /\ fence_state'[call'[u].fence] = "unsignaled"
          /\ call'[u].fence \notin Free'
          /\ \A v \in Uses' : v[2] # call'[u].fence
          /\ \A v \in Threads : Failed(v)' /\ call'[v].fence = call'[u].fence => v = u
    BY <1>3, <1>5, <1>6, <1>9, <1>11, <2>2 DEF FreeInv
  <2>4. /\ fence_state'[call'[t].fence] = "unsignaled"
        /\ call'[t].fence \notin Free'
        /\ \A v \in Uses' : v[2] # call'[t].fence
        /\ \A v \in Threads : Failed(v)' /\ call'[v].fence = call'[t].fence => v = t
    BY <1>3, <1>5, <1>6, <1>9, <1>11, <2>2
  <2>. QED BY <1>5, <2>1, <2>3, <2>4 DEF FreeInv
<1>15. PinInv'
  <2>1. \A g \in Fences : pinned'[g] = Cardinality(Pins(g))'
    BY <1>4, <1>10 DEF PinInv
  <2>2. \A g \in pending_destroy' :
          pinned'[g] > 0 /\ fence_state'[g] = "signaled" /\ ~Held(g)'
    <3>1. \A g \in pending_destroy' : g \in pending_destroy /\ g \in Fences /\ g # f
      BY <1>4, <1>5 DEF TypeOK, TrackerType
    <3>. QED BY <1>4, <1>6, <1>10, <3>1 DEF PinInv
  <2>3. \A u \in Threads : Late(u)' => Late(u) /\ call'[u].fence = call[u].fence
    BY <1>11
  <2>4. \A u \in Threads : pc'[u] \in {"track", "recycle_old"} =>
          pc'[u] = pc[u] /\ call'[u].old = call[u].old
    BY <1>11
  <2>5. \A u \in Threads : pc'[u] = "recycle_old" =>
          pinned'[call'[u].old.fence] = 0 /\ \A v \in fences' : v[2] # call'[u].old.fence
    BY <1>4, <2>4 DEF PinInv
  <2>6. ASSUME NEW u \in Threads, pc'[u] = "track" PROVE Key(call[u].old)' \in fences'
    <3>1. Key(call[u].old) \in fences
      BY <2>4, <2>6 DEF PinInv
    <3>2. Key(call[u].old)' = Key(call[u].old)
      BY <2>4, <2>6 DEF Key
    <3>. QED BY <1>4, <3>1, <3>2
  <2>7. \A u \in Threads : Late(u)' =>
          /\ pinned'[call'[u].fence] = 0
          /\ ~Held(call[u].fence)
          /\ \A v \in Threads : Late(v)' /\ call'[v].fence = call'[u].fence => v = u
    BY <1>4, <2>3 DEF PinInv
  <2>8. ASSUME NEW u \in Threads, Late(u)' PROVE ~Held(call[u].fence)'
    <3>1. PICK g : g = call[u].fence
      OBVIOUS
    <3>2. g = call'[u].fence /\ ~Held(g)
      BY <2>3, <2>7, <2>8, <3>1
    <3>3. ~Held(g)'
      BY <1>10, <3>2
    <3>. QED BY <3>2, <3>3 DEF Held
  <2>. QED BY <2>1, <2>2, <2>5, <2>6, <2>7, <2>8 DEF PinInv
<1>16. TrackInv'
  BY <1>4, <1>8 DEF TrackInv
<1>. QED BY <1>12, <1>13, <1>14, <1>15, <1>16

-----------------------------------------------------------------------------
(* A frame leaves the queue, and enters it                                 *)

\* A fence is unsignaled while the GPU has the submission that signals it.
LEMMA RunningUse ==
  ASSUME Base, NEW k \in done + 1 .. Len(gpu), gpu[k].index # 0
  PROVE  /\ At(gpu[k].index, gpu[k].fence, k)
         /\ fence_state[gpu[k].fence] = "unsignaled"
         /\ <<gpu[k].index, gpu[k].fence>> \in Framed \cup Handed
         /\ <<gpu[k].index, gpu[k].fence>> \in Uses
<1>. TypeOK /\ UsesInv /\ FrameInv /\ IndexInv
  BY DEF Base, LifeInv
<1>1. /\ done \in Nat /\ Len(gpu) \in Nat /\ DOMAIN gpu = 1 .. Len(gpu)
      /\ k \in DOMAIN gpu /\ k \in Nat /\ ~(k <= done)
      /\ \A m \in DOMAIN gpu : m \in Nat /\ gpu[m].index \in Nat
  <2>1. gpu \in Seq(WorkType) /\ done \in Nat /\ Len(gpu) \in Nat
    BY DEF TypeOK, GpuType
  <2>2. \A m \in DOMAIN gpu : gpu[m] \in WorkType
    BY <2>1
  <2>. QED BY <2>1, <2>2 DEF WorkType
<1>2. /\ <<gpu[k].index, gpu[k].fence>> \in Framed \cup Handed
      /\ <<gpu[k].index, gpu[k].fence>> \in Uses
  BY DEF FrameInv, Uses
<1>3. Current(gpu[k].index, gpu[k].fence)
  BY <1>2, UseFacts
<1>4. PICK m \in DOMAIN gpu : At(gpu[k].index, gpu[k].fence, m)
  BY <1>3 DEF Current
<1>5. m = k
  BY <1>1, <1>4 DEF At, IndexInv
<1>. QED BY <1>1, <1>2, <1>4, <1>5 DEF At

LEMMA PopKeeps ==
  ASSUME Base, NEW t \in Threads, HarvestFrame(t) \/ EvictFrame(t)
  PROVE  LifeInv'
<1>. USE DEF Base
<1>. TypeOK /\ CallsType /\ TrackerType /\ LifeInv
  BY DEF TypeOK
<1>. USE DEF LifeInv
<1>1. frames # <<>> /\ PopFrame(t) /\ Signaled(FrontFrame.fence)
  BY PopTyped
<1>2. PICK x \in Frame : x = FrontFrame
  BY <1>1, PopFacts
<1>3. PICK c : c = [call[t] EXCEPT !.old = x]
  OBVIOUS
<1>4. /\ pc' = [pc EXCEPT ![t] = "track"] /\ call' = [call EXCEPT ![t] = c]
      /\ c.frame = call[t].frame /\ c.old = x /\ pc[t] \in {"harvest", "limit"}
  BY <1>1, <1>2, <1>3, PopFacts DEF HarvestFrame, EvictFrame, CallsType, CallType
<1>5. UNCHANGED <<gpu, done, completed, fence_state, free_fences, fences, pinned,
                  pending_destroy, dropped>>
  BY DEF HarvestFrame, EvictFrame
<1>6. /\ 1 \in DOMAIN frames /\ DOMAIN frames = 1 .. Len(frames) /\ Len(frames) \in Nat
      /\ DOMAIN frames' = 1 .. Len(frames) - 1 /\ x = frames[1]
      /\ \A k \in DOMAIN frames' : k + 1 \in DOMAIN frames /\ frames'[k] = frames[k + 1]
  BY <1>1, <1>2, PopFacts DEF FrontFrame
<1>7. /\ Framed = Framed' \cup {Key(x)} /\ Handed' = Handed
      /\ Popped' = Popped \cup {Key(x)} /\ Tracked' = Tracked \cup {Key(x)}
      /\ Watched' = Watched
  <2>1. /\ "track" \in Labels /\ InPop("track") /\ ~InWait("track")
        /\ ~InPop(pc[t]) /\ ~InWait(pc[t]) /\ pc[t] # "track"
    BY <1>4 DEF Labels, InPop, InWait
  <2>2. Framed = Framed' \cup {Key(x)}
    <3>1. \A k \in DOMAIN frames : k = 1 \/ k - 1 \in DOMAIN frames'
      BY <1>6
    <3>2. \A k \in DOMAIN frames : k # 1 => frames[k] = frames'[k - 1]
      BY <1>6
    <3>. QED BY <1>6, <3>1, <3>2 DEF Framed, Key
  <2>3. Handed' = Handed
    BY <1>4, <2>1, MoveSets
  <2>4. Popped' = Popped \cup {Key(c.old)} /\ Tracked' = Tracked \cup {Key(c.old)}
    BY <1>4, <2>1, MoveSets
  <2>5. Watched' = Watched
    BY <1>4, <2>1, MoveSets
  <2>. QED BY <1>4, <2>2, <2>3, <2>4, <2>5
<1>8. Uses' = Uses /\ \A g : Held(g)' <=> Held(g)
  BY <1>5, <1>7 DEF Uses, Held
<1>9. \A g : Pins(g)' = Pins(g)
  BY <1>4, MovePins DEF InLook, Labels
<1>10. /\ pc'[t] = "track" /\ call'[t] = c /\ Popping(t)' /\ ~Failed(t)' /\ ~Late(t)'
       /\ \A u \in Threads : u # t =>
            /\ pc'[u] = pc[u] /\ call'[u] = call[u]
            /\ Popping(u)' <=> Popping(u)
            /\ Failed(u)' <=> Failed(u)
            /\ Late(u)' <=> Late(u)
  BY <1>4, MoveOthers DEF InPop, Labels
<1>11. UsesInv'
  BY <1>5, <1>8 DEF UsesInv, Current, At
<1>12. FrameInv'
  <2>0. \A k \in DOMAIN frames : frames[k].index \in Nat /\ k \in Nat
    <3>1. \A k \in DOMAIN frames : frames[k] \in Frame /\ k \in Nat
      BY <1>6 DEF TrackerType
    <3>. QED BY <3>1 DEF Frame
  <2>1. \A k, l \in DOMAIN frames' : k < l => frames'[k].index < frames'[l].index
    BY <1>6, <2>0 DEF FrameInv
  <2>2. \A u \in Threads : call'[u].frame = call[u].frame
    BY <1>4, <1>10
  <2>3. \A u \in Threads : call[u].frame # None =>
          \A k \in DOMAIN frames' : frames'[k].index # call[u].frame.index
    BY <1>6 DEF FrameInv
  <2>4. \A u \in Threads : u # t /\ Popping(u)' =>
          /\ Popping(u) /\ call'[u].old = call[u].old
          /\ \A k \in DOMAIN frames' : frames'[k].index # call[u].old.index
          /\ x.index # call[u].old.index
    BY <1>6, <1>10 DEF FrameInv
  <2>5. /\ \A k \in DOMAIN frames' : frames'[k].index # x.index
        /\ \A u \in Threads : call[u].frame # None => call[u].frame.index # x.index
    BY <1>6, <2>0 DEF FrameInv
  <2>6. \A u \in Threads : Popping(u)' =>
          /\ \A k \in DOMAIN frames' : frames'[k].index # call'[u].old.index
          /\ \A v \in Threads : call'[v].frame # None =>
                                  call'[v].frame.index # call'[u].old.index
          /\ \A v \in Threads : Popping(v)' /\ call'[v].old.index = call'[u].old.index
                                  => v = u
    <3>1. ASSUME NEW u \in Threads, u # t, Popping(u)'
          PROVE  /\ \A k \in DOMAIN frames' : frames'[k].index # call'[u].old.index
                 /\ \A v \in Threads : call'[v].frame # None =>
                                         call'[v].frame.index # call'[u].old.index
                 /\ \A v \in Threads : Popping(v)' /\ call'[v].old.index = call'[u].old.index
                                         => v = u
      BY <1>4, <1>10, <2>2, <2>4, <3>1 DEF FrameInv
    <3>2. /\ \A k \in DOMAIN frames' : frames'[k].index # call'[t].old.index
          /\ \A v \in Threads : call'[v].frame # None =>
                                  call'[v].frame.index # call'[t].old.index
          /\ \A v \in Threads : Popping(v)' /\ call'[v].old.index = call'[t].old.index
                                  => v = t
      BY <1>4, <1>10, <2>2, <2>4, <2>5
    <3>. QED BY <3>1, <3>2
  <2>7. \A k \in done' + 1 .. Len(gpu') : gpu'[k].index # 0 =>
          <<gpu'[k].index, gpu'[k].fence>> \in Framed' \cup Handed'
    <3>1. ASSUME NEW k \in done + 1 .. Len(gpu), gpu[k].index # 0
          PROVE  <<gpu[k].index, gpu[k].fence>> \in Framed' \cup Handed'
      <4>1. fence_state[gpu[k].fence] = "unsignaled"
            /\ <<gpu[k].index, gpu[k].fence>> \in Framed \cup Handed
        BY <3>1, RunningUse
      <4>2. <<gpu[k].index, gpu[k].fence>> # Key(x)
        BY <1>1, <1>2, <4>1 DEF Signaled, Key
      <4>. QED BY <1>7, <4>1, <4>2
    <3>. QED BY <1>5, <3>1
  <2>. QED BY <2>1, <2>2, <2>3, <2>6, <2>7 DEF FrameInv
<1>13. FreeInv'
  <2>1. Free' = Free
    BY <1>5 DEF Free
  <2>2. \A u \in Threads : Failed(u)' => Failed(u) /\ call'[u].fence = call[u].fence
    BY <1>10
  <2>. QED BY <1>5, <1>8, <2>1, <2>2 DEF FreeInv
<1>14. PinInv'
  <2>1. \A g \in Fences : pinned'[g] = Cardinality(Pins(g))'
    BY <1>5, <1>9 DEF PinInv
  <2>2. \A g \in pending_destroy' :
          pinned'[g] > 0 /\ fence_state'[g] = "signaled" /\ ~Held(g)'
    BY <1>5, <1>8 DEF PinInv
  <2>3. \A u \in Threads : Late(u)' => Late(u) /\ call'[u].fence = call[u].fence
    BY <1>10
  <2>4. \A u \in Threads : pc'[u] = "recycle_old" =>
          pc'[u] = pc[u] /\ call'[u].old = call[u].old
    BY <1>10
  <2>5. \A u \in Threads : pc'[u] = "recycle_old" =>
          pinned'[call'[u].old.fence] = 0 /\ \A v \in fences' : v[2] # call'[u].old.fence
    BY <1>5, <2>4 DEF PinInv
  <2>6. ASSUME NEW u \in Threads, pc'[u] = "track" PROVE Key(call[u].old)' \in fences'
    <3>1. CASE u = t
      <4>1. Key(x) \in fences
        BY <1>7 DEF TrackInv
      <4>. QED BY <1>4, <1>5, <1>10, <3>1, <4>1 DEF Key
    <3>2. CASE u # t
      <4>1. Key(call[u].old) \in fences
        BY <1>10, <2>6, <3>2 DEF PinInv
      <4>. QED BY <1>5, <1>10, <3>2, <4>1 DEF Key
    <3>. QED BY <3>1, <3>2
  <2>7. \A u \in Threads : Late(u)' =>
          /\ pinned'[call'[u].fence] = 0
          /\ ~Held(call[u].fence)
          /\ \A v \in Threads : Late(v)' /\ call'[v].fence = call'[u].fence => v = u
    BY <1>5, <2>3 DEF PinInv
  <2>8. ASSUME NEW u \in Threads, Late(u)' PROVE ~Held(call[u].fence)'
    <3>1. PICK g : g = call[u].fence
      OBVIOUS
    <3>2. g = call'[u].fence /\ ~Held(g)
      BY <2>3, <2>7, <2>8, <3>1
    <3>3. ~Held(g)'
      BY <1>8, <3>2
    <3>. QED BY <3>2, <3>3 DEF Held
  <2>. QED BY <2>1, <2>2, <2>5, <2>6, <2>7, <2>8 DEF PinInv
<1>15. TrackInv'
  BY <1>5, <1>7 DEF TrackInv
<1>. QED BY <1>11, <1>12, <1>13, <1>14, <1>15

LEMMA RequeueKeeps ==
  ASSUME Base, NEW t \in Threads, HarvestEnds(t) \/ HarvestFails(t), call[t].frame # None
  PROVE  LifeInv'
<1>. USE DEF Base
<1>. TypeOK /\ CallsType /\ TrackerType /\ LifeInv
  BY DEF TypeOK
<1>. USE DEF LifeInv
<1>1. PICK x \in Frame : x = call[t].frame /\ InsertFrame(x)
  BY HeldTyped DEF HarvestEnds, HarvestFails
<1>2. PICK l, c :
        /\ l \in Labels
        /\ pc' = [pc EXCEPT ![t] = l] /\ call' = [call EXCEPT ![t] = c]
        /\ l \in {"idle", "limit"} /\ c.frame = None
  <2>1. CASE Return(t)
    <3>1. NoCall.frame = None /\ "idle" \in Labels
      BY DEF NoCall, Labels
    <3>. QED BY <2>1, <3>1 DEF Return
  <2>2. CASE /\ Goto(t, "limit")
             /\ call' = [call EXCEPT ![t].frame = None, ![t].resume = "limit"]
    <3>1. PICK c : c = [call[t] EXCEPT !.frame = None, !.resume = "limit"]
      OBVIOUS
    <3>2. call' = [call EXCEPT ![t] = c] /\ c.frame = None /\ "limit" \in Labels
      BY <2>2, <3>1 DEF CallsType, CallType, Labels
    <3>. QED BY <2>2, <3>2 DEF Goto
  <2>. QED BY <2>1, <2>2 DEF HarvestEnds, HarvestFails
<1>3. /\ pc[t] = "harvest"
      /\ UNCHANGED <<gpu, done, completed, fence_state, free_fences, fences, pinned,
                     pending_destroy, dropped>>
  BY DEF HarvestEnds, HarvestFails
<1>4. PICK at \in 1 .. Len(frames) + 1 :
        /\ \A k \in 1 .. at - 1 : frames[k].index <= x.index
        /\ at <= Len(frames) => frames[at].index > x.index
        /\ Len(frames) \in Nat /\ DOMAIN frames = 1 .. Len(frames)
        /\ DOMAIN frames' = 1 .. Len(frames) + 1
        /\ frames'[at] = x
        /\ \A k \in 1 .. at - 1 : frames'[k] = frames[k]
        /\ \A k \in at + 1 .. Len(frames) + 1 : frames'[k] = frames[k - 1]
  BY <1>1, InsertFacts
<1>5. /\ ~InPop(l) /\ ~InWait(l) /\ ~InLook(l) /\ l # "track" /\ l # "cleanup"
      /\ l # "recycle_waited" /\ l # "recycle_old"
      /\ ~InPop(pc[t]) /\ ~InWait(pc[t]) /\ ~InLook(pc[t]) /\ pc[t] # "track"
  BY <1>2, <1>3 DEF InPop, InWait, InLook
<1>6. \A k \in DOMAIN frames' : k < at \/ k = at \/ k \in at + 1 .. Len(frames) + 1
  BY <1>4
<1>7. /\ Framed' = Framed \cup {Key(x)} /\ Handed' \subseteq Handed
      /\ Handed \subseteq Handed' \cup {Key(x)}
      /\ Key(x) \in Handed /\ Popped' = Popped /\ Tracked' = Tracked
      /\ Watched' = Watched
  <2>1. Framed' = Framed \cup {Key(x)}
    <3>1. \A k \in DOMAIN frames' : frames'[k] = x
                                    \/ \E m \in DOMAIN frames : frames'[k] = frames[m]
      <4>1. TAKE k \in DOMAIN frames'
      <4>2. CASE k < at
        BY <1>4, <4>2
      <4>3. CASE k \in at + 1 .. Len(frames) + 1
        <5>1. k - 1 \in DOMAIN frames
          BY <1>4, <4>3
        <5>. QED BY <1>4, <4>3, <5>1
      <4>. QED BY <1>4, <1>6, <4>2, <4>3
    <3>2. \A m \in DOMAIN frames : \E k \in DOMAIN frames' : frames'[k] = frames[m]
      <4>1. TAKE m \in DOMAIN frames
      <4>2. CASE m < at
        BY <1>4, <4>2
      <4>3. CASE m >= at
        <5>1. m + 1 \in at + 1 .. Len(frames) + 1 /\ m + 1 \in DOMAIN frames' /\ (m + 1) - 1 = m
          BY <1>4, <4>3
        <5>. QED BY <1>4, <5>1
      <4>. QED BY <1>4, <4>2, <4>3
    <3>3. at \in DOMAIN frames' /\ frames'[at] = x
      BY <1>4
    <3>. QED BY <3>1, <3>2, <3>3 DEF Framed, Key
  <2>2. Handed' \subseteq Handed /\ Handed \subseteq Handed' \cup {Key(call[t].frame)}
    BY <1>2, MoveSets
  <2>3. Key(x) \in Handed
    BY <1>1, UseKinds
  <2>4. Popped' = Popped /\ Tracked' = Tracked /\ Watched' = Watched
    BY <1>2, <1>5, MoveSets
  <2>. QED BY <1>1, <2>1, <2>2, <2>3, <2>4
<1>8. Uses' = Uses /\ \A g : Held(g)' <=> Held(g)
  BY <1>3, <1>7 DEF Uses, Held
<1>9. \A g : Pins(g)' = Pins(g)
  BY <1>2, <1>5, MovePins
<1>10. /\ pc'[t] = l /\ call'[t] = c /\ ~Popping(t)' /\ ~Failed(t)' /\ ~Late(t)'
       /\ \A u \in Threads : u # t =>
            /\ pc'[u] = pc[u] /\ call'[u] = call[u]
            /\ Popping(u)' <=> Popping(u)
            /\ Failed(u)' <=> Failed(u)
            /\ Late(u)' <=> Late(u)
  <2>1. /\ pc'[t] = l /\ call'[t] = c
        /\ Popping(t)' <=> InPop(l)
        /\ Failed(t)' <=> l = "cleanup" /\ c.fence # None
        /\ Late(t)' <=> l = "recycle_waited"
    BY <1>2, MoveOthers
  <2>2. \A u \in Threads : u # t =>
          /\ pc'[u] = pc[u] /\ call'[u] = call[u]
          /\ Popping(u)' <=> Popping(u)
          /\ Failed(u)' <=> Failed(u)
          /\ Late(u)' <=> Late(u)
    BY <1>2, MoveOthers
  <2>. QED BY <1>5, <2>1, <2>2
<1>11. UsesInv'
  BY <1>3, <1>8 DEF UsesInv, Current, At
<1>12. FrameInv'
  <2>1. /\ \A k \in DOMAIN frames : frames[k].index \in Nat /\ k \in Nat
        /\ x.index \in Nat
    <3>1. \A k \in DOMAIN frames : frames[k] \in Frame /\ k \in Nat
      BY <1>4 DEF TrackerType
    <3>. QED BY <3>1 DEF Frame
  <2>2. \A k \in DOMAIN frames : frames[k].index # x.index
    BY <1>1 DEF FrameInv
  <2>3. \A k, m \in DOMAIN frames : k < m => frames[k].index < frames[m].index
    BY DEF FrameInv
  <2>4. \A k \in DOMAIN frames : k < at => frames[k].index < x.index
    BY <1>4, <2>1, <2>2
  <2>5. \A k \in DOMAIN frames : k >= at => frames[k].index > x.index
    <3>1. TAKE k \in DOMAIN frames
    <3>2. HAVE k >= at
    <3>3. at \in DOMAIN frames /\ frames[at].index > x.index
      BY <1>4, <2>1, <3>2
    <3>. QED BY <2>1, <2>3, <3>2, <3>3
  <2>6. \A k, m \in DOMAIN frames' : k < m => frames'[k].index < frames'[m].index
    <3>1. TAKE k, m \in DOMAIN frames'
    <3>2. HAVE k < m
    <3>3. k \in Nat /\ m \in Nat /\ at \in Nat
      BY <1>4, <3>1
    <3>4. CASE m < at
      BY <1>4, <2>3, <3>2, <3>3, <3>4
    <3>5. CASE m = at
      BY <1>4, <2>4, <3>2, <3>3, <3>5
    <3>6. CASE m > at /\ k < at
      <4>1. frames'[k] = frames[k] /\ k \in DOMAIN frames /\ frames'[m] = frames[m - 1]
            /\ m - 1 \in DOMAIN frames /\ m - 1 >= at
        BY <1>4, <3>3, <3>6
      <4>. QED BY <2>1, <2>4, <2>5, <3>6, <4>1
    <3>7. CASE m > at /\ k = at
      <4>1. frames'[m] = frames[m - 1] /\ m - 1 \in DOMAIN frames /\ m - 1 >= at
        BY <1>4, <3>3, <3>7
      <4>. QED BY <1>4, <2>5, <3>7, <4>1
    <3>8. CASE m > at /\ k > at
      <4>1. frames'[m] = frames[m - 1] /\ m - 1 \in DOMAIN frames
            /\ frames'[k] = frames[k - 1] /\ k - 1 \in DOMAIN frames /\ k - 1 < m - 1
        BY <1>4, <3>2, <3>3, <3>8
      <4>. QED BY <2>3, <4>1
    <3>. QED BY <3>3, <3>4, <3>5, <3>6, <3>7, <3>8
  <2>7. \A k \in DOMAIN frames' : frames'[k] = x \/ \E m \in DOMAIN frames : frames'[k] = frames[m]
    <3>1. TAKE k \in DOMAIN frames'
    <3>2. CASE k < at
      BY <1>4, <3>2
    <3>3. CASE k \in at + 1 .. Len(frames) + 1
      <4>1. k - 1 \in DOMAIN frames
        BY <1>4, <3>3
      <4>. QED BY <1>4, <3>3, <4>1
    <3>. QED BY <1>4, <1>6, <3>2, <3>3
  <2>8. \A u \in Threads : call'[u].frame # None =>
          /\ u # t /\ call'[u].frame = call[u].frame
          /\ call[u].frame.index # x.index
    BY <1>1, <1>2, <1>10 DEF FrameInv
  <2>9. \A u \in Threads : Popping(u)' =>
          /\ u # t /\ Popping(u) /\ call'[u].old = call[u].old
          /\ call[u].old.index # x.index
    BY <1>1, <1>10 DEF FrameInv
  <2>10. \A u \in Threads : call'[u].frame # None =>
           /\ \A k \in DOMAIN frames' : frames'[k].index # call'[u].frame.index
           /\ \A v \in Threads : call'[v].frame # None
                                 /\ call'[v].frame.index = call'[u].frame.index => v = u
    BY <2>7, <2>8 DEF FrameInv
  <2>11. \A u \in Threads : Popping(u)' =>
           /\ \A k \in DOMAIN frames' : frames'[k].index # call'[u].old.index
           /\ \A v \in Threads : call'[v].frame # None =>
                                   call'[v].frame.index # call'[u].old.index
           /\ \A v \in Threads : Popping(v)' /\ call'[v].old.index = call'[u].old.index
                                   => v = u
    BY <2>7, <2>8, <2>9 DEF FrameInv
  <2>12. \A k \in done' + 1 .. Len(gpu') : gpu'[k].index # 0 =>
           <<gpu'[k].index, gpu'[k].fence>> \in Framed' \cup Handed'
    BY <1>3, <1>7 DEF FrameInv
  <2>. QED BY <2>6, <2>10, <2>11, <2>12 DEF FrameInv
<1>13. FreeInv'
  <2>1. Free' = Free
    BY <1>3 DEF Free
  <2>2. \A u \in Threads : Failed(u)' => Failed(u) /\ call'[u].fence = call[u].fence
    BY <1>10
  <2>. QED BY <1>3, <1>8, <2>1, <2>2 DEF FreeInv
<1>14. PinInv'
  <2>1. \A g \in Fences : pinned'[g] = Cardinality(Pins(g))'
    BY <1>3, <1>9 DEF PinInv
  <2>2. \A g \in pending_destroy' :
          pinned'[g] > 0 /\ fence_state'[g] = "signaled" /\ ~Held(g)'
    BY <1>3, <1>8 DEF PinInv
  <2>3. \A u \in Threads : Late(u)' => Late(u) /\ call'[u].fence = call[u].fence
    BY <1>10
  <2>4. \A u \in Threads : pc'[u] \in {"track", "recycle_old"} =>
          pc'[u] = pc[u] /\ call'[u].old = call[u].old
    BY <1>5, <1>10
  <2>5. \A u \in Threads : pc'[u] = "recycle_old" =>
          pinned'[call'[u].old.fence] = 0 /\ \A v \in fences' : v[2] # call'[u].old.fence
    BY <1>3, <2>4 DEF PinInv
  <2>6. ASSUME NEW u \in Threads, pc'[u] = "track" PROVE Key(call[u].old)' \in fences'
    <3>1. Key(call[u].old) \in fences
      BY <2>4, <2>6 DEF PinInv
    <3>2. Key(call[u].old)' = Key(call[u].old)
      BY <2>4, <2>6 DEF Key
    <3>. QED BY <1>3, <3>1, <3>2
  <2>7. \A u \in Threads : Late(u)' =>
          /\ pinned'[call'[u].fence] = 0
          /\ ~Held(call[u].fence)
          /\ \A v \in Threads : Late(v)' /\ call'[v].fence = call'[u].fence => v = u
    BY <1>3, <2>3 DEF PinInv
  <2>8. ASSUME NEW u \in Threads, Late(u)' PROVE ~Held(call[u].fence)'
    <3>1. PICK g : g = call[u].fence
      OBVIOUS
    <3>2. g = call'[u].fence /\ ~Held(g)
      BY <2>3, <2>7, <2>8, <3>1
    <3>3. ~Held(g)'
      BY <1>8, <3>2
    <3>. QED BY <3>2, <3>3 DEF Held
  <2>. QED BY <2>1, <2>2, <2>5, <2>6, <2>7, <2>8 DEF PinInv
<1>15. TrackInv'
  BY <1>3, <1>7 DEF TrackInv
<1>. QED BY <1>11, <1>12, <1>13, <1>14, <1>15

-----------------------------------------------------------------------------
(* A submission is known to be complete                                    *)

LEMMA TrackKeeps ==
  ASSUME Base, NEW t \in Threads, Track(t)
  PROVE  LifeInv'
<1>. USE DEF Base
<1>. TypeOK /\ CallsType /\ TrackerType /\ LifeInv
  BY DEF TypeOK
<1>. USE DEF LifeInv
<1>1. PICK x \in Frame : x = call[t].old
  BY HeldTyped DEF Track
<1>2. PICK f \in Fences : f = x.fence
  BY DEF Frame
<1>3. PICK i \in Nat : i = x.index
  BY DEF Frame
<1>4. /\ pc[t] = "track" /\ Popping(t) /\ Key(x) = <<i, f>>
      /\ completed' = MaxOf(completed, i) /\ fences' = {e \in fences : e[1] # i}
      /\ UNCHANGED <<gpu, done, frames, fence_state, free_fences, pinned, dropped>>
  BY <1>1, <1>2, <1>3 DEF Track, Popping, Key, MarkCompleted, Unmapped
<1>5. PICK l, c :
        /\ l \in Labels
        /\ pc' = [pc EXCEPT ![t] = l] /\ call' = [call EXCEPT ![t] = c]
        /\ c.frame = call[t].frame
        /\ \/ /\ l \in {"harvest", "limit"} /\ pinned[f] > 0
              /\ pending_destroy' = pending_destroy \cup {f}
           \/ /\ l = "recycle_old" /\ c = call[t] /\ ~(pinned[f] > 0)
              /\ UNCHANGED pending_destroy
  <2>1. CASE Resume(t) /\ pinned[f] > 0 /\ pending_destroy' = pending_destroy \cup {f}
    <3>1. PICK c : c = [call[t] EXCEPT !.old = None]
      OBVIOUS
    <3>2. call[t] \in CallType /\ c.frame = call[t].frame
      BY <3>1 DEF CallsType, CallType
    <3>3. call[t].resume \in {"harvest", "limit"} /\ call[t].resume \in Labels
      BY <3>2 DEF CallType, Labels
    <3>. QED BY <2>1, <3>1, <3>2, <3>3 DEF Resume, Goto
  <2>2. CASE /\ Goto(t, "recycle_old") /\ ~(pinned[f] > 0)
             /\ UNCHANGED <<pending_destroy, call>>
    <3>1. call' = [call EXCEPT ![t] = call[t]] /\ "recycle_old" \in Labels
      BY <2>2 DEF CallsType, Labels
    <3>. QED BY <2>2, <3>1 DEF Goto
  <2>. QED BY <1>1, <1>2, <2>1, <2>2 DEF Track
<1>6. /\ ~InWait(l) /\ ~InLook(l) /\ l # "track" /\ l # "cleanup" /\ l # "recycle_waited"
      /\ InPop(pc[t]) /\ ~InWait(pc[t]) /\ ~InLook(pc[t])
  BY <1>4, <1>5 DEF InPop, InWait, InLook
<1>7. /\ Framed' = Framed /\ Handed' = Handed /\ Watched' = Watched
      /\ Popped' \subseteq Popped /\ Tracked \subseteq Tracked' \cup {<<i, f>>}
      /\ <<i, f>> \in Popped
  <2>1. Framed' = Framed
    BY <1>4 DEF Framed, Key
  <2>2. Handed' = Handed
    BY <1>5, MoveSets
  <2>3. Watched' = Watched
    BY <1>5, <1>6, MoveSets
  <2>4. Tracked \subseteq Tracked' \cup {Key(call[t].old)}
    BY <1>5, <1>6, MoveSets
  <2>5. Popped' \subseteq Popped
    <3>1. CASE l \in {"harvest", "limit"}
      BY <1>5, <3>1, MoveSets DEF InPop
    <3>2. CASE l = "recycle_old" /\ c = call[t]
      BY <1>5, <1>6, <3>2, MoveSets DEF InPop
    <3>. QED BY <1>5, <3>1, <3>2
  <2>6. Key(x) \in Popped
    BY <1>1, <1>4, UseKinds
  <2>. QED BY <1>1, <1>4, <2>1, <2>2, <2>3, <2>4, <2>5, <2>6
<1>8. fences' \subseteq fences /\ Uses' \subseteq Uses /\ <<i, f>> \in Uses
      /\ \A g : Held(g)' => Held(g)
  BY <1>4, <1>7 DEF Uses, Held
<1>9. \A g : Pins(g)' = Pins(g)
  BY <1>5, <1>6, MovePins
<1>10. /\ pc'[t] = l /\ call'[t] = c /\ (Popping(t)' <=> InPop(l))
       /\ ~Failed(t)' /\ ~Late(t)'
       /\ \A u \in Threads : u # t =>
            /\ pc'[u] = pc[u] /\ call'[u] = call[u]
            /\ Popping(u)' <=> Popping(u)
            /\ Failed(u)' <=> Failed(u)
            /\ Late(u)' <=> Late(u)
  <2>1. /\ pc'[t] = l /\ call'[t] = c
        /\ Popping(t)' <=> InPop(l)
        /\ Failed(t)' <=> l = "cleanup" /\ c.fence # None
        /\ Late(t)' <=> l = "recycle_waited"
    BY <1>5, MoveOthers
  <2>2. \A u \in Threads : u # t =>
          /\ pc'[u] = pc[u] /\ call'[u] = call[u]
          /\ Popping(u)' <=> Popping(u)
          /\ Failed(u)' <=> Failed(u)
          /\ Late(u)' <=> Late(u)
    BY <1>5, MoveOthers
  <2>. QED BY <1>6, <2>1, <2>2
<1>11. \A u \in Threads : Popping(u)' => Popping(u) /\ call'[u].old = call[u].old
  BY <1>4, <1>5, <1>10 DEF InPop
\* No one else has the index, so no one else has the fence.
<1>12. /\ \A u \in Framed \cup Handed : u[1] # i /\ u[2] # f
       /\ \A u \in Threads : u # t /\ Popping(u) =>
            call[u].old.index # i /\ call[u].old.fence # f
       /\ \A u \in fences' : u[2] # f
  <2>1. \A u \in Uses : u[1] = i <=> u[2] = f
    BY <1>8, UseFacts
  <2>2. \A k \in DOMAIN frames : frames[k].index # i
    BY <1>1, <1>3, <1>4 DEF FrameInv
  <2>3. \A u \in Threads : call[u].frame # None => call[u].frame.index # i
    BY <1>1, <1>3, <1>4 DEF FrameInv
  <2>4. \A u \in Threads : u # t /\ Popping(u) => call[u].old.index # i
    BY <1>1, <1>3, <1>4 DEF FrameInv
  <2>5. \A u \in Framed \cup Handed : u[1] # i /\ u \in Uses
    BY <2>2, <2>3 DEF Framed, Handed, Key, Uses
  <2>6. \A u \in Threads : u # t /\ Popping(u) => call[u].old.fence # f
    BY <2>1, <2>4, UseKinds DEF Key
  <2>7. \A u \in fences' : u[2] # f
    BY <1>4, <2>1, UseKinds
  <2>. QED BY <2>1, <2>4, <2>5, <2>6, <2>7
<1>13. UsesInv'
  BY <1>4, <1>8 DEF UsesInv, Current, At
<1>14. FrameInv'
  <2>1. \A u \in Threads : call'[u].frame = call[u].frame
    BY <1>5, <1>10
  <2>2. \A u \in Threads : Popping(u)' =>
          /\ \A k \in DOMAIN frames' : frames'[k].index # call'[u].old.index
          /\ \A v \in Threads : call'[v].frame # None =>
                                  call'[v].frame.index # call'[u].old.index
          /\ \A v \in Threads : Popping(v)' /\ call'[v].old.index = call'[u].old.index
                                  => v = u
    BY <1>4, <1>11, <2>1 DEF FrameInv
  <2>3. \A k \in done' + 1 .. Len(gpu') : gpu'[k].index # 0 =>
          <<gpu'[k].index, gpu'[k].fence>> \in Framed' \cup Handed'
    BY <1>4, <1>7 DEF FrameInv
  <2>. QED BY <1>4, <2>1, <2>2, <2>3 DEF FrameInv
<1>15. FreeInv'
  <2>1. Free' = Free
    BY <1>4 DEF Free
  <2>2. \A u \in Threads : Failed(u)' => Failed(u) /\ call'[u].fence = call[u].fence
    BY <1>10
  <2>. QED BY <1>4, <1>8, <2>1, <2>2 DEF FreeInv
<1>16. fence_state[f] = "signaled"
  <2>1. Current(i, f)
    <3>1. <<i, f>>[1] = i /\ <<i, f>>[2] = f
      OBVIOUS
    <3>. QED BY <1>8, <3>1, UseFacts
  <2>2. PICK k \in DOMAIN gpu : At(i, f, k)
    BY <2>1 DEF Current
  <2>3. gpu[k].index = i /\ i # 0 /\ gpu[k].fence = f
    BY <2>1, <2>2 DEF Current, At
  <2>4. ASSUME ~(k <= done) PROVE FALSE
    <3>1. k \in done + 1 .. Len(gpu)
      BY <2>2, <2>4 DEF TypeOK, GpuType
    <3>2. <<i, f>> \in Framed \cup Handed
      BY <2>3, <3>1 DEF FrameInv
    <3>3. <<i, f>>[1] = i
      OBVIOUS
    <3>. QED BY <1>12, <3>2, <3>3
  <2>. QED BY <2>2, <2>4 DEF At
<1>17. PinInv'
  <2>1. \A g \in Fences : pinned'[g] = Cardinality(Pins(g))'
    BY <1>4, <1>9 DEF PinInv
  <2>2. \A g \in pending_destroy :
          pinned'[g] > 0 /\ fence_state'[g] = "signaled" /\ ~Held(g)'
    BY <1>4, <1>8 DEF PinInv
  <2>3. ASSUME l \in {"harvest", "limit"} PROVE ~Held(f)'
    <3>1. \A u \in Popped' : u[2] # f
      <4>1. \A u \in Threads : Popping(u)' => call'[u].old.fence # f
        BY <1>10, <1>11, <1>12, <2>3 DEF InPop
      <4>. QED BY <4>1 DEF Popped, Key
    <3>. QED BY <1>7, <1>12, <3>1 DEF Held
  <2>4. ASSUME NEW g \in pending_destroy', g \notin pending_destroy
        PROVE  pinned'[g] > 0 /\ fence_state'[g] = "signaled" /\ ~Held(g)'
    <3>1. g = f /\ l \in {"harvest", "limit"} /\ pinned[f] > 0
      BY <1>5, <2>4
    <3>2. pinned'[g] > 0 /\ fence_state'[g] = "signaled"
      BY <1>4, <1>16, <3>1
    <3>. QED BY <2>3, <3>1, <3>2 DEF Held
  <2>5. \A u \in Threads : Late(u)' => Late(u) /\ call'[u].fence = call[u].fence
    BY <1>10
  <2>6. \A u \in Threads : pc'[u] = "recycle_old" =>
          pinned'[call'[u].old.fence] = 0 /\ \A v \in fences' : v[2] # call'[u].old.fence
    <3>1. ASSUME NEW u \in Threads, u # t, pc'[u] = "recycle_old"
          PROVE  pinned'[call'[u].old.fence] = 0 /\ \A v \in fences' : v[2] # call'[u].old.fence
      BY <1>4, <1>8, <1>10, <3>1 DEF PinInv
    <3>2. ASSUME pc'[t] = "recycle_old"
          PROVE  pinned'[call'[t].old.fence] = 0 /\ \A v \in fences' : v[2] # call'[t].old.fence
      <4>1. ~(pinned[f] > 0) /\ call'[t].old.fence = f
        BY <1>1, <1>2, <1>5, <1>10, <3>2
      <4>2. pinned[f] \in Nat
        BY DEF TrackerType
      <4>. QED BY <1>4, <1>12, <4>1, <4>2
    <3>. QED BY <3>1, <3>2
  <2>7. ASSUME NEW u \in Threads, pc'[u] = "track" PROVE Key(call[u].old)' \in fences'
    <3>1. u # t /\ pc[u] = "track" /\ call'[u].old = call[u].old
      BY <1>6, <1>10, <2>7
    <3>2. Key(call[u].old) \in fences /\ call[u].old.index # i
      BY <1>12, <3>1 DEF PinInv, Popping
    <3>3. Key(call[u].old)' = Key(call[u].old) /\ Key(call[u].old)[1] # i
      BY <3>1, <3>2 DEF Key
    <3>. QED BY <1>4, <3>2, <3>3
  <2>8. \A u \in Threads : Late(u)' =>
          /\ pinned'[call'[u].fence] = 0
          /\ ~Held(call[u].fence)
          /\ \A v \in Threads : Late(v)' /\ call'[v].fence = call'[u].fence => v = u
    BY <1>4, <2>5 DEF PinInv
  <2>9. ASSUME NEW u \in Threads, Late(u)' PROVE ~Held(call[u].fence)'
    <3>1. PICK g : g = call[u].fence
      OBVIOUS
    <3>2. g = call'[u].fence /\ ~Held(g)
      BY <2>5, <2>8, <2>9, <3>1
    <3>3. ~Held(g)'
      BY <1>8, <3>2
    <3>. QED BY <3>2, <3>3 DEF Held
  <2>10. \A g \in pending_destroy' :
           pinned'[g] > 0 /\ fence_state'[g] = "signaled" /\ ~Held(g)'
    BY <2>2, <2>4
  <2>. QED BY <2>1, <2>6, <2>7, <2>8, <2>9, <2>10 DEF PinInv
<1>18. TrackInv'
  <2>1. ~dropped' => \A k \in DOMAIN gpu' : gpu'[k].index > completed' =>
          <<gpu'[k].index, gpu'[k].fence>> \in fences'
    <3>1. SUFFICES ASSUME ~dropped, NEW k \in DOMAIN gpu, gpu[k].index > MaxOf(completed, i)
                   PROVE  <<gpu[k].index, gpu[k].fence>> \in fences'
      BY <1>4
    <3>2. gpu[k] \in WorkType /\ completed \in Nat
      BY DEF TypeOK, GpuType, TrackerType
    <3>3. gpu[k].index \in Nat /\ gpu[k].index > completed /\ gpu[k].index # i
      BY <3>1, <3>2 DEF MaxOf, WorkType
    <3>4. <<gpu[k].index, gpu[k].fence>> \in fences
      BY <3>1, <3>3 DEF TrackInv
    <3>. QED BY <1>4, <3>3, <3>4
  <2>2. fences' \subseteq Framed' \cup Handed' \cup Tracked'
    <3>1. \A u \in fences' : u \in fences /\ u # <<i, f>>
      BY <1>4
    <3>. QED BY <1>7, <3>1 DEF TrackInv
  <2>3. Framed' \cup Handed' \subseteq fences'
    BY <1>4, <1>7, <1>12 DEF TrackInv
  <2>. QED BY <2>1, <2>2, <2>3 DEF TrackInv
<1>. QED BY <1>13, <1>14, <1>15, <1>17, <1>18

-----------------------------------------------------------------------------
(* Waiters pin a fence and let it go                                       *)

LEMMA FenceOfIn ==
  ASSUME NEW i, FenceOf(i) # None
  PROVE  <<i, FenceOf(i)>> \in fences \/ ~(fences \subseteq Nat \X Fences)
<1>1. SUFFICES ASSUME fences \subseteq Nat \X Fences
               PROVE  <<i, FenceOf(i)>> \in fences
  OBVIOUS
<1> DEFINE at == {entry \in fences : entry[1] = i}
<1>2. at # {}
  BY DEF FenceOf
<1>3. (CHOOSE entry \in at : TRUE) \in at
  BY <1>2
<1>4. PICK e \in at : e = (CHOOSE entry \in at : TRUE)
  BY <1>3
<1>5. FenceOf(i) = e[2]
  BY <1>2, <1>4 DEF FenceOf
<1>6. e = <<e[1], e[2]>> /\ e[1] = i /\ e \in fences
  BY <1>1, <1>4
<1>. QED BY <1>5, <1>6

LEMMA PinKeeps ==
  ASSUME Base, NEW t \in Threads, WaitTest(t), Goto(t, "wait")
  PROVE  LifeInv'
<1>. USE DEF Base
<1>. TypeOK /\ CallsType /\ TrackerType /\ LifeInv
  BY DEF TypeOK
<1>. USE DEF LifeInv
<1>0. pc[t] = "wait_test" /\ pc'[t] = "wait"
  BY DEF WaitTest, Goto, CallsType
<1>1. PICK i : i = call[t].index
  OBVIOUS
<1>2. /\ FenceOf(i) # None
      /\ pinned' = [pinned EXCEPT ![FenceOf(i)] = @ + 1]
      /\ call' = [call EXCEPT ![t].fence = FenceOf(i)]
  BY <1>0, <1>1 DEF WaitTest, Goto, Return, CallsType
<1>3. PICK f \in Fences : f = FenceOf(i) /\ <<i, f>> \in fences
  BY <1>2, FenceOfIn DEF TrackerType
<1>4. PICK c : c = [call[t] EXCEPT !.fence = f]
  OBVIOUS
<1>5. /\ pc' = [pc EXCEPT ![t] = "wait"] /\ call' = [call EXCEPT ![t] = c]
      /\ c.frame = call[t].frame /\ c.fence = f /\ c.index = i
  BY <1>1, <1>2, <1>3, <1>4 DEF Goto, CallsType, CallType
<1>6. UNCHANGED <<gpu, done, completed, frames, fence_state, free_fences, fences,
                  pending_destroy, dropped>>
  BY DEF WaitTest
<1>7. /\ pinned'[f] = pinned[f] + 1 /\ pinned[f] \in Nat
      /\ \A g \in Fences : g # f => pinned'[g] = pinned[g]
  BY <1>2, <1>3 DEF TrackerType
<1>8. /\ "wait" \in Labels /\ ~InPop("wait") /\ InWait("wait") /\ InLook("wait")
      /\ ~InPop(pc[t]) /\ ~InWait(pc[t]) /\ ~InLook(pc[t]) /\ pc[t] # "track"
  BY <1>0 DEF Labels, InPop, InWait, InLook
<1>9. /\ Framed' = Framed /\ Handed' = Handed /\ Popped' = Popped
      /\ Tracked' = Tracked /\ Watched' = Watched \cup {<<i, f>>}
  <2>1. Framed' = Framed
    BY <1>6 DEF Framed, Key
  <2>2. Handed' = Handed
    BY <1>5, <1>8, MoveSets
  <2>3. Popped' = Popped /\ Tracked' = Tracked
    BY <1>5, <1>8, MoveSets
  <2>4. Watched' = Watched \cup {<<c.index, c.fence>>}
    BY <1>5, <1>8, MoveSets
  <2>. QED BY <1>5, <2>1, <2>2, <2>3, <2>4
<1>10. Uses' = Uses /\ \A g : Held(g)' <=> Held(g)
  BY <1>3, <1>6, <1>9 DEF Uses, Held
<1>11. /\ \A g : g # f => Pins(g)' = Pins(g)
       /\ \A g : g = f => Pins(g)' = Pins(g) \cup {t} /\ t \notin Pins(g)
  <2>1. /\ \A g : g # c.fence => Pins(g)' = Pins(g)
        /\ \A g : g = c.fence => Pins(g)' = Pins(g) \cup {t} /\ t \notin Pins(g)
    BY <1>5, <1>8, MovePins
  <2>. QED BY <1>5, <2>1
<1>12. /\ pc'[t] = "wait" /\ call'[t] = c /\ ~Popping(t)' /\ ~Failed(t)' /\ ~Late(t)'
       /\ \A u \in Threads : u # t =>
            /\ pc'[u] = pc[u] /\ call'[u] = call[u]
            /\ Popping(u)' <=> Popping(u)
            /\ Failed(u)' <=> Failed(u)
            /\ Late(u)' <=> Late(u)
  <2>1. /\ pc'[t] = "wait" /\ call'[t] = c
        /\ Popping(t)' <=> InPop("wait")
        /\ Failed(t)' <=> "wait" = "cleanup" /\ c.fence # None
        /\ Late(t)' <=> "wait" = "recycle_waited"
    BY <1>5, <1>8, MoveOthers
  <2>2. \A u \in Threads : u # t =>
          /\ pc'[u] = pc[u] /\ call'[u] = call[u]
          /\ Popping(u)' <=> Popping(u)
          /\ Failed(u)' <=> Failed(u)
          /\ Late(u)' <=> Late(u)
    BY <1>5, <1>8, MoveOthers
  <2>. QED BY <1>8, <2>1, <2>2
<1>13. UsesInv'
  BY <1>6, <1>10 DEF UsesInv, Current, At
<1>14. FrameInv'
  <2>1. \A u \in Threads : call'[u].frame = call[u].frame
    BY <1>5, <1>12
  <2>2. \A u \in Threads : Popping(u)' => Popping(u) /\ call'[u].old = call[u].old
    BY <1>12
  <2>3. \A k \in done' + 1 .. Len(gpu') : gpu'[k].index # 0 =>
          <<gpu'[k].index, gpu'[k].fence>> \in Framed' \cup Handed'
    BY <1>6, <1>9 DEF FrameInv
  <2>4. \A u \in Threads : Popping(u)' =>
          /\ \A k \in DOMAIN frames' : frames'[k].index # call'[u].old.index
          /\ \A v \in Threads : call'[v].frame # None =>
                                  call'[v].frame.index # call'[u].old.index
          /\ \A v \in Threads : Popping(v)' /\ call'[v].old.index = call'[u].old.index
                                  => v = u
    BY <1>6, <2>1, <2>2 DEF FrameInv
  <2>. QED BY <1>6, <2>1, <2>3, <2>4 DEF FrameInv
<1>15. FreeInv'
  <2>1. Free' = Free
    BY <1>6 DEF Free
  <2>2. \A u \in Threads : Failed(u)' => Failed(u) /\ call'[u].fence = call[u].fence
    BY <1>12
  <2>. QED BY <1>6, <1>10, <2>1, <2>2 DEF FreeInv
<1>16. Held(f)
  <2>1. <<i, f>>[2] = f
    OBVIOUS
  <2>. QED BY <1>3, <2>1 DEF Held
<1>17. PinInv'
  <2>1. ASSUME NEW g \in Fences PROVE pinned'[g] = Cardinality(Pins(g))'
    <3>1. CASE g = f
      <4>1. Cardinality(Pins(g) \cup {t}) = Cardinality(Pins(g)) + 1
        BY <1>11, <3>1, PinsFinite, FS_AddElement
      <4>2. pinned[g] = Cardinality(Pins(g))
        BY DEF PinInv
      <4>. QED BY <1>7, <1>11, <3>1, <4>1, <4>2
    <3>2. CASE g # f
      BY <1>7, <1>11, <3>2 DEF PinInv
    <3>. QED BY <3>1, <3>2
  <2>2. \A g \in pending_destroy' :
          pinned'[g] > 0 /\ fence_state'[g] = "signaled" /\ ~Held(g)'
    <3>1. \A g \in pending_destroy : g \in Fences /\ g # f
      BY <1>16 DEF TrackerType, PinInv
    <3>. QED BY <1>6, <1>7, <1>10, <3>1 DEF PinInv
  <2>3. \A u \in Threads : Late(u)' =>
          /\ Late(u) /\ call'[u].fence = call[u].fence
          /\ call[u].fence # f /\ call[u].fence \in Fences
    BY <1>12, <1>16, HeldTyped DEF PinInv, Late
  <2>4. \A u \in Threads : pc'[u] = "recycle_old" =>
          /\ pc[u] = "recycle_old" /\ call'[u].old = call[u].old
          /\ call[u].old.fence # f /\ call[u].old.fence \in Fences
    <3>1. TAKE u \in Threads
    <3>2. HAVE pc'[u] = "recycle_old"
    <3>3. pc[u] = "recycle_old" /\ call'[u].old = call[u].old
      BY <1>12, <3>2
    <3>4. \A e \in fences : e[2] # call[u].old.fence
      BY <3>3 DEF PinInv
    <3>5. <<i, f>>[2] = f
      OBVIOUS
    <3>. QED BY <1>3, <3>3, <3>4, <3>5, HeldTyped
  <2>5. \A u \in Threads : pc'[u] = "recycle_old" =>
          pinned'[call'[u].old.fence] = 0 /\ \A v \in fences' : v[2] # call'[u].old.fence
    BY <1>6, <1>7, <2>4 DEF PinInv
  <2>6. ASSUME NEW u \in Threads, pc'[u] = "track" PROVE Key(call[u].old)' \in fences'
    <3>0. pc[u] = "track" /\ call'[u].old = call[u].old
      BY <1>12, <2>6
    <3>1. Key(call[u].old) \in fences
      BY <3>0 DEF PinInv
    <3>2. Key(call[u].old)' = Key(call[u].old)
      BY <3>0 DEF Key
    <3>. QED BY <1>6, <3>1, <3>2
  <2>7. \A u \in Threads : Late(u)' =>
          /\ pinned'[call'[u].fence] = 0
          /\ ~Held(call[u].fence)
          /\ \A v \in Threads : Late(v)' /\ call'[v].fence = call'[u].fence => v = u
    BY <1>7, <2>3 DEF PinInv
  <2>8. ASSUME NEW u \in Threads, Late(u)' PROVE ~Held(call[u].fence)'
    <3>1. PICK g : g = call[u].fence
      OBVIOUS
    <3>2. g = call'[u].fence /\ ~Held(g)
      BY <2>3, <2>7, <2>8, <3>1
    <3>3. ~Held(g)'
      BY <1>10, <3>2
    <3>. QED BY <3>2, <3>3 DEF Held
  <2>. QED BY <2>1, <2>2, <2>5, <2>6, <2>7, <2>8 DEF PinInv
<1>18. TrackInv'
  BY <1>6, <1>9 DEF TrackInv
<1>. QED BY <1>13, <1>14, <1>15, <1>17, <1>18

LEMMA UnpinKeeps ==
  ASSUME Base, NEW t \in Threads, Unpin(t)
  PROVE  LifeInv'
<1>. USE DEF Base
<1>. TypeOK /\ CallsType /\ TrackerType /\ LifeInv
  BY DEF TypeOK
<1>. USE DEF LifeInv
<1>1. PICK f \in Fences : f = call[t].fence
  BY HeldTyped DEF Unpin
<1>2. /\ pc[t] = "unpin" /\ pinned' = [pinned EXCEPT ![f] = @ - 1]
      /\ UNCHANGED <<gpu, done, frames, fence_state, free_fences, fences, dropped>>
      /\ completed <= completed' /\ completed \in Nat
  <2>1. call[t].index \in Nat /\ completed \in Nat
    BY DEF CallsType, CallType, TrackerType
  <2>2. completed' = completed \/ completed' = MaxOf(completed, call[t].index)
    BY DEF Unpin, MarkCompleted
  <2>. QED BY <1>1, <2>1, <2>2 DEF Unpin, MaxOf
<1>3. PICK l, c :
        /\ l \in Labels
        /\ pc' = [pc EXCEPT ![t] = l] /\ call' = [call EXCEPT ![t] = c]
        /\ c.frame = call[t].frame
        /\ \/ /\ l = "recycle_waited" /\ c = call[t]
              /\ pinned[f] = 1 /\ f \in pending_destroy
              /\ pending_destroy' = pending_destroy \ {f}
           \/ /\ l \in {"idle", "try_harvest"}
              /\ ~(pinned[f] = 1 /\ f \in pending_destroy)
              /\ UNCHANGED pending_destroy
  <2>0. call = [call EXCEPT ![t] = call[t]] /\ {"idle", "recycle_waited", "try_harvest"} \subseteq Labels
    BY DEF CallsType, Labels
  <2>1. CASE /\ pinned[f] = 1 /\ f \in pending_destroy
             /\ pending_destroy' = pending_destroy \ {f}
             /\ Goto(t, "recycle_waited") /\ UNCHANGED call
    BY <2>0, <2>1 DEF Goto
  <2>2. CASE /\ Goto(t, "try_harvest") /\ UNCHANGED call /\ UNCHANGED pending_destroy
             /\ ~(pinned[f] = 1 /\ f \in pending_destroy)
    BY <2>0, <2>2 DEF Goto
  <2>3. CASE /\ Return(t) /\ UNCHANGED pending_destroy
             /\ ~(pinned[f] = 1 /\ f \in pending_destroy)
    <3>1. NoCall.frame = None /\ call[t].frame = None
      BY <1>2 DEF NoCall, PcInv, PcOK
    <3>. QED BY <2>0, <2>3, <3>1 DEF Return
  <2>. QED BY <1>1, <2>1, <2>2, <2>3 DEF Unpin, Waited
<1>4. /\ pinned'[f] = pinned[f] - 1 /\ pinned[f] \in Nat
      /\ \A g \in Fences : g # f => pinned'[g] = pinned[g]
  BY <1>2 DEF TrackerType
<1>5. /\ ~InPop(l) /\ ~InLook(l) /\ l # "track" /\ l # "cleanup" /\ l # "recycle_old"
      /\ ~InPop(pc[t]) /\ InWait(pc[t]) /\ InLook(pc[t]) /\ pc[t] # "track"
  BY <1>2, <1>3 DEF InPop, InWait, InLook
<1>6. /\ Framed' = Framed /\ Handed' = Handed /\ Popped' = Popped
      /\ Tracked' = Tracked /\ Watched' \subseteq Watched
  <2>1. Framed' = Framed
    BY <1>2 DEF Framed, Key
  <2>2. Handed' = Handed
    BY <1>3, MoveSets
  <2>3. Popped' = Popped /\ Tracked' = Tracked
    BY <1>3, <1>5, MoveSets
  <2>4. Watched' \subseteq Watched
    <3>1. CASE l = "recycle_waited" /\ c = call[t]
      BY <1>3, <1>5, <3>1, MoveSets DEF InWait
    <3>2. CASE l \in {"idle", "try_harvest"}
      BY <1>3, <3>2, MoveSets DEF InWait
    <3>. QED BY <1>3, <3>1, <3>2
  <2>. QED BY <2>1, <2>2, <2>3, <2>4
<1>7. Uses' \subseteq Uses /\ \A g : Held(g)' <=> Held(g)
  BY <1>2, <1>6 DEF Uses, Held
<1>8. /\ \A g : g # f => Pins(g)' = Pins(g)
      /\ \A g : g = f => Pins(g)' = Pins(g) \ {t} /\ t \in Pins(g)
  <2>1. /\ \A g : g # call[t].fence => Pins(g)' = Pins(g)
        /\ \A g : g = call[t].fence => Pins(g)' = Pins(g) \ {t} /\ t \in Pins(g)
    BY <1>3, <1>5, MovePins
  <2>. QED BY <1>1, <2>1
<1>9. pinned[f] = Cardinality(Pins(f)) /\ pinned[f] > 0
      /\ Cardinality(Pins(f) \ {t}) = Cardinality(Pins(f)) - 1
  <2>1. pinned[f] = Cardinality(Pins(f)) /\ t \in Pins(f) /\ IsFiniteSet(Pins(f))
    BY <1>8, PinsFinite DEF PinInv
  <2>2. Cardinality(Pins(f) \ {t}) = Cardinality(Pins(f)) - 1
    BY <2>1, FS_RemoveElement
  <2>3. pinned[f] # 0
    BY <2>1, FS_EmptySet
  <2>. QED BY <1>4, <2>1, <2>2, <2>3
<1>10. /\ pc'[t] = l /\ call'[t] = c /\ ~Popping(t)' /\ ~Failed(t)'
       /\ (Late(t)' <=> l = "recycle_waited")
       /\ \A u \in Threads : u # t =>
            /\ pc'[u] = pc[u] /\ call'[u] = call[u]
            /\ Popping(u)' <=> Popping(u)
            /\ Failed(u)' <=> Failed(u)
            /\ Late(u)' <=> Late(u)
  <2>1. /\ pc'[t] = l /\ call'[t] = c
        /\ Popping(t)' <=> InPop(l)
        /\ Failed(t)' <=> l = "cleanup" /\ c.fence # None
        /\ Late(t)' <=> l = "recycle_waited"
    BY <1>3, MoveOthers
  <2>2. \A u \in Threads : u # t =>
          /\ pc'[u] = pc[u] /\ call'[u] = call[u]
          /\ Popping(u)' <=> Popping(u)
          /\ Failed(u)' <=> Failed(u)
          /\ Late(u)' <=> Late(u)
    BY <1>3, MoveOthers
  <2>. QED BY <1>5, <2>1, <2>2
<1>11. UsesInv'
  BY <1>2, <1>7 DEF UsesInv, Current, At
<1>12. FrameInv'
  <2>1. \A u \in Threads : call'[u].frame = call[u].frame
    BY <1>3, <1>10
  <2>2. \A u \in Threads : Popping(u)' => Popping(u) /\ call'[u].old = call[u].old
    BY <1>10
  <2>3. \A k \in done' + 1 .. Len(gpu') : gpu'[k].index # 0 =>
          <<gpu'[k].index, gpu'[k].fence>> \in Framed' \cup Handed'
    BY <1>2, <1>6 DEF FrameInv
  <2>4. \A u \in Threads : Popping(u)' =>
          /\ \A k \in DOMAIN frames' : frames'[k].index # call'[u].old.index
          /\ \A v \in Threads : call'[v].frame # None =>
                                  call'[v].frame.index # call'[u].old.index
          /\ \A v \in Threads : Popping(v)' /\ call'[v].old.index = call'[u].old.index
                                  => v = u
    BY <1>2, <2>1, <2>2 DEF FrameInv
  <2>. QED BY <1>2, <2>1, <2>3, <2>4 DEF FrameInv
<1>13. FreeInv'
  <2>1. Free' = Free
    BY <1>2 DEF Free
  <2>2. \A u \in Threads : Failed(u)' => Failed(u) /\ call'[u].fence = call[u].fence
    BY <1>10
  <2>. QED BY <1>2, <1>7, <2>1, <2>2 DEF FreeInv
<1>14. PinInv'
  <2>1. ASSUME NEW g \in Fences PROVE pinned'[g] = Cardinality(Pins(g))'
    <3>1. CASE g = f
      BY <1>4, <1>8, <1>9, <3>1
    <3>2. CASE g # f
      BY <1>4, <1>8, <3>2 DEF PinInv
    <3>. QED BY <3>1, <3>2
  <2>2. \A g \in pending_destroy' :
          pinned'[g] > 0 /\ fence_state'[g] = "signaled" /\ ~Held(g)'
    <3>1. TAKE g \in pending_destroy'
    <3>2. g \in pending_destroy /\ g \in Fences
      BY <1>3 DEF TrackerType
    <3>3. g = f => pinned[f] # 1
      BY <1>3, <3>1, <3>2
    <3>4. pinned[g] > 0 /\ fence_state[g] = "signaled" /\ ~Held(g)
      BY <3>2 DEF PinInv
    <3>5. pinned'[g] > 0
      BY <1>4, <3>2, <3>3, <3>4
    <3>. QED BY <1>2, <1>7, <3>4, <3>5
  <2>3. \A u \in Threads : u # t /\ Late(u)' =>
          /\ Late(u) /\ call'[u].fence = call[u].fence
          /\ call[u].fence # f /\ call[u].fence \in Fences
    BY <1>9, <1>10, HeldTyped DEF PinInv, Late
  <2>4. \A u \in Threads : pc'[u] = "recycle_old" =>
          /\ pc[u] = "recycle_old" /\ call'[u].old = call[u].old
          /\ call[u].old.fence # f /\ call[u].old.fence \in Fences
    BY <1>5, <1>9, <1>10, HeldTyped DEF PinInv
  <2>5. \A u \in Threads : pc'[u] = "recycle_old" =>
          pinned'[call'[u].old.fence] = 0 /\ \A v \in fences' : v[2] # call'[u].old.fence
    BY <1>2, <1>4, <2>4 DEF PinInv
  <2>6. ASSUME NEW u \in Threads, pc'[u] = "track" PROVE Key(call[u].old)' \in fences'
    <3>0. pc[u] = "track" /\ call'[u].old = call[u].old
      BY <1>5, <1>10, <2>6
    <3>1. Key(call[u].old) \in fences
      BY <3>0 DEF PinInv
    <3>2. Key(call[u].old)' = Key(call[u].old)
      BY <3>0 DEF Key
    <3>. QED BY <1>2, <3>1, <3>2
  <2>7. Late(t)' => /\ call'[t].fence = f /\ pinned'[f] = 0 /\ ~Held(f)
    BY <1>1, <1>3, <1>4, <1>10 DEF PinInv
  <2>8. \A u \in Threads : Late(u)' =>
          /\ pinned'[call'[u].fence] = 0
          /\ \A v \in Threads : Late(v)' /\ call'[v].fence = call'[u].fence => v = u
    <3>1. ASSUME NEW u \in Threads, u # t, Late(u)'
          PROVE  /\ pinned'[call'[u].fence] = 0
                 /\ \A v \in Threads : Late(v)' /\ call'[v].fence = call'[u].fence => v = u
      BY <1>4, <2>3, <2>7, <3>1 DEF PinInv
    <3>2. ASSUME Late(t)'
          PROVE  /\ pinned'[call'[t].fence] = 0
                 /\ \A v \in Threads : Late(v)' /\ call'[v].fence = call'[t].fence => v = t
      BY <2>3, <2>7, <3>2
    <3>. QED BY <3>1, <3>2
  <2>9. ASSUME NEW u \in Threads, Late(u)' PROVE ~Held(call[u].fence)'
    <3>1. PICK g : g = call'[u].fence
      OBVIOUS
    <3>2. ~Held(g)
      <4>1. CASE u = t
        BY <2>7, <2>9, <3>1, <4>1
      <4>2. CASE u # t
        BY <2>3, <2>9, <3>1, <4>2 DEF PinInv
      <4>. QED BY <4>1, <4>2
    <3>3. ~Held(g)'
      BY <1>7, <3>2
    <3>. QED BY <3>1, <3>3 DEF Held
  <2>. QED BY <2>1, <2>2, <2>5, <2>6, <2>8, <2>9 DEF PinInv
<1>15. TrackInv'
  <2>1. ~dropped' => \A k \in DOMAIN gpu' : gpu'[k].index > completed' =>
          <<gpu'[k].index, gpu'[k].fence>> \in fences'
    <3>1. SUFFICES ASSUME ~dropped, NEW k \in DOMAIN gpu, gpu[k].index > completed'
                   PROVE  <<gpu[k].index, gpu[k].fence>> \in fences
      BY <1>2
    <3>2. gpu[k] \in WorkType /\ completed' \in Nat
      BY <1>2 DEF TypeOK, GpuType, Unpin, MarkCompleted, MaxOf, CallsType, CallType
    <3>3. gpu[k].index > completed
      BY <1>2, <3>1, <3>2 DEF WorkType
    <3>. QED BY <3>1, <3>3 DEF TrackInv
  <2>. QED BY <1>2, <1>6, <2>1 DEF TrackInv
<1>. QED BY <1>11, <1>12, <1>13, <1>14, <1>15

-----------------------------------------------------------------------------
(* The GPU, the end of the queue, and all steps together                   *)

LEMMA GpuFinishKeeps ==
  ASSUME Base, GpuFinish
  PROVE  LifeInv'
<1>. USE DEF Base
<1>. TypeOK /\ LifeInv /\ GpuType /\ RecycleType
  BY DEF TypeOK
<1>. USE DEF LifeInv
<1>1. PICK k0 : k0 = done + 1
  OBVIOUS
<1>2. /\ done \in Nat /\ Len(gpu) \in Nat /\ DOMAIN gpu = 1 .. Len(gpu)
      /\ k0 \in done + 1 .. Len(gpu) /\ k0 \in DOMAIN gpu /\ done' = k0
      /\ \A k \in DOMAIN gpu : k \in Nat
  <2>1. gpu \in Seq(WorkType) /\ done \in Nat /\ Len(gpu) \in Nat
    BY DEF GpuType
  <2>. QED BY <1>1, <2>1 DEF GpuFinish
<1>3. UNCHANGED <<gpu, pc, call, frames, fences, completed, pinned,
                  pending_destroy, free_fences, dropped>>
  BY DEF GpuFinish
<1>4. /\ Framed' = Framed /\ Handed' = Handed /\ Popped' = Popped
      /\ Watched' = Watched /\ Uses' = Uses /\ Free' = Free /\ Tracked' = Tracked
      /\ \A f : Pins(f)' = Pins(f) /\ (Held(f)' <=> Held(f))
  BY <1>3 DEF Framed, Handed, Popped, Popping, Watched, Waiter, Uses, Free,
              Tracked, Pins, Looking, Held, Key
<1>5. gpu[k0].index # 0 =>
        /\ At(gpu[k0].index, gpu[k0].fence, k0)
        /\ gpu[k0].fence \in Fences
        /\ <<gpu[k0].index, gpu[k0].fence>> \in Uses
        /\ fence_state' = [fence_state EXCEPT ![gpu[k0].fence] = "signaled"]
  BY <1>1, <1>2, RunningUse DEF GpuFinish, GpuType
<1>6. gpu[k0].index = 0 => fence_state' = fence_state
  BY <1>1 DEF GpuFinish
<1>7. \A f \in Fences : (\A u \in Uses : u[2] # f) => fence_state'[f] = fence_state[f]
  <2>1. fence_state \in [Fences -> States]
    BY DEF RecycleType
  <2>2. TAKE f \in Fences
  <2>3. HAVE \A u \in Uses : u[2] # f
  <2>4. gpu[k0].index # 0 => gpu[k0].fence # f
    BY <1>5, <2>3
  <2>. QED BY <1>5, <1>6, <2>1, <2>4
<1>8. \A f \in Fences : fence_state[f] = "signaled" => fence_state'[f] = "signaled"
  BY <1>5, <1>6 DEF RecycleType
<1>9. UsesInv'
  <2>1. SUFFICES ASSUME NEW u \in Uses PROVE Current(u[1], u[2])'
    BY <1>4 DEF UsesInv
  <2>2. PICK i, f : i = u[1] /\ f = u[2]
    OBVIOUS
  <2>3. Current(i, f) /\ f \in Fences /\ i # 0
    BY <2>2, UseFacts
  <2>4. PICK k \in DOMAIN gpu : At(i, f, k)
    BY <2>3 DEF Current
  <2>5. CASE gpu[k0].index # 0 /\ gpu[k0].fence = f
    <3>1. k = k0
      BY <1>2, <1>5, <2>4, <2>5 DEF At
    <3>2. fence_state'[f] = "signaled" /\ k <= done'
      BY <1>2, <1>5, <2>3, <2>5, <3>1 DEF RecycleType
    <3>3. At(i, f, k)'
      BY <1>3, <2>4, <3>2 DEF At
    <3>. QED BY <1>3, <2>2, <2>3, <3>3 DEF Current
  <2>6. CASE ~(gpu[k0].index # 0 /\ gpu[k0].fence = f)
    <3>1. k # k0 /\ (k <= done' <=> k <= done)
      BY <1>1, <1>2, <2>3, <2>4, <2>6 DEF At
    <3>2. fence_state'[f] = fence_state[f]
      BY <1>5, <1>6, <2>3, <2>6 DEF RecycleType
    <3>3. At(i, f, k)'
      BY <1>3, <2>4, <3>1, <3>2 DEF At
    <3>. QED BY <1>3, <2>2, <2>3, <3>3 DEF Current
  <2>. QED BY <2>5, <2>6
<1>10. FrameInv'
  <2>1. \A k \in done' + 1 .. Len(gpu) : k \in done + 1 .. Len(gpu)
    BY <1>1, <1>2
  <2>2. \A k \in done' + 1 .. Len(gpu') : gpu'[k].index # 0 =>
          <<gpu'[k].index, gpu'[k].fence>> \in Framed' \cup Handed'
    BY <1>3, <1>4, <2>1 DEF FrameInv
  <2>. QED BY <1>3, <2>2 DEF FrameInv, Popping
<1>11. FreeInv'
  <2>1. \A f \in Free : f \in Fences
    BY DEF Free, RecycleType
  <2>2. \A t \in Threads : Failed(t) => call[t].fence \in Fences
    BY HeldTyped DEF Failed
  <2>3. \A f \in Free : fence_state'[f] = "unsignaled"
    BY <1>7, <2>1 DEF FreeInv
  <2>4. \A t \in Threads : Failed(t) => fence_state'[call[t].fence] = "unsignaled"
    BY <1>7, <2>2 DEF FreeInv
  <2>. QED BY <1>3, <1>4, <2>3, <2>4 DEF FreeInv, Failed
<1>12. PinInv'
  <2>1. \A f \in pending_destroy : f \in Fences
    BY DEF TypeOK, TrackerType
  <2>2. \A f \in pending_destroy : fence_state'[f] = "signaled"
    BY <1>8, <2>1 DEF PinInv
  <2>. QED BY <1>3, <1>4, <2>2 DEF PinInv, Late, Key
<1>13. TrackInv'
  BY <1>3, <1>4 DEF TrackInv
<1>. QED BY <1>9, <1>10, <1>11, <1>12, <1>13

LEMMA DropKeeps ==
  ASSUME Base, Drop
  PROVE  LifeInv'
<1>. USE DEF Base
<1>. TypeOK /\ LifeInv /\ GpuType /\ RecycleType /\ CallsType
  BY DEF TypeOK
<1>. USE DEF LifeInv
<1>1. \A t \in Threads : pc[t] = "idle" /\ call[t].frame = None
  BY DEF Drop, PcInv, PcOK
<1>2. UNCHANGED <<gpu, done, pc, call, pinned, pending_destroy>>
      /\ frames' = <<>> /\ fences' = {} /\ free_fences' = <<>> /\ dropped'
  BY DEF Drop
<1>3. /\ Framed' = {} /\ Handed = {} /\ Handed' = {} /\ Popped' = {}
      /\ Watched' = {} /\ Uses' = {} /\ Free' = {} /\ Tracked' = {}
      /\ \A f : Pins(f)' = {} /\ Pins(f) = {} /\ ~Held(f)'
  <2>1. DOMAIN frames' = {} /\ DOMAIN free_fences' = {}
    BY <1>2
  <2>2. Framed' = {} /\ Free' = {}
    BY <2>1 DEF Framed, Free
  <2>3. Handed = {} /\ Handed' = {} /\ Popped' = {} /\ Watched' = {} /\ Tracked' = {}
    BY <1>1, <1>2 DEF Handed, Popped, Popping, Watched, Waiter, Tracked
  <2>4. \A f : Pins(f)' = {} /\ Pins(f) = {}
    BY <1>1, <1>2 DEF Pins, Looking
  <2>. QED BY <1>2, <2>2, <2>3, <2>4 DEF Uses, Held
<1>4. \A k \in done + 1 .. Len(gpu) : gpu[k].index = 0
  <2>1. SUFFICES ASSUME NEW k \in done + 1 .. Len(gpu), gpu[k].index # 0 PROVE FALSE
    OBVIOUS
  <2>2. /\ fence_state[gpu[k].fence] = "unsignaled"
        /\ <<gpu[k].index, gpu[k].fence>> \in Framed
    BY <1>3, <2>1, RunningUse
  <2>3. PICK j \in DOMAIN frames : Key(frames[j]) = <<gpu[k].index, gpu[k].fence>>
    BY <2>2 DEF Framed
  <2>4. fence_state[frames[j].fence] = "signaled" /\ frames[j].fence = gpu[k].fence
    BY <2>3 DEF Drop, Signaled, Key
  <2>. QED BY <2>2, <2>4
<1>5. UsesInv' /\ TrackInv'
  BY <1>2, <1>3 DEF UsesInv, TrackInv
<1>6. FrameInv'
  <2>1. \A k \in DOMAIN frames' : FALSE
    BY <1>2
  <2>. QED BY <1>1, <1>2, <1>4, <2>1 DEF FrameInv, Popping
<1>7. FreeInv'
  <2>1. \A k \in DOMAIN free_fences' : FALSE
    BY <1>2
  <2>. QED BY <1>1, <1>2, <1>3, <2>1 DEF FreeInv, Failed
<1>8. pending_destroy = {}
  <2>1. SUFFICES ASSUME NEW f \in pending_destroy PROVE FALSE
    OBVIOUS
  <2>2. f \in Fences /\ pinned[f] > 0 /\ pinned[f] = Cardinality(Pins(f))
    BY DEF PinInv, TypeOK, TrackerType
  <2>. QED BY <1>3, <2>2, FS_EmptySet
<1>9. PinInv'
  BY <1>1, <1>2, <1>3, <1>8 DEF PinInv, Late
<1>. QED BY <1>5, <1>6, <1>7, <1>9

LEMMA PinsCount ==
  ASSUME TypeOK, PcInv, PinInv
  PROVE  PinsCounted
<1>1. SUFFICES ASSUME NEW t \in Threads, Looking(t) PROVE pinned[call[t].fence] > 0
  BY DEF PinsCounted
<1>2. PICK f : f = call[t].fence
  OBVIOUS
<1>3. f \in Fences /\ t \in Pins(f)
  BY <1>1, <1>2, HeldTyped DEF Pins, Looking
<1>4. pinned[f] = Cardinality(Pins(f)) /\ pinned[f] \in Nat
  BY <1>3 DEF PinInv, TypeOK, TrackerType
<1>5. pinned[f] # 0
  BY <1>3, PinsNone
<1>. QED BY <1>2, <1>4, <1>5

\* Every step keeps each fence in its place.
LEMMA LifeStep ==
  ASSUME Base, TypeOK', [Next]_vars
  PROVE  LifeInv'
<1>. TypeOK /\ PcInv /\ IndexInv /\ LifeInv
  BY DEF Base
<1>1. CASE Quiet
  BY <1>1, QuietKeeps DEF LifeInv
<1>2. ASSUME NEW t \in Threads, Busy(t) PROVE LifeInv'
  <2>1. CASE Submit(t)
    BY <2>1, SubmitKeeps
  <2>2. CASE SubmitFails(t) /\ call' # call
    BY <2>2, SubmitFailsKeeps
  <2>3. CASE Cleanup(t) /\ call[t].fence # None
    BY <2>3, CleanupKeeps
  <2>4. CASE HarvestFrame(t) \/ EvictFrame(t)
    BY <2>4, PopKeeps
  <2>5. CASE Track(t)
    BY <2>5, TrackKeeps
  <2>6. CASE RecycleOld(t)
    BY <2>6, RecycleOldKeeps
  <2>7. CASE (HarvestEnds(t) \/ HarvestFails(t)) /\ call[t].frame # None
    BY <2>7, RequeueKeeps
  <2>8. CASE WaitTest(t) /\ Goto(t, "wait")
    BY <2>8, PinKeeps
  <2>9. CASE Unpin(t)
    BY <2>9, UnpinKeeps
  <2>10. CASE RecycleWaited(t)
    BY <2>10, RecycleWaitedKeeps
  <2>. QED BY <1>2, <2>1, <2>2, <2>3, <2>4, <2>5, <2>6, <2>7, <2>8, <2>9, <2>10 DEF Busy
<1>3. CASE GpuFinish
  BY <1>3, GpuFinishKeeps
<1>4. CASE Drop
  BY <1>4, DropKeeps
<1>. QED BY <1>1, <1>2, <1>3, <1>4, QuietStep

-----------------------------------------------------------------------------
(* Indices and what is reported                                            *)

\* A submission that has finished has all earlier ones before it.
LEMMA PastOf ==
  ASSUME TypeOK, IndexInv, NEW k \in DOMAIN gpu, k <= done, gpu[k].index # 0
  PROVE  /\ Past(gpu[k].index) /\ Past(MaxOf(completed, gpu[k].index))
         /\ completed <= MaxOf(completed, gpu[k].index)
<1>1. /\ done \in Nat /\ completed \in Nat /\ last_issued \in Nat
      /\ \A m \in DOMAIN gpu : m \in Nat /\ gpu[m].index \in Nat
  <2>1. gpu \in Seq(WorkType) /\ done \in Nat
    BY DEF TypeOK, GpuType
  <2>2. \A m \in DOMAIN gpu : m \in Nat /\ gpu[m] \in WorkType
    BY <2>1
  <2>. QED BY <2>1, <2>2 DEF WorkType, TypeOK, TrackerType
<1>2. ASSUME NEW m \in DOMAIN gpu, gpu[m].index # 0, gpu[m].index <= gpu[k].index
      PROVE  m <= done
  BY <1>1, <1>2 DEF IndexInv
<1>3. Past(gpu[k].index)
  BY <1>1, <1>2 DEF Past, IndexInv
<1>4. Past(completed)
  BY <1>1 DEF Past, IndexInv
<1>. QED BY <1>1, <1>3, <1>4 DEF MaxOf

\* A use whose fence is signaled belongs to a submission that has finished.
LEMMA PastUse ==
  ASSUME Base, NEW u \in Uses, fence_state[u[2]] # "unsignaled"
  PROVE  /\ Past(u[1]) /\ Past(MaxOf(completed, u[1]))
         /\ completed <= MaxOf(completed, u[1])
<1>1. TypeOK /\ IndexInv /\ UsesInv
  BY DEF Base, LifeInv
<1>2. Current(u[1], u[2])
  BY <1>1 DEF UsesInv
<1>3. PICK k \in DOMAIN gpu : At(u[1], u[2], k)
  BY <1>2 DEF Current
<1>4. k <= done /\ gpu[k].index = u[1] /\ u[1] # 0
  BY <1>2, <1>3 DEF At, Current
<1>. QED BY <1>1, <1>4, PastOf

\* A popped frame was signaled: it is in no other place.
LEMMA PoppedPast ==
  ASSUME Base, NEW t \in Threads, Popping(t)
  PROVE  LET i == call[t].old.index
         IN  Past(i) /\ Past(MaxOf(completed, i)) /\ completed <= MaxOf(completed, i)
<1>. TypeOK /\ PcInv /\ IndexInv /\ UsesInv /\ FrameInv /\ GpuType
  BY DEF Base, LifeInv, TypeOK
<1>1. PICK o : o = call[t].old
  OBVIOUS
<1>2. o \in Frame /\ Key(o) = <<o.index, o.fence>> /\ Key(o) \in Uses
  BY <1>1, HeldTyped, UseKinds DEF Popping, Key
<1>3. Current(o.index, o.fence)
  BY <1>2 DEF UsesInv
<1>4. PICK k \in DOMAIN gpu : At(o.index, o.fence, k)
  BY <1>3 DEF Current
<1>5. gpu[k].index = o.index /\ o.index # 0
  BY <1>3, <1>4 DEF Current, At
<1>6. k <= done
  <2>1. SUFFICES ASSUME ~(k <= done) PROVE FALSE
    OBVIOUS
  <2>2. k \in done + 1 .. Len(gpu)
    BY <2>1, <1>4 DEF GpuType
  <2>3. <<gpu[k].index, gpu[k].fence>> \in Framed \cup Handed
    BY <1>5, <2>2 DEF FrameInv
  <2>4. CASE <<gpu[k].index, gpu[k].fence>> \in Framed
    <3>1. PICK j \in DOMAIN frames : Key(frames[j]) = <<gpu[k].index, gpu[k].fence>>
      BY <2>4 DEF Framed
    <3>2. frames[j].index = o.index
      BY <3>1, <1>5 DEF Key
    <3>. QED BY <1>1, <3>2 DEF FrameInv
  <2>5. CASE <<gpu[k].index, gpu[k].fence>> \in Handed
    <3>1. PICK v \in Threads : /\ call[v].frame # None
                               /\ Key(call[v].frame) = <<gpu[k].index, gpu[k].fence>>
      BY <2>5 DEF Handed
    <3>2. call[v].frame.index = o.index
      BY <3>1, <1>5 DEF Key
    <3>. QED BY <1>1, <3>1, <3>2 DEF FrameInv
  <2>. QED BY <2>3, <2>4, <2>5
<1>. QED BY <1>1, <1>5, <1>6, PastOf

LEMMA ProvenPast ==
  ASSUME Base, NEW i \in Proven
  PROVE  Past(i) /\ completed <= i
<1>. TypeOK /\ IndexInv /\ completed \in Nat
  BY DEF Base, TypeOK, TrackerType
<1>1. CASE i = completed
  BY <1>1 DEF Past, IndexInv
<1>2. CASE i # completed
  <2>1. PICK e \in fences : /\ i = e[1] /\ i > completed
                            /\ \A o \in {e2 \in fences : fence_state[e2[2]] = "unsignaled"
                                                        /\ e2[1] > completed} : e[1] < o[1]
    BY <1>2 DEF Proven
  <2>2. e \in Uses /\ e[1] \in Nat
    BY <2>1, UseKinds DEF TypeOK, TrackerType
  <2>3. fence_state[e[2]] # "unsignaled"
    BY <2>1, <2>2
  <2>. QED BY <2>1, <2>2, <2>3, PastUse
<1>. QED BY <1>1, <1>2

\* What a step does to the GPU's submissions and to the report.
LEMMA CountStep ==
  ASSUME Base, CallInv, [Next]_vars
  PROVE  Kept \/ Presented \/ Reported \/ (\E t \in Threads : Submit(t)) \/ GpuFinish
<1> DEFINE Goal == Kept \/ Presented \/ Reported \/ (\E t \in Threads : Submit(t)) \/ GpuFinish
<1>. TypeOK /\ completed \in Nat
  BY DEF Base, TypeOK, TrackerType
<1>1. ASSUME NEW t \in Threads, SubmitStep(t) PROVE Goal
  <2>1. ASSUME NEW op \in Ops, BeginSubmit(t, op) PROVE Goal
    BY <2>1 DEF BeginSubmit, Begin, Goto, TakePool, Kept
  <2>2. CASE Record(t) \/ RecordFails(t) \/ SubmitFails(t) \/ Cleanup(t)
    BY <2>2 DEF Record, Goto, Kept, RecordFails, SubmitFails, TakeFence, Fails, Cleanup, Return
  <2>3. CASE Submit(t)
    BY <2>3
  <2>. QED BY <1>1, <2>1, <2>2, <2>3 DEF SubmitStep
<1>2. ASSUME NEW t \in Threads, RetireStep(t) PROVE Goal
  <2>1. CASE LockRetire(t) \/ TryHarvest(t) \/ HarvestFrame(t) \/ RecycleOld(t) \/ HarvestEnds(t) \/ HarvestFails(t) \/ EvictFrame(t) \/ EvictFails(t) \/ SubmitReturns(t)
    BY <2>1 DEF LockRetire, Goto, Kept, TryHarvest, Return, HarvestFrame, PopFrame, FrontFrame, RecycleOld, Resume, HarvestEnds, HarvestFails, EvictFrame, EvictFails, SubmitReturns
  <2>2. CASE Track(t)
    <3>1. Past(completed') /\ completed <= completed'
      BY <2>2, PoppedPast DEF Track, MarkCompleted, Popping
    <3>. QED BY <2>2, <3>1 DEF Track, Reported
  <2>. QED BY <1>2, <2>1, <2>2 DEF RetireStep
<1>3. ASSUME NEW t \in Threads, WaitStep(t) PROVE Goal
  <2>1. CASE BeginWait(t) \/ WaitTest(t) \/ Wait(t) \/ WaitFails(t) \/ RecycleWaited(t) \/ BeginWaitIdle(t) \/ WaitIdleFails(t)
    BY Zenon, <2>1 DEF BeginWait, Begin, Goto, Kept, WaitTest, Return, Wait, WaitFails, RecycleWaited, Waited, BeginWaitIdle, WaitIdleFails
  <2>2. CASE Unpin(t)
    <3>1. CASE call[t].failed
      BY <2>2, <3>1 DEF Unpin, Kept
    <3>2. CASE ~call[t].failed
      <4>1. PICK k \in 1 .. done : gpu[k].index = call[t].index
        BY <2>2, <3>2 DEF Unpin, CallInv, CallOK
      <4>2. k \in DOMAIN gpu /\ k <= done /\ call[t].index # 0
        BY <2>2, <4>1 DEF Unpin, Base, TypeOK, GpuType, PcInv, PcOK
      <4>3. Past(completed') /\ completed <= completed'
        BY <2>2, <3>2, <4>1, <4>2, PastOf DEF Unpin, MarkCompleted, Base
      <4>. QED BY <2>2, <4>3 DEF Unpin, Reported
    <3>. QED BY <3>1, <3>2
  <2>3. CASE Poll(t)
    <3>1. Past(completed') /\ completed <= completed'
      BY <2>3, ProvenPast DEF Poll
    <3>. QED BY <2>3, <3>1 DEF Poll, Reported
  <2>4. CASE PollFails(t)
    <3>1. Past(completed') /\ completed <= completed'
      BY <2>4, ProvenPast DEF PollFails
    <3>. QED BY <2>4, <3>1 DEF PollFails, Reported
  <2>5. CASE WaitIdle(t)
    <3>1. call[t].index \in Nat /\ call[t].index <= last_issued
      BY <2>5, HeldTyped DEF WaitIdle, CallInv, CallOK, Base
    <3>2. completed <= last_issued
      BY DEF Base, IndexInv
    <3>3. Past(completed') /\ completed <= completed'
      BY <2>5, <3>1, <3>2 DEF WaitIdle, MarkCompleted, MaxOf, Past, TypeOK, GpuType
    <3>. QED BY <2>5, <3>3 DEF WaitIdle, Reported
  <2>. QED BY <1>3, <2>1, <2>2, <2>3, <2>4, <2>5 DEF WaitStep
<1>4. ASSUME NEW t \in Threads, SurfaceStep(t) PROVE Goal
  BY <1>4, SurfaceMove DEF Kept, Presented
<1>5. CASE GpuFinish
  BY <1>5
<1>6. ASSUME NEW i \in Images, ImageFree(i) PROVE Goal
  BY <1>6 DEF ImageFree, Kept
<1>7. CASE Drop
  <2>1. CASE frames = <<>>
    BY <1>7, <2>1 DEF Drop, Kept
  <2>2. CASE frames # <<>>
    <3>1. Len(frames) \in DOMAIN frames /\ Last(frames) = frames[Len(frames)]
      BY <2>2 DEF Last, TypeOK, TrackerType
    <3>2. PICK o : o = Last(frames)
      OBVIOUS
    <3>3. <<o.index, o.fence>> \in Uses /\ fence_state[o.fence] = "signaled"
      BY <1>7, <3>1, <3>2, UseKinds DEF Drop, Signaled, Key
    <3>4. Past(MaxOf(completed, o.index)) /\ completed <= MaxOf(completed, o.index)
      BY <3>3, PastUse
    <3>. QED BY <1>7, <2>2, <3>2, <3>4 DEF Drop, Reported
  <2>. QED BY <2>1, <2>2
<1>8. CASE UNCHANGED vars
  BY <1>8 DEF vars, Kept
<1>. QED BY <1>1, <1>2, <1>3, <1>4, <1>5, <1>6, <1>7, <1>8 DEF Next, Ended, SurfaceStep

\* What the theorems below need of a step: submissions stay where they are.
LEMMA Grows ==
  ASSUME Base, CallInv, [Next]_vars
  PROVE  /\ \A k \in DOMAIN gpu : k \in DOMAIN gpu' /\ gpu'[k] = gpu[k]
         /\ done <= done' /\ last_issued <= last_issued' /\ done' \in Nat
         /\ done \in Nat /\ last_issued \in Nat /\ last_issued' \in Nat
<1>. TypeOK /\ PcInv /\ GpuType /\ done \in Nat /\ last_issued \in Nat
  BY DEF Base, TypeOK, GpuType, TrackerType
<1>1. CASE Kept \/ Reported
  BY <1>1 DEF Kept, Reported
<1>2. CASE Presented
  BY <1>2, GpuAppend DEF Presented
<1>3. ASSUME NEW t \in Threads, Submit(t)
      PROVE  /\ \A k \in DOMAIN gpu : k \in DOMAIN gpu' /\ gpu'[k] = gpu[k]
             /\ done' = done /\ last_issued' = last_issued + 1
  <2>1. PICK w \in WorkType : gpu' = Append(gpu, w)
    BY <1>3, SubmitShape
  <2>. QED BY <1>3, <2>1, GpuAppend DEF Submit, Accept
<1>4. CASE GpuFinish
  BY <1>4 DEF GpuFinish
<1>. QED BY <1>1, <1>2, <1>3, <1>4, CountStep

\* Indices follow the order in which the GPU accepted the submissions, and what
\* is reported complete has finished.
LEMMA IndexStep ==
  ASSUME Base, CallInv, [Next]_vars
  PROVE  IndexInv'
<1>. TypeOK /\ PcInv /\ IndexInv /\ GpuType
  BY DEF Base, TypeOK
<1>0. /\ done \in Nat /\ Len(gpu) \in Nat /\ DOMAIN gpu = 1 .. Len(gpu)
      /\ completed \in Nat /\ last_issued \in Nat /\ done <= Len(gpu)
      /\ \A k \in DOMAIN gpu : k \in Nat /\ gpu[k].index \in Nat
  <2>1. gpu \in Seq(WorkType) /\ done \in Nat /\ completed \in Nat /\ last_issued \in Nat
    BY DEF TypeOK, GpuType, TrackerType
  <2>2. \A k \in DOMAIN gpu : gpu[k] \in WorkType
    BY <2>1
  <2>. QED BY <2>1, <2>2 DEF WorkType, GpuType
<1>1. CASE Kept
  <2>1. Over' = Over
    BY <1>1 DEF Kept, Over
  <2>. QED BY <1>0, <1>1, <2>1 DEF Kept, IndexInv
<1>2. CASE Reported
  <2>1. Over' = Over
    BY <1>2 DEF Reported, Over
  <2>. QED BY <1>0, <1>2, <2>1 DEF Reported, IndexInv, Past
<1>3. ASSUME NEW w \in WorkType, gpu' = Append(gpu, w), done' = done,
             completed' = completed, last_issued' \in Nat,
             last_issued <= last_issued', w.index <= last_issued',
             w.index = 0 \/ w.index > last_issued
      PROVE  IndexInv'
  <2>1. /\ DOMAIN gpu' = 1 .. Len(gpu) + 1 /\ gpu'[Len(gpu) + 1] = w
        /\ \A k \in DOMAIN gpu : gpu'[k] = gpu[k]
    BY <1>3, GpuAppend
  <2>2. \A k \in DOMAIN gpu' : k \in DOMAIN gpu \/ (k = Len(gpu) + 1 /\ gpu'[k] = w)
    BY <1>0, <2>1
  <2>3. Over' = Over
    BY <1>0, <1>3, <2>1 DEF Over
  <2>4. w.index \in Nat
    BY <1>3 DEF WorkType
  <2>5. ASSUME NEW k \in DOMAIN gpu', NEW l \in DOMAIN gpu', k < l,
               gpu'[k].index # 0, gpu'[l].index # 0
        PROVE  gpu'[k].index < gpu'[l].index
    <3>1. CASE l \in DOMAIN gpu
      <4>1. k \in DOMAIN gpu
        BY <1>0, <2>1, <2>5, <3>1
      <4>. QED BY <2>1, <2>5, <3>1, <4>1 DEF IndexInv
    <3>2. CASE l = Len(gpu) + 1 /\ gpu'[l] = w
      <4>1. k \in DOMAIN gpu
        BY <1>0, <2>1, <2>5, <3>2
      <4>. QED BY <1>0, <1>3, <2>1, <2>4, <2>5, <3>2, <4>1 DEF IndexInv
    <3>. QED BY <2>2, <3>1, <3>2
  <2>6. \A k \in DOMAIN gpu' : gpu'[k].index <= last_issued'
    BY <1>0, <1>3, <2>1, <2>2, <2>4 DEF IndexInv
  <2>7. completed' <= last_issued'
    BY <1>0, <1>3 DEF IndexInv
  <2>8. \A k \in DOMAIN gpu' :
          gpu'[k].index # 0 /\ gpu'[k].index <= completed' => k <= done'
    BY <1>0, <1>3, <2>1, <2>2, <2>4 DEF IndexInv
  <2>. QED BY <2>3, <2>5, <2>6, <2>7, <2>8 DEF IndexInv
<1>4. CASE Presented
  <2>1. PICK w \in WorkType : w.index = 0 /\ gpu' = Append(gpu, w)
    BY <1>4 DEF Presented
  <2>. QED BY <1>0, <1>3, <1>4, <2>1 DEF Presented
<1>5. ASSUME NEW t \in Threads, Submit(t) PROVE IndexInv'
  <2>1. PICK w \in WorkType : w.index = last_issued + 1 /\ gpu' = Append(gpu, w)
    BY <1>5, SubmitShape
  <2>2. done' = done /\ completed' = completed /\ last_issued' = last_issued + 1
    BY <1>5 DEF Submit, Accept
  <2>. QED BY <1>0, <1>3, <2>1, <2>2
<1>6. CASE GpuFinish
  <2>1. /\ done' = done + 1 /\ UNCHANGED <<gpu, completed, last_issued>>
        /\ done + 1 \in DOMAIN gpu
    BY <1>0, <1>6 DEF GpuFinish
  <2>2. PICK k0 : k0 = done + 1
    OBVIOUS
  <2>3. k0 \in DOMAIN gpu /\ Over' = Over \cup {gpu[k0].index}
    BY <1>0, <2>1, <2>2 DEF Over
  <2>4. PICK i \in Over : \A j \in Over : j <= i
    BY DEF IndexInv
  <2>5. \A j \in Over : j \in Nat
    BY <1>0 DEF Over
  <2>6. \E m \in Over' : \A j \in Over' : j <= m
    <3>1. CASE gpu[k0].index <= i
      BY <2>3, <2>4, <3>1
    <3>2. CASE ~(gpu[k0].index <= i)
      BY <1>0, <2>3, <2>4, <2>5, <3>2
    <3>. QED BY <3>1, <3>2
  <2>. QED BY <1>0, <2>1, <2>6 DEF IndexInv
<1>. QED BY <1>1, <1>2, <1>4, <1>5, <1>6, CountStep

-----------------------------------------------------------------------------
(* What calls and results say about submissions                            *)

LEMMA CallLift ==
  ASSUME Base, CallInv, [Next]_vars, NEW t \in Threads, NEW l \in Labels, NEW c,
         pc' = [pc EXCEPT ![t] = l], call' = [call EXCEPT ![t] = c],
         c.index \in Nat,
         CallOK(l, c) \/ CallOK(l, c)', \A i \in returned' : i \in returned \/ Accepted(i)
  PROVE  CallInv'
<1>. CallsType
  BY DEF Base, TypeOK
<1>1. \A i : Accepted(i) => Accepted(i)'
  BY Grows DEF Accepted
<1>2. \A m, d : d.index \in Nat /\ CallOK(m, d) => CallOK(m, d)'
  <2>1. SUFFICES ASSUME NEW m, NEW d, d.index \in Nat, CallOK(m, d) PROVE CallOK(m, d)'
    OBVIOUS
  <2>2. m = "unpin" /\ ~d.failed => \E k \in 1 .. done' : gpu'[k].index = d.index
    <3>1. SUFFICES ASSUME m = "unpin", ~d.failed
                   PROVE  \E k \in 1 .. done' : gpu'[k].index = d.index
      OBVIOUS
    <3>2. PICK k \in 1 .. done : gpu[k].index = d.index
      BY <2>1, <3>1 DEF CallOK
    <3>3. k \in DOMAIN gpu /\ k \in 1 .. done'
      BY <3>2, Grows DEF Base, TypeOK, GpuType
    <3>. QED BY <3>2, <3>3, Grows
  <2>3. m = "wait_idle" => d.index <= last_issued'
    BY <2>1, Grows DEF CallOK, Base, TypeOK, TrackerType
  <2>. QED BY <1>1, <2>1, <2>2, <2>3 DEF CallOK
<1>3. \A u \in Threads : call[u].index \in Nat /\ CallOK(pc[u], call[u])
  BY HeldTyped DEF CallInv, Base
<1>4. \A u \in Threads : CallOK(pc[u], call[u])'
  <2>1. TAKE u \in Threads
  <2>2. CASE u = t
    BY <1>2, <2>2 DEF CallsType
  <2>3. CASE u # t
    BY <1>2, <1>3, <2>3 DEF CallsType
  <2>. QED BY <2>2, <2>3
<1>5. \A i \in returned' : Accepted(i)'
  BY <1>1 DEF CallInv
<1>. QED BY <1>4, <1>5 DEF CallInv

LEMMA CallSame ==
  ASSUME Base, CallInv, [Next]_vars, UNCHANGED <<pc, call, returned>>
  PROVE  CallInv'
<1>1. CASE Threads = {}
  BY <1>1, Grows DEF CallInv, Accepted
<1>2. ASSUME NEW t \in Threads PROVE CallInv'
  <2>1. /\ pc' = [pc EXCEPT ![t] = pc[t]] /\ call' = [call EXCEPT ![t] = call[t]]
        /\ pc[t] \in Labels /\ call[t].index \in Nat
    BY HeldTyped DEF Base, TypeOK, CallsType
  <2>2. CallOK(pc[t], call[t])
    BY DEF CallInv
  <2>. QED BY <2>1, <2>2, CallLift
<1>. QED BY <1>1, <1>2

LEMMA CallBlank ==
  NoCall.index \in Nat /\ CallOK("idle", NoCall)
  BY DEF NoCall, CallOK

LEMMA CallReturns ==
  ASSUME Base, CallInv, [Next]_vars, NEW t \in Threads, Return(t), UNCHANGED returned
  PROVE  CallInv'
  BY CallBlank, CallLift DEF Return, Labels

LEMMA CallGoes ==
  ASSUME Base, CallInv, [Next]_vars, NEW t \in Threads, NEW l \in Labels, Goto(t, l),
         UNCHANGED <<call, returned>>, CallOK(l, call[t])
  PROVE  CallInv'
<1>1. call' = [call EXCEPT ![t] = call[t]] /\ call[t].index \in Nat
  BY HeldTyped DEF Base, TypeOK, CallsType
<1>. QED BY <1>1, CallLift DEF Goto

LEMMA CallStep ==
  ASSUME Base, CallInv, [Next]_vars
  PROVE  CallInv'
<1>. TypeOK /\ CallsType /\ PcInv /\ TrackerType
  BY DEF Base, TypeOK
<1>0. \A t \in Threads : /\ call[t] \in CallType /\ call[t].index \in Nat
                        /\ PcOK(pc[t], call[t]) /\ CallOK(pc[t], call[t])
  BY HeldTyped DEF PcInv, CallInv
<1>1. ASSUME NEW t \in Threads, SubmitStep(t) PROVE CallInv'
  <2>1. ASSUME NEW op \in Ops, BeginSubmit(t, op) PROVE CallInv'
    <3>1. PICK p \in Pools : call' = [call EXCEPT ![t] = [NoCall EXCEPT !.op = op, !.pool = p]]
      BY Zenon, <2>1 DEF BeginSubmit
    <3>2. pc' = [pc EXCEPT ![t] = "record"] /\ returned' = returned
      BY <2>1 DEF BeginSubmit, Begin, Goto
    <3>3. [NoCall EXCEPT !.op = op, !.pool = p].index \in Nat /\ CallOK("record", [NoCall EXCEPT !.op = op, !.pool = p])
      BY DEF CallOK, NoCall
    <3>. QED BY <3>1, <3>2, <3>3, CallLift DEF Labels
  <2>2. CASE Record(t)
    <3>1. pc' = [pc EXCEPT ![t] = "submit"] /\ call' = [call EXCEPT ![t] = [call[t] EXCEPT !.from = layout]] /\ returned' = returned
      BY <2>2 DEF Record, Goto, CallsType
    <3>2. ([call[t] EXCEPT !.from = layout]).index \in Nat /\ CallOK("submit", [call[t] EXCEPT !.from = layout])
      BY <2>2, <1>0 DEF CallOK, CallType, NoCall, Record
    <3>. QED BY <3>1, <3>2, CallLift DEF Labels
  <2>3. CASE RecordFails(t)
    BY <2>3, <1>0, CallGoes DEF RecordFails, CallOK, Labels
  <2>4. CASE Submit(t)
    <3>1. PICK f \in Fences : call' = [call EXCEPT ![t] = [call[t] EXCEPT !.index = last_issued + 1,
                    !.frame = [index |-> last_issued + 1, fence |-> f, pool |-> call[t].pool]]]
      BY Zenon, <2>4 DEF Submit, CallsType
    <3>2. PICK c : c = [call[t] EXCEPT !.index = last_issued + 1,
                    !.frame = [index |-> last_issued + 1, fence |-> f, pool |-> call[t].pool]]
      OBVIOUS
    <3>3. c.index \in Nat /\ c.resume = call[t].resume
      BY <3>2, <1>0 DEF CallType, TrackerType
    <3>4. call[t].resume # "limit"
      BY <2>4, <1>0 DEF Submit, PcOK
    <3>5. CallOK("lock_retire", c)
      BY <3>3, <3>4 DEF CallOK
    <3>6. pc' = [pc EXCEPT ![t] = "lock_retire"] /\ returned' = returned
      BY <2>4 DEF Submit, Goto
    <3>. QED BY <3>1, <3>2, <3>3, <3>5, <3>6, CallLift DEF Labels
  <2>5. CASE SubmitFails(t)
    <3>1. CASE UNCHANGED call
      BY <2>5, <3>1, <1>0, CallGoes DEF SubmitFails, CallOK, Labels
    <3>2. ASSUME NEW f \in Fences, call' = [call EXCEPT ![t].fence = f]
          PROVE  CallInv'
      <4>1. pc' = [pc EXCEPT ![t] = "cleanup"] /\ call' = [call EXCEPT ![t] = [call[t] EXCEPT !.fence = f]] /\ returned' = returned
        BY <2>5, <3>2 DEF SubmitFails, Goto, TakeFence, Fails, CallsType
      <4>2. ([call[t] EXCEPT !.fence = f]).index \in Nat /\ CallOK("cleanup", [call[t] EXCEPT !.fence = f])
        BY <2>5, <3>2, <1>0 DEF CallOK, CallType, NoCall, SubmitFails
      <4>. QED BY <4>1, <4>2, CallLift DEF Labels
    <3>. QED BY <2>5, <3>1, <3>2 DEF SubmitFails
  <2>6. CASE Cleanup(t)
    BY <2>6, CallReturns DEF Cleanup
  <2>. QED BY <1>1, <2>1, <2>2, <2>3, <2>4, <2>5, <2>6 DEF SubmitStep
<1>2. ASSUME NEW t \in Threads, RetireStep(t) PROVE CallInv'
  <2>1. CASE LockRetire(t)
    BY <2>1, <1>0, CallGoes DEF LockRetire, CallOK, Labels
  <2>2. CASE TryHarvest(t)
    <3>1. CASE Goto(t, "harvest") /\ UNCHANGED call
      BY <2>2, <3>1, <1>0, CallGoes DEF TryHarvest, CallOK, Labels
    <3>2. CASE Return(t)
      BY <2>2, <3>2, CallReturns DEF TryHarvest
    <3>. QED BY <2>2, <3>1, <3>2 DEF TryHarvest
  <2>3. CASE HarvestFrame(t)
    <3>1. pc' = [pc EXCEPT ![t] = "track"] /\ call' = [call EXCEPT ![t] = [call[t] EXCEPT !.old = FrontFrame]] /\ returned' = returned
      BY <2>3 DEF HarvestFrame, PopFrame, Goto, CallsType
    <3>2. ([call[t] EXCEPT !.old = FrontFrame]).index \in Nat /\ CallOK("track", [call[t] EXCEPT !.old = FrontFrame])
      BY <2>3, <1>0 DEF CallOK, CallType, NoCall, HarvestFrame
    <3>. QED BY <3>1, <3>2, CallLift DEF Labels
  <2>4. CASE Track(t)
    <3>1. CASE Resume(t)
      <4>1. PICK l : l = call[t].resume
        OBVIOUS
      <4>2. pc' = [pc EXCEPT ![t] = l] /\ call' = [call EXCEPT ![t] = [call[t] EXCEPT !.old = None]] /\ returned' = returned
        BY <2>4, <3>1, <4>1 DEF Track, Resume, Goto, CallsType
      <4>3. l \in {"harvest", "limit"} /\ l \in Labels
        BY <1>0, <4>1 DEF CallType, Labels
      <4>4. [call[t] EXCEPT !.old = None].index \in Nat /\ CallOK(l, [call[t] EXCEPT !.old = None])
        BY <1>0, <4>3 DEF CallOK, CallType
      <4>. QED BY <4>2, <4>3, <4>4, CallLift
    <3>2. CASE Goto(t, "recycle_old") /\ UNCHANGED call
      BY <2>4, <3>2, <1>0, CallGoes DEF Track, CallOK, Labels
    <3>. QED BY <2>4, <3>1, <3>2 DEF Track
  <2>5. CASE RecycleOld(t)
    <3>1. PICK l : l = call[t].resume
      OBVIOUS
    <3>2. pc' = [pc EXCEPT ![t] = l] /\ call' = [call EXCEPT ![t] = [call[t] EXCEPT !.old = None]] /\ returned' = returned
      BY <2>5, <3>1 DEF RecycleOld, Resume, Goto, CallsType
    <3>3. l \in {"harvest", "limit"} /\ l \in Labels
      BY <1>0, <3>1 DEF CallType, Labels
    <3>4. [call[t] EXCEPT !.old = None].index \in Nat /\ CallOK(l, [call[t] EXCEPT !.old = None])
      BY <1>0, <3>3 DEF CallOK, CallType
    <3>. QED BY <3>2, <3>3, <3>4, CallLift
  <2>6. CASE HarvestEnds(t)
    <3>1. CASE call[t].frame = None
      BY <2>6, <3>1, CallReturns DEF HarvestEnds
    <3>2. CASE call[t].frame # None
      <4>1. Current(call[t].frame.index, call[t].frame.fence) /\ call[t].frame.index = call[t].index
        <5>1. Key(call[t].frame) \in Uses
          BY <3>2, UseKinds
        <5>2. Current(Key(call[t].frame)[1], Key(call[t].frame)[2])
          BY <5>1 DEF Base, LifeInv, UsesInv
        <5>. QED BY <1>0, <3>2, <5>2 DEF Key, PcOK
      <4>2. Accepted(call[t].index)
        BY <4>1 DEF Current, At, Accepted
      <4>3. PICK c : c = [call[t] EXCEPT !.frame = None, !.resume = "limit"]
        OBVIOUS
      <4>4. pc' = [pc EXCEPT ![t] = "limit"] /\ call' = [call EXCEPT ![t] = c] /\ returned' = returned
        BY <2>6, <3>2, <4>3 DEF HarvestEnds, Goto, CallsType
      <4>5. c.index = call[t].index /\ c.index \in Nat
        BY <1>0, <4>3 DEF CallType
      <4>6. CallOK("limit", c)
        BY <4>2, <4>5 DEF CallOK
      <4>. QED BY <4>4, <4>5, <4>6, CallLift DEF Labels
    <3>. QED BY <3>1, <3>2
  <2>7. CASE HarvestFails(t) \/ EvictFails(t)
    BY <2>7, CallReturns DEF HarvestFails, EvictFails
  <2>8. CASE EvictFrame(t)
    <3>1. pc' = [pc EXCEPT ![t] = "track"] /\ call' = [call EXCEPT ![t] = [call[t] EXCEPT !.old = FrontFrame]] /\ returned' = returned
      BY <2>8 DEF EvictFrame, PopFrame, Goto, CallsType
    <3>2. ([call[t] EXCEPT !.old = FrontFrame]).index \in Nat /\ CallOK("track", [call[t] EXCEPT !.old = FrontFrame])
      BY <2>8, <1>0 DEF CallOK, CallType, NoCall, EvictFrame
    <3>. QED BY <3>1, <3>2, CallLift DEF Labels
  <2>9. CASE SubmitReturns(t)
    <3>0. Accepted(call[t].index)
      BY <2>9, <1>0 DEF SubmitReturns, PcOK, CallOK
    <3>1. CASE call[t].op = "submit"
      <4>1. pc' = [pc EXCEPT ![t] = "idle"] /\ call' = [call EXCEPT ![t] = NoCall] /\ returned' = returned \cup {call[t].index}
        BY <2>9, <3>1 DEF SubmitReturns, Return
      <4>. QED BY <3>0, <4>1, CallBlank, CallLift DEF Labels
    <3>2. CASE call[t].op # "submit"
      <4>1. PICK c : c = [NoCall EXCEPT !.op = "submit_empty", !.index = call[t].index]
        OBVIOUS
      <4>2. pc' = [pc EXCEPT ![t] = "wait_test"] /\ call' = [call EXCEPT ![t] = c] /\ returned' = returned
        BY <2>9, <3>2, <4>1 DEF SubmitReturns, Goto
      <4>3. c.index = call[t].index /\ c.resume = "harvest"
        BY <4>1 DEF NoCall
      <4>4. CallOK("wait_test", c)
        BY <3>0, <4>3 DEF CallOK
      <4>. QED BY <1>0, <4>2, <4>3, <4>4, CallLift DEF Labels
    <3>. QED BY <3>1, <3>2
  <2>. QED BY <1>2, <2>1, <2>2, <2>3, <2>4, <2>5, <2>6, <2>7, <2>8, <2>9 DEF RetireStep
<1>3. ASSUME NEW t \in Threads, WaitStep(t) PROVE CallInv'
  <2>1. CASE BeginWait(t)
    <3>1. PICK i \in returned : call' = [call EXCEPT ![t] = [NoCall EXCEPT !.op = "wait", !.index = i]]
      BY Zenon, <2>1 DEF BeginWait
    <3>2. PICK c : c = [NoCall EXCEPT !.op = "wait", !.index = i]
      OBVIOUS
    <3>3. Accepted(i)
      BY DEF CallInv
    <3>4. i \in Nat
      <4>1. PICK k \in DOMAIN gpu : gpu[k].index = i
        BY <3>3 DEF Accepted
      <4>2. gpu[k] \in WorkType
        BY DEF TypeOK, GpuType
      <4>. QED BY <4>1, <4>2 DEF WorkType
    <3>5. c.index = i /\ c.resume = "harvest"
      BY <3>2 DEF NoCall
    <3>6. CallOK("wait_test", c)
      BY <3>3, <3>5 DEF CallOK
    <3>7. pc' = [pc EXCEPT ![t] = "wait_test"] /\ call' = [call EXCEPT ![t] = c] /\ returned' = returned
      BY <2>1, <3>1, <3>2 DEF BeginWait, Begin, Goto
    <3>. QED BY <3>4, <3>5, <3>6, <3>7, CallLift DEF Labels
  <2>2. CASE WaitTest(t)
    <3>1. CASE Return(t)
      BY <2>2, <3>1, CallReturns DEF WaitTest
    <3>2. CASE Goto(t, "try_harvest") /\ UNCHANGED call
      BY <2>2, <3>2, <1>0, CallGoes DEF WaitTest, CallOK, Labels
    <3>3. ASSUME NEW f, Goto(t, "wait"), call' = [call EXCEPT ![t].fence = f]
          PROVE  CallInv'
      <4>1. pc' = [pc EXCEPT ![t] = "wait"] /\ call' = [call EXCEPT ![t] = [call[t] EXCEPT !.fence = f]] /\ returned' = returned
        BY <2>2, <3>3 DEF WaitTest, Goto, Return, CallsType
      <4>2. ([call[t] EXCEPT !.fence = f]).index \in Nat /\ CallOK("wait", [call[t] EXCEPT !.fence = f])
        BY <2>2, <3>3, <1>0 DEF CallOK, CallType, NoCall, WaitTest
      <4>. QED BY <4>1, <4>2, CallLift DEF Labels
    <3>. QED BY <2>2, <3>1, <3>2, <3>3 DEF WaitTest
  <2>3. CASE Wait(t)
    <3>1. /\ pc' = [pc EXCEPT ![t] = "unpin"] /\ call' = [call EXCEPT ![t] = call[t]]
         /\ returned' = returned /\ pc[t] = "wait" /\ fence_state[call[t].fence] = "signaled"
      BY <2>3 DEF Wait, Goto, Signaled, CallsType
    <3>2. PICK i, f : i = call[t].index /\ f = call[t].fence
      OBVIOUS
    <3>3. <<i, f>> \in Uses
      BY <3>1, <3>2, UseKinds DEF Waiter
    <3>4. Current(i, f)
      BY <3>3 DEF Base, LifeInv, UsesInv
    <3>5. PICK k \in DOMAIN gpu : At(i, f, k)
      BY <3>4 DEF Current
    <3>6. k \in 1 .. done /\ gpu[k].index = i
      BY <3>1, <3>2, <3>5 DEF At, TypeOK, GpuType
    <3>7. CallOK("unpin", call[t])
      BY <1>0, <3>1, <3>2, <3>6 DEF CallOK
    <3>. QED BY Zenon, <1>0, <3>1, <3>7, CallLift DEF Labels
  <2>4. CASE WaitFails(t)
    <3>1. pc' = [pc EXCEPT ![t] = "unpin"] /\ call' = [call EXCEPT ![t] = [call[t] EXCEPT !.failed = TRUE]] /\ returned' = returned
      BY <2>4 DEF WaitFails, Goto, CallsType
    <3>2. ([call[t] EXCEPT !.failed = TRUE]).index \in Nat /\ CallOK("unpin", [call[t] EXCEPT !.failed = TRUE])
      BY <2>4, <1>0 DEF CallOK, CallType, NoCall, WaitFails
    <3>. QED BY <3>1, <3>2, CallLift DEF Labels
  <2>5. CASE Unpin(t)
    <3>1. CASE Return(t)
      BY <2>5, <3>1, CallReturns DEF Unpin, Waited
    <3>2. CASE Goto(t, "try_harvest") /\ UNCHANGED call
      BY <2>5, <3>2, <1>0, CallGoes DEF Unpin, Waited, CallOK, Labels
    <3>3. CASE Goto(t, "recycle_waited") /\ UNCHANGED call
      BY <2>5, <3>3, <1>0, CallGoes DEF Unpin, Waited, CallOK, Labels
    <3>. QED BY <2>5, <3>1, <3>2, <3>3 DEF Unpin, Waited
  <2>6. CASE RecycleWaited(t)
    <3>1. CASE Return(t)
      BY <2>6, <3>1, CallReturns DEF RecycleWaited, Waited
    <3>2. CASE Goto(t, "try_harvest") /\ UNCHANGED call
      BY <2>6, <3>2, <1>0, CallGoes DEF RecycleWaited, Waited, CallOK, Labels
    <3>. QED BY <2>6, <3>1, <3>2 DEF RecycleWaited, Waited
  <2>7. CASE Poll(t)
    <3>1. pc' = [pc EXCEPT ![t] = "try_harvest"] /\ call' = [call EXCEPT ![t] = [call[t] EXCEPT !.op = "poll"]] /\ returned' = returned
      BY <2>7 DEF Poll, Begin, Goto, CallsType
    <3>2. ([call[t] EXCEPT !.op = "poll"]).index \in Nat /\ CallOK("try_harvest", [call[t] EXCEPT !.op = "poll"])
      BY <2>7, <1>0 DEF CallOK, CallType, NoCall, Poll
    <3>. QED BY <3>1, <3>2, CallLift DEF Labels
  <2>8. CASE PollFails(t)
    BY <2>8, CallSame DEF PollFails
  <2>9. CASE BeginWaitIdle(t)
    <3>1. PICK c : c = [NoCall EXCEPT !.op = "wait_idle", !.index = last_issued]
      OBVIOUS
    <3>2. pc' = [pc EXCEPT ![t] = "wait_idle"] /\ call' = [call EXCEPT ![t] = c] /\ returned' = returned
      BY <2>9, <3>1 DEF BeginWaitIdle, Begin, Goto
    <3>3. c.index = last_issued /\ c.resume = "harvest"
      BY <3>1 DEF NoCall
    <3>4. c.index \in Nat /\ CallOK("wait_idle", c)
      BY <3>3 DEF CallOK, TrackerType
    <3>. QED BY <3>2, <3>4, CallLift DEF Labels
  <2>10. CASE WaitIdle(t)
    BY <2>10, <1>0, CallGoes DEF WaitIdle, CallOK, Labels
  <2>11. CASE WaitIdleFails(t)
    BY <2>11, CallReturns DEF WaitIdleFails
  <2>. QED BY <1>3, <2>1, <2>2, <2>3, <2>4, <2>5, <2>6, <2>7, <2>8, <2>9, <2>10, <2>11 DEF WaitStep
<1>4. ASSUME NEW t \in Threads, SurfaceStep(t) PROVE CallInv'
  <2>1. PICK l \in SurfaceLabels, c \in CallType : Moves(t, l, c)
    BY <1>4, SurfaceMove
  <2>2. pc[t] \in SurfaceLabels /\ returned' = returned
    BY <1>4, SurfaceMove
  <2>3. CallOK(l, c)
    BY <2>1, <2>2, MoveFacts DEF SurfaceLabels, CallOK
  <2>. QED BY <2>1, <2>2, <2>3, MoveFacts, CallLift
<1>5. CASE GpuFinish
  BY <1>5, CallSame DEF GpuFinish
<1>6. ASSUME NEW i \in Images, ImageFree(i) PROVE CallInv'
  BY <1>6, CallSame DEF ImageFree
<1>7. CASE Drop
  BY <1>7, CallSame DEF Drop
<1>8. CASE UNCHANGED vars
  BY <1>8, CallSame DEF vars
<1>. QED BY <1>1, <1>2, <1>3, <1>4, <1>5, <1>6, <1>7, <1>8 DEF Next, Ended, SurfaceStep

-----------------------------------------------------------------------------
(* The invariant                                                           *)

LEMMA ReturnedNat ==
  ASSUME TypeOK, CallInv
  PROVE  \A i \in returned : i \in Nat
<1>1. SUFFICES ASSUME NEW i \in returned PROVE i \in Nat
  OBVIOUS
<1>2. PICK k \in DOMAIN gpu : gpu[k].index = i
  BY DEF CallInv, Accepted
<1>3. gpu[k] \in WorkType
  BY DEF TypeOK, GpuType
<1>. QED BY <1>2, <1>3 DEF WorkType

LEMMA DropStep ==
  ASSUME DropInv, [Next]_vars
  PROVE  DropInv' 
<1>1. ASSUME NEW t \in Threads, SubmitStep(t) PROVE DropInv'
  <2>1. ASSUME NEW op \in Ops, BeginSubmit(t, op) PROVE DropInv'
    BY <2>1 DEF BeginSubmit, Begin, MayCall, DropInv
  <2>2. CASE Record(t) \/ RecordFails(t) \/ Submit(t) \/ SubmitFails(t) \/ Cleanup(t)
    BY <2>2 DEF Record, DropInv, RecordFails, Submit, SubmitFails, Cleanup
  <2>. QED BY <1>1, <2>1, <2>2 DEF SubmitStep
<1>2. ASSUME NEW t \in Threads, RetireStep(t) PROVE DropInv'
  <2>1. CASE LockRetire(t) \/ TryHarvest(t) \/ HarvestFrame(t) \/ Track(t) \/ RecycleOld(t) \/ HarvestEnds(t) \/ HarvestFails(t) \/ EvictFrame(t) \/ EvictFails(t) \/ SubmitReturns(t)
    BY <2>1 DEF LockRetire, DropInv, TryHarvest, HarvestFrame, Track, RecycleOld, HarvestEnds, HarvestFails, EvictFrame, EvictFails, SubmitReturns
  <2>. QED BY <1>2, <2>1 DEF RetireStep
<1>3. ASSUME NEW t \in Threads, WaitStep(t) PROVE DropInv'
  <2>1. CASE BeginWait(t) \/ WaitTest(t) \/ Wait(t) \/ WaitFails(t) \/ Unpin(t) \/ RecycleWaited(t) \/ Poll(t) \/ PollFails(t) \/ BeginWaitIdle(t) \/ WaitIdle(t) \/ WaitIdleFails(t)
    BY Zenon, <2>1 DEF BeginWait, Begin, MayCall, DropInv, WaitTest, Wait, WaitFails, Unpin, RecycleWaited, Poll, PollFails, BeginWaitIdle, WaitIdle, WaitIdleFails
  <2>. QED BY <1>3, <2>1 DEF WaitStep
<1>4. ASSUME NEW t \in Threads, AcquireStep(t) PROVE DropInv'
  <2>1. CASE GetCurrentTexture(t) \/ AcquireImage(t) \/ AcquireFails(t) \/ PublishAcquire(t) \/ AcquireBlocked(t)
    BY <2>1 DEF GetCurrentTexture, MaySurface, DropInv, AcquireImage, AcquireFails, PublishAcquire, AcquireBlocked, vars
  <2>. QED BY <1>4, <2>1 DEF AcquireStep
<1>5. ASSUME NEW t \in Threads, PresentStep(t) PROVE DropInv'
  <2>1. CASE Present(t) \/ PresentFlushFails(t) \/ TakePending(t) \/ Transition(t) \/ TransitionFails(t) \/ Recover(t) \/ Ring(t) \/ QueuePresent(t)
    BY <2>1 DEF Present, MaySurface, DropInv, PresentFlushFails, TakePending, Transition, TransitionFails, Recover, Ring, QueuePresent
  <2>. QED BY <1>5, <2>1 DEF PresentStep
<1>6. ASSUME NEW t \in Threads, ConfigureStep(t) PROVE DropInv'
  <2>1. CASE Configure(t) \/ TeardownIdle(t) \/ DestroySync(t) \/ ResetPending(t)
    BY <2>1 DEF Configure, MaySurface, DropInv, TeardownIdle, DestroySync, ResetPending
  <2>. QED BY <1>6, <2>1 DEF ConfigureStep
<1>7. CASE GpuFinish
  BY <1>7 DEF GpuFinish, DropInv
<1>8. ASSUME NEW i \in Images, ImageFree(i) PROVE DropInv'
  BY <1>8 DEF ImageFree, DropInv
<1>9. CASE Drop
  BY <1>9 DEF Drop, DropInv
<1>10. CASE UNCHANGED vars
  BY <1>10 DEF vars, DropInv
<1>. QED BY <1>1, <1>2, <1>3, <1>4, <1>5, <1>6, <1>7, <1>8, <1>9, <1>10 DEF Next, Ended

LEMMA InitHolds == Init => IInv
<1>1. SUFFICES ASSUME Init PROVE IInv
  OBVIOUS
<1>2. /\ gpu = <<>> /\ done = 0 /\ frames = <<>> /\ free_fences = <<>> /\ fences = {}
      /\ DOMAIN gpu = {} /\ DOMAIN frames = {} /\ DOMAIN free_fences = {}
      /\ Len(gpu) = 0 /\ returned = {} /\ completed = 0 /\ last_issued = 0
      /\ pending_destroy = {}
      /\ pinned = [f \in Fences |-> 0]
      /\ \A t \in Threads : pc[t] = "idle" /\ call[t] = NoCall
  BY <1>1 DEF Init
<1>3. TypeOK
  <2>1. GpuType
    BY <1>2 DEF GpuType
  <2>2. RecycleType
    BY <1>1 DEF Init, RecycleType, States
  <2>3. TrackerType
    BY <1>1 DEF Init, TrackerType
  <2>4. CallsType
    BY <1>1, NoCallTyped DEF Init, CallsType, Labels
  <2>5. SurfacesType
    BY <1>1, NewSurfaceTyped DEF Init, SurfacesType, States
  <2>6. RestType
    BY <1>1 DEF Init, RestType, AllLayouts
  <2>. QED BY <2>1, <2>2, <2>3, <2>4, <2>5, <2>6 DEF TypeOK
<1>4. PcInv
  BY <1>2, PcBlank DEF PcInv, Labels
<1>5. /\ Framed = {} /\ Handed = {} /\ Popped = {} /\ Watched = {} /\ Uses = {}
      /\ Free = {} /\ Tracked = {} /\ \A f : Pins(f) = {}
  <2>1. Framed = {} /\ Free = {}
    BY <1>2 DEF Framed, Free
  <2>2. Handed = {}
    BY <1>2 DEF Handed, NoCall
  <2>3. Popped = {} /\ Watched = {} /\ Tracked = {} /\ \A f : Pins(f) = {}
    BY <1>2 DEF Popped, Popping, Watched, Waiter, Tracked, Pins, Looking
  <2>. QED BY <1>2, <2>1, <2>2, <2>3 DEF Uses
<1>6. UsesInv /\ TrackInv
  BY <1>2, <1>5 DEF UsesInv, TrackInv
<1>7. IndexInv
  <2>1. Over = {0}
    BY <1>2 DEF Over
  <2>. QED BY <1>2, <2>1 DEF IndexInv
<1>8. CallInv
  BY <1>2 DEF CallInv, CallOK, NoCall
<1>9. FrameInv
  BY <1>2 DEF FrameInv, Popping, NoCall
<1>10. FreeInv
  BY <1>2, <1>5 DEF FreeInv, Failed
<1>11. PinInv
  BY <1>2, <1>5, FS_EmptySet DEF PinInv, Late
<1>12. DropInv
  BY <1>2 DEF DropInv
<1>. QED BY <1>3, <1>4, <1>6, <1>7, <1>8, <1>9, <1>10, <1>11, <1>12 DEF IInv

LEMMA StepKeeps == IInv /\ [Next]_vars => IInv'
<1>1. SUFFICES ASSUME IInv, [Next]_vars PROVE IInv'
  OBVIOUS
<1>2. Base /\ CallInv /\ TypeOK /\ PcInv /\ IndexInv /\ PinInv
  BY <1>1 DEF IInv, Base, LifeInv
<1>3. TypeOK'
  BY <1>1, <1>2, ReturnedNat, PinsCount, TypeStep
<1>4. PcInv'
  BY <1>1, <1>2, PcStep
<1>5. LifeInv'
  BY <1>1, <1>2, <1>3, LifeStep
<1>6. IndexInv' /\ CallInv'
  BY <1>1, <1>2, IndexStep, CallStep
<1>7. DropInv'
  BY <1>1, DropStep DEF IInv
<1>. QED BY <1>3, <1>4, <1>5, <1>6, <1>7 DEF IInv, LifeInv

\* The invariant of fences, frames, pins and indices holds for any number of
\* threads, fences and images, whichever Vulkan calls fail.
\* (vulkan/queue.rs: SubmissionTracker, SubmitRecycler, VulkanQueueInner)
THEOREM FenceInvariance == Spec => []IInv
  BY InitHolds, StepKeeps, PTL DEF Spec

\* A fence is reset, reused or destroyed only when no submission still has to
\* signal it and no waiter looks at it, and an index that was returned is awaited
\* with its own fence. (vulkan/queue.rs: pin_fence, unpin_fence, recycle_fence)
THEOREM FenceSafety == Spec => []FencesIntact
<1>1. IInv => FencesIntact
  <2>1. SUFFICES ASSUME IInv PROVE FencesIntact
    OBVIOUS
  <2>2. Base /\ TypeOK /\ PcInv /\ CallInv /\ FreeInv /\ PinInv /\ UsesInv /\ TrackInv /\ IndexInv /\ DropInv
    BY <2>1 DEF IInv, Base, LifeInv
  <2>3. free_fences \in Seq(Fences) /\ ToSet(free_fences) = Free
    BY <2>2 DEF TypeOK, RecycleType, ToSet, Free
  <2>4. ASSUME NEW k \in Running, gpu[k].index # 0
        PROVE  /\ fence_state[gpu[k].fence] = "unsignaled"
               /\ gpu[k].fence \notin ToSet(free_fences)
               /\ \A l \in Running \ {k} : gpu[l].fence # gpu[k].fence
    <3>0. /\ k \in done + 1 .. Len(gpu) /\ done \in Nat /\ Len(gpu) \in Nat
          /\ DOMAIN gpu = 1 .. Len(gpu)
      BY <2>2, <2>4 DEF Running, TypeOK, GpuType
    <3>1. /\ At(gpu[k].index, gpu[k].fence, k)
          /\ fence_state[gpu[k].fence] = "unsignaled"
          /\ <<gpu[k].index, gpu[k].fence>> \in Uses
      BY <2>2, <2>4, <3>0, RunningUse
    <3>2. gpu[k].fence \notin ToSet(free_fences)
      BY <2>2, <2>3, <3>1 DEF FreeInv
    <3>3. ASSUME NEW l \in Running \ {k}, gpu[l].fence = gpu[k].fence PROVE FALSE
      <4>1. l \in DOMAIN gpu /\ k \in DOMAIN gpu /\ l \in Nat /\ k \in Nat
        BY <3>0 DEF Running
      <4>2. l < k
        BY <3>1, <3>3, <4>1 DEF At
      <4>3. gpu[l].index # 0
        <5>1. gpu[k].fence \in Fences
          BY <2>2, <2>4, <4>1 DEF TypeOK, GpuType
        <5>. QED BY <2>2, <3>3, <4>1, <5>1, VulkanAssumption DEF TypeOK, GpuType
      <4>4. At(gpu[l].index, gpu[l].fence, l)
        BY <2>2, <3>0, <3>3, <4>3, RunningUse DEF Running
      <4>. QED BY <3>3, <4>1, <4>2, <4>4 DEF At
    <3>. QED BY <3>1, <3>2, <3>3
  <2>5. ASSUME NEW f \in ToSet(free_fences)
        PROVE  fence_state[f] = "unsignaled" /\ pinned[f] = 0
    <3>1. f \in Free /\ f \in Fences
      BY <2>3 DEF Free
    <3>. QED BY <2>2, <3>1, Unpinned DEF FreeInv
  <2>6. ASSUME NEW t \in Threads, pc[t] = "wait"
        PROVE  \E k \in DOMAIN gpu :
                 /\ gpu[k].index = call[t].index /\ gpu[k].fence = call[t].fence
                 /\ fence_state[call[t].fence] = IF k <= done THEN "signaled" ELSE "unsignaled"
    <3>1. Current(call[t].index, call[t].fence)
      <4>1. <<call[t].index, call[t].fence>> \in Uses
        BY <2>6, UseKinds DEF Waiter
      <4>. QED BY <2>2, <4>1 DEF UsesInv
    <3>. QED BY <3>1 DEF Current, At
  <2>7. ASSUME NEW t \in Threads, pc[t] = "wait_test"
        PROVE  call[t].index <= completed \/ FenceOf(call[t].index) # None
    <3>1. PICK i : i = call[t].index
      OBVIOUS
    <3>2. PICK k \in DOMAIN gpu : gpu[k].index = i
      BY <2>2, <2>7, <3>1 DEF CallInv, CallOK, Accepted
    <3>3. i \in Nat /\ completed \in Nat
      BY <2>2, <3>1, HeldTyped DEF TypeOK, TrackerType
    <3>4. SUFFICES ASSUME i > completed PROVE FenceOf(i) # None
      BY <3>1, <3>3
    <3>5. <<i, gpu[k].fence>> \in fences
      <4>1. ~dropped
        BY <2>2, <2>7 DEF DropInv
      <4>. QED BY <2>2, <3>2, <3>4, <4>1 DEF TrackInv
    <3> DEFINE at == {entry \in fences : entry[1] = i}
    <3>6. at # {} /\ (CHOOSE entry \in at : TRUE) \in at
      BY <3>5
    <3>7. PICK e \in at : e = (CHOOSE entry \in at : TRUE)
      BY <3>6
    <3>8. FenceOf(i) = e[2] /\ e[2] \in Fences
      BY <2>2, <3>6, <3>7 DEF FenceOf, TypeOK, TrackerType
    <3>. QED BY <3>8, VulkanAssumption
  <2>. QED BY <2>4, <2>5, <2>6, <2>7 DEF FencesIntact
<1>. QED BY <1>1, FenceInvariance, PTL

-----------------------------------------------------------------------------
(* The timeline                                                            *)

LEMMA LastOverFacts ==
  ASSUME Base
  PROVE  /\ LastOver \in Over /\ \A j \in Over : j <= LastOver /\ j \in Nat
         /\ \A i \in AcceptedIndices :
              i \in Nat \ {0} /\ \E k \in DOMAIN gpu : gpu[k].index = i
         /\ \A r : Past(r) => \A i \in AcceptedIndices : i <= r => i <= LastOver
<1>. TypeOK /\ IndexInv /\ gpu \in Seq(WorkType)
  BY DEF Base, TypeOK, GpuType
<1>1. LastOver \in Over /\ \A j \in Over : j <= LastOver
  BY DEF IndexInv, LastOver
<1>2. /\ \A k \in DOMAIN gpu : gpu[k].index \in Nat /\ k \in Nat
      /\ DOMAIN gpu = 1 .. Len(gpu) /\ done \in Nat /\ done <= Len(gpu) /\ Len(gpu) \in Nat
  <2>1. \A k \in DOMAIN gpu : gpu[k] \in WorkType /\ k \in Nat
    OBVIOUS
  <2>. QED BY <2>1 DEF WorkType, TypeOK, GpuType
<1>3. \A j \in Over : j \in Nat
  BY <1>2 DEF Over
<1>4. \A i \in AcceptedIndices :
        i \in Nat \ {0} /\ \E k \in DOMAIN gpu : gpu[k].index = i
  BY <1>2 DEF AcceptedIndices
<1>5. ASSUME NEW r, Past(r), NEW i \in AcceptedIndices, i <= r PROVE i <= LastOver
  <2>1. PICK k \in DOMAIN gpu : gpu[k].index = i /\ i # 0
    BY <1>4
  <2>2. k \in 1 .. done
    BY <1>2, <1>5, <2>1 DEF Past
  <2>. QED BY <1>1, <2>1, <2>2 DEF Over
<1>. QED BY <1>1, <1>3, <1>4, <1>5

LEMMA SameOver == ASSUME Over' = Over PROVE LastOver' = LastOver
  BY DEF LastOver

\* The GPU and the tracker move, no caller does.
LEMMA CountsImplement ==
  ASSUME Base, CallInv, [Next]_vars, Awaited' = Awaited, answered' = answered
  PROVE  HalStep
<1>. TypeOK /\ PcInv /\ GpuType /\ IndexInv
  BY DEF Base, TypeOK
<1>0. /\ completed \in Nat /\ last_issued \in Nat /\ done \in Nat /\ Len(gpu) \in Nat
      /\ DOMAIN gpu = 1 .. Len(gpu) /\ done <= Len(gpu)
      /\ \A k \in DOMAIN gpu : gpu[k].index \in Nat /\ k \in Nat
  <2>1. gpu \in Seq(WorkType)
    BY DEF GpuType
  <2>2. \A k \in DOMAIN gpu : gpu[k] \in WorkType /\ k \in Nat
    BY <2>1
  <2>. QED BY <2>1, <2>2 DEF WorkType, TypeOK, GpuType, TrackerType
<1>1. CASE Kept
  <2>1. LastOver' = LastOver /\ AcceptedIndices' = AcceptedIndices
    BY <1>1, SameOver DEF Kept, Over, AcceptedIndices
  <2>2. CASE last_issued' = last_issued
    BY <1>1, <2>1, <2>2 DEF Kept, HalStep, Timeline!hal_vars
  <2>3. CASE last_issued' = last_issued + 1
    <3>1. Timeline!Issue
      BY <1>1, <2>1, <2>3 DEF Kept, Timeline!Issue
    <3>. QED BY <3>1 DEF HalStep, Timeline!HalNext
  <2>. QED BY <1>1, <2>2, <2>3 DEF Kept
<1>2. ASSUME NEW w \in WorkType, gpu' = Append(gpu, w), done' = done
      PROVE  /\ LastOver' = LastOver
             /\ AcceptedIndices' = AcceptedIndices \cup ({w.index} \ {0})
  <2>1. /\ DOMAIN gpu' = 1 .. Len(gpu) + 1 /\ gpu'[Len(gpu) + 1] = w
        /\ \A k \in DOMAIN gpu : gpu'[k] = gpu[k]
    BY <1>2, GpuAppend
  <2>2. Over' = Over
    BY <1>0, <1>2, <2>1 DEF Over
  <2>3. DOMAIN gpu' = DOMAIN gpu \cup {Len(gpu) + 1}
    BY <1>0, <2>1
  <2>4. {gpu'[k].index : k \in DOMAIN gpu'} = {gpu[k].index : k \in DOMAIN gpu} \cup {w.index}
    BY <2>1, <2>3
  <2>. QED BY <2>2, <2>4, SameOver DEF AcceptedIndices
<1>3. CASE Presented
  <2>1. PICK w \in WorkType : w.index = 0 /\ gpu' = Append(gpu, w)
    BY <1>3 DEF Presented
  <2>2. LastOver' = LastOver /\ AcceptedIndices' = AcceptedIndices
    BY <1>2, <1>3, <2>1 DEF Presented
  <2>. QED BY <1>3, <2>2 DEF Presented, HalStep, Timeline!hal_vars
<1>4. ASSUME NEW t \in Threads, Submit(t) PROVE HalStep
  <2>1. PICK w \in WorkType : w.index = last_issued + 1 /\ gpu' = Append(gpu, w)
    BY <1>4, SubmitShape
  <2>2. done' = done /\ completed' = completed /\ last_issued' = last_issued + 1
    BY <1>4 DEF Submit, Accept
  <2>3. w.index # 0
    BY <1>0, <2>1
  <2>4. /\ LastOver' = LastOver
        /\ AcceptedIndices' = AcceptedIndices \cup {last_issued'}
    BY <1>2, <2>1, <2>2, <2>3
  <2>5. Timeline!Issue
    BY <2>2, <2>4 DEF Timeline!Issue
  <2>. QED BY <2>5 DEF HalStep, Timeline!HalNext
<1>5. CASE Reported
  <2>1. LastOver' = LastOver /\ AcceptedIndices' = AcceptedIndices
    BY <1>5, SameOver DEF Reported, Over, AcceptedIndices
  <2>2. CASE completed' = completed
    BY <1>5, <2>1, <2>2 DEF Reported, HalStep, Timeline!hal_vars
  <2>3. CASE completed' # completed
    <3>1. completed' \in Nat /\ completed < completed' /\ completed' <= last_issued
      BY <1>0, <1>5, <2>3 DEF Reported, Past
    <3>2. \A i \in AcceptedIndices : i <= completed' => i <= LastOver
      BY <1>5, LastOverFacts DEF Reported
    <3>3. Timeline!Observe(completed')
      BY <1>5, <2>1, <3>1, <3>2 DEF Reported, Timeline!Observe, Timeline!Report
    <3>4. completed' \in 1 .. last_issued
      BY <1>0, <3>1
    <3>. QED BY <3>3, <3>4 DEF HalStep, Timeline!HalNext
  <2>. QED BY <2>2, <2>3
<1>6. CASE GpuFinish
  <2>1. PICK k0 : k0 = done + 1
    OBVIOUS
  <2>2. /\ k0 \in DOMAIN gpu /\ done' = k0
        /\ UNCHANGED <<gpu, completed, last_issued>>
    BY <1>0, <1>6, <2>1 DEF GpuFinish
  <2>3. Over' = Over \cup {gpu[k0].index} /\ AcceptedIndices' = AcceptedIndices
    BY <1>0, <2>1, <2>2 DEF Over, AcceptedIndices
  <2>4. CASE gpu[k0].index = 0
    <3>1. Over' = Over
      BY <2>3, <2>4 DEF Over
    <3>. QED BY <2>2, <2>3, <3>1, SameOver DEF HalStep, Timeline!hal_vars
  <2>5. CASE gpu[k0].index # 0
    <3>1. PICK i : i = gpu[k0].index
      OBVIOUS
    <3>2. i \in AcceptedIndices /\ i \in Nat
      BY <1>0, <2>2, <2>5, <3>1 DEF AcceptedIndices
    <3>3. \A j \in Over : j < i
      <4>1. TAKE j \in Over
      <4>2. CASE j = 0
        BY <2>5, <3>1, <3>2, <4>2
      <4>3. ASSUME NEW m \in 1 .. done, j = gpu[m].index, j # 0 PROVE j < i
        <5>1. m \in DOMAIN gpu /\ m < k0
          BY <1>0, <2>1
        <5>. QED BY <2>2, <2>5, <3>1, <4>3, <5>1 DEF IndexInv
      <4>. QED BY <4>2, <4>3 DEF Over
    <3>4. LastOver \in Over /\ \A j \in Over : j \in Nat /\ j <= LastOver
      BY LastOverFacts
    <3>5. LastOver' = i
      <4>1. Over' = Over \cup {i}
        BY <2>3, <3>1
      <4>2. \A j \in Over' : j <= i /\ j \in Nat
        BY <3>2, <3>3, <3>4, <4>1
      <4>3. \A m \in Over' : (\A j \in Over' : j <= m) => m = i
        BY <3>2, <4>1, <4>2
      <4>4. i \in Over'
        BY <4>1
      <4>. QED BY <4>2, <4>3, <4>4 DEF LastOver
    <3>6. ASSUME NEW j \in AcceptedIndices, j > LastOver PROVE i <= j
      <4>1. PICK m \in DOMAIN gpu : gpu[m].index = j /\ j # 0 /\ j \in Nat
        BY LastOverFacts
      <4>2. ~(m <= done)
        <5>1. SUFFICES ASSUME m <= done PROVE FALSE
          OBVIOUS
        <5>2. j \in Over
          BY <1>0, <4>1, <5>1 DEF Over
        <5>. QED BY <3>4, <3>6, <5>2
      <4>3. m = k0 \/ k0 < m
        BY <1>0, <2>1, <4>2
      <4>. QED BY <1>0, <2>2, <2>5, <3>1, <3>2, <4>1, <4>3 DEF IndexInv
    <3>7. Timeline!GpuFinish(i)
      BY <2>2, <2>3, <3>3, <3>4, <3>5, <3>6 DEF Timeline!GpuFinish
    <3>. QED BY <3>2, <3>7 DEF HalStep, Timeline!HalNext
  <2>. QED BY <2>4, <2>5
<1>. QED BY <1>1, <1>3, <1>4, <1>5, <1>6, CountStep

\* A caller moves.
LEMMA AwaitMoves ==
  ASSUME CallsType, NEW t \in Threads, NEW l \in Labels, NEW c,
         pc' = [pc EXCEPT ![t] = l], call' = [call EXCEPT ![t] = c]
  PROVE  /\ pc[t] \notin Waiting /\ l \notin Waiting => Awaited' = Awaited
         /\ pc[t] \in Waiting /\ l \in Waiting /\ c.index = call[t].index => Awaited' = Awaited
         /\ pc[t] \notin Waiting /\ l \in Waiting =>
              Awaited[t] = 0 /\ Awaited' = [Awaited EXCEPT ![t] = c.index]
         /\ pc[t] \in Waiting /\ l \notin Waiting =>
              Awaited[t] = call[t].index /\ Awaited' = [Awaited EXCEPT ![t] = 0]
<1>1. pc'[t] = l /\ call'[t] = c
  BY DEF CallsType
<1>2. \A u \in Threads \ {t} : pc'[u] = pc[u] /\ call'[u] = call[u]
  BY DEF CallsType
<1>3. /\ Awaited' = [u \in Threads |-> IF pc'[u] \in Waiting THEN call'[u].index ELSE 0]
      /\ Awaited = [u \in Threads |-> IF pc[u] \in Waiting THEN call[u].index ELSE 0]
  BY DEF Awaited, Waiting
<1>4. \A u \in Threads \ {t} : Awaited'[u] = Awaited[u]
  BY <1>2, <1>3
<1>5. /\ Awaited'[t] = IF l \in Waiting THEN c.index ELSE 0
      /\ Awaited[t] = IF pc[t] \in Waiting THEN call[t].index ELSE 0
  BY <1>1, <1>3
<1>6. DOMAIN Awaited = Threads /\ DOMAIN Awaited' = Threads
  BY <1>3
<1>7. Awaited'[t] = Awaited[t] => Awaited' = Awaited
  <2>1. HAVE Awaited'[t] = Awaited[t]
  <2>2. \A u \in Threads : Awaited'[u] = Awaited[u]
    BY <1>4, <2>1
  <2>. QED BY <1>3, <1>6, <2>2
<1>8. \A x : Awaited'[t] = x => Awaited' = [Awaited EXCEPT ![t] = x]
  <2>1. TAKE x
  <2>2. HAVE Awaited'[t] = x
  <2>3. \A u \in Threads : Awaited'[u] = [Awaited EXCEPT ![t] = x][u]
    BY <1>4, <1>6, <2>2
  <2>. QED BY <1>3, <1>6, <2>3
<1>. QED BY <1>5, <1>7, <1>8

LEMMA AcceptedIs == ASSUME NEW i, Accepted(i) PROVE i \in AcceptedIndices
<1>1. PICK k \in DOMAIN gpu : gpu[k].index = i /\ i # 0
  BY DEF Accepted
<1>. QED BY <1>1 DEF AcceptedIndices

\* Every step is a step of the timeline, or none.
LEMMA TimelineStep ==
  ASSUME Base, CallInv, [Next]_vars
  PROVE  HalStep
<1>. TypeOK /\ CallsType /\ PcInv /\ TrackerType /\ IndexInv
  BY DEF Base, TypeOK
<1>0. \A t \in Threads : /\ call[t] \in CallType /\ call[t].index \in Nat
                        /\ PcOK(pc[t], call[t]) /\ CallOK(pc[t], call[t])
  BY HeldTyped DEF PcInv, CallInv
<1>1. ASSUME NEW t \in Threads, SubmitStep(t) PROVE HalStep
  <2>1. ASSUME NEW op \in Ops, BeginSubmit(t, op) PROVE HalStep
    <3>1. Awaited' = Awaited /\ answered' = answered
      BY <2>1, <1>0 DEF BeginSubmit, Begin, Goto, TakePool, Awaited, CallsType, CallType, Waiting, MayCall, MaySurface
    <3>. QED BY <3>1, CountsImplement
  <2>2. CASE Record(t) \/ RecordFails(t) \/ Submit(t) \/ SubmitFails(t) \/ Cleanup(t)
    <3>1. Awaited' = Awaited /\ answered' = answered
      BY <2>2, <1>0 DEF Record, Goto, Awaited, CallsType, CallType, Waiting, MayCall, MaySurface, RecordFails, Submit, TakeFence, SubmitFails, Fails, Cleanup, Return
    <3>. QED BY <3>1, CountsImplement
  <2>. QED BY <1>1, <2>1, <2>2 DEF SubmitStep
<1>2. ASSUME NEW t \in Threads, RetireStep(t) PROVE HalStep
  <2>1. CASE LockRetire(t) \/ TryHarvest(t) \/ HarvestFrame(t) \/ Track(t) \/ RecycleOld(t) \/ HarvestEnds(t) \/ HarvestFails(t) \/ EvictFrame(t) \/ EvictFails(t)
    <3>1. Awaited' = Awaited /\ answered' = answered
      BY <2>1, <1>0 DEF LockRetire, Goto, Awaited, CallsType, CallType, Waiting, MayCall, MaySurface, TryHarvest, Return, HarvestFrame, PopFrame, FrontFrame, Track, Resume, RecycleOld, HarvestEnds, HarvestFails, EvictFrame, EvictFails
    <3>. QED BY <3>1, CountsImplement
  <2>2. CASE SubmitReturns(t)
    <3>1. CASE call[t].op = "submit"
      <4>1. /\ pc' = [pc EXCEPT ![t] = "idle"] /\ call' = [call EXCEPT ![t] = NoCall]
           /\ answered' = answered /\ pc[t] = "limit"
        BY <2>2, <3>1 DEF SubmitReturns, Return
      <4>2. Awaited' = Awaited
        BY <4>1, AwaitMoves DEF Labels, Waiting
      <4>. QED BY <4>1, <4>2, CountsImplement
    <3>2. CASE call[t].op # "submit"
      <4>1. PICK i : i = call[t].index
        OBVIOUS
      <4>2. PICK c : c = [NoCall EXCEPT !.op = "submit_empty", !.index = i]
        OBVIOUS
      <4>3. /\ pc' = [pc EXCEPT ![t] = "wait_test"] /\ call' = [call EXCEPT ![t] = c] /\ pc[t] = "limit"
           /\ UNCHANGED <<gpu, done, last_issued, completed, answered>>
        BY <2>2, <3>2, <4>1, <4>2 DEF SubmitReturns, Goto
      <4>4. c.index = i
        BY <4>2 DEF NoCall
      <4>5. i \in AcceptedIndices
        BY <2>2, <1>0, <4>1, AcceptedIs DEF SubmitReturns, PcOK, CallOK
      <4>6. Awaited[t] = 0 /\ Awaited' = [Awaited EXCEPT ![t] = i]
        <5>1. pc[t] \notin Waiting /\ "wait_test" \in Waiting /\ "wait_test" \in Labels
          BY <4>3 DEF Labels, Waiting
        <5>2. Awaited[t] = 0 /\ Awaited' = [Awaited EXCEPT ![t] = c.index]
          BY <4>3, <5>1, AwaitMoves
        <5>. QED BY <4>4, <5>2
      <4>7. LastOver' = LastOver /\ AcceptedIndices' = AcceptedIndices
        BY <4>3, SameOver DEF Over, AcceptedIndices
      <4>8. Timeline!Await(t, i)
        BY <4>3, <4>6, <4>7 DEF Timeline!Await
      <4>. QED BY <4>5, <4>8 DEF HalStep, Timeline!HalNext
    <3>. QED BY <3>1, <3>2
  <2>. QED BY <1>2, <2>1, <2>2 DEF RetireStep
<1>3. ASSUME NEW t \in Threads, WaitStep(t) PROVE HalStep
  <2>1. CASE BeginWait(t)
    <3>1. PICK i \in returned : call' = [call EXCEPT ![t] = [NoCall EXCEPT !.op = "wait", !.index = i]]
      BY Zenon, <2>1 DEF BeginWait
    <3>2. PICK c : c = [NoCall EXCEPT !.op = "wait", !.index = i]
      OBVIOUS
    <3>3. /\ pc' = [pc EXCEPT ![t] = "wait_test"] /\ call' = [call EXCEPT ![t] = c] /\ pc[t] = "idle"
         /\ UNCHANGED <<gpu, done, last_issued, completed, answered>>
      BY <2>1, <3>1, <3>2 DEF BeginWait, Begin, MayCall, Goto
    <3>4. c.index = i
      BY <3>2 DEF NoCall
    <3>5. i \in AcceptedIndices
      BY <3>1, AcceptedIs DEF CallInv
    <3>6. Awaited[t] = 0 /\ Awaited' = [Awaited EXCEPT ![t] = i]
      <4>1. pc[t] \notin Waiting /\ "wait_test" \in Waiting /\ "wait_test" \in Labels
        BY <3>3 DEF Labels, Waiting
      <4>2. Awaited[t] = 0 /\ Awaited' = [Awaited EXCEPT ![t] = c.index]
        BY <3>3, <4>1, AwaitMoves
      <4>. QED BY <3>4, <4>2
    <3>7. LastOver' = LastOver /\ AcceptedIndices' = AcceptedIndices
      BY <3>3, SameOver DEF Over, AcceptedIndices
    <3>8. Timeline!Await(t, i)
      BY <3>3, <3>6, <3>7 DEF Timeline!Await
    <3>. QED BY <3>5, <3>8 DEF HalStep, Timeline!HalNext
  <2>2. CASE WaitTest(t)
    <3>0. /\ pc[t] = "wait_test" /\ call[t].index # 0
         /\ UNCHANGED <<gpu, done, last_issued, completed>>
      BY <2>2, <1>0 DEF WaitTest, PcOK
    <3>00. LastOver' = LastOver /\ AcceptedIndices' = AcceptedIndices
      BY <3>0, SameOver DEF Over, AcceptedIndices
    <3>1. CASE call[t].index <= completed
      <4>1. /\ pc' = [pc EXCEPT ![t] = "try_harvest"] /\ call' = [call EXCEPT ![t] = call[t]]
           /\ answered' = answered \cup {call[t].index}
        BY <2>2, <1>0, <3>1 DEF WaitTest, Goto, CallsType, TrackerType
      <4>2. Awaited[t] = call[t].index /\ Awaited' = [Awaited EXCEPT ![t] = 0]
        BY <3>0, <4>1, AwaitMoves DEF Labels, Waiting
      <4>3. Timeline!Answer(t)
        BY <3>0, <3>00, <3>1, <4>1, <4>2 DEF Timeline!Answer
      <4>. QED BY <4>3 DEF HalStep, Timeline!HalNext
    <3>2. ASSUME NEW f, Goto(t, "wait"), call' = [call EXCEPT ![t].fence = f], answered' = answered
          PROVE  HalStep
      <4>1. PICK c : c = [call[t] EXCEPT !.fence = f]
        OBVIOUS
      <4>2. pc' = [pc EXCEPT ![t] = "wait"] /\ call' = [call EXCEPT ![t] = c] /\ c.index = call[t].index
        BY <1>0, <3>2, <4>1 DEF Goto, CallsType, CallType
      <4>3. Awaited' = Awaited
        BY <3>0, <4>2, AwaitMoves DEF Labels, Waiting
      <4>. QED BY <3>2, <4>3, CountsImplement
    <3>3. CASE Return(t) /\ UNCHANGED answered
      <4>1. pc' = [pc EXCEPT ![t] = "idle"] /\ call' = [call EXCEPT ![t] = NoCall]
        BY <3>3 DEF Return
      <4>2. Awaited[t] = call[t].index /\ Awaited' = [Awaited EXCEPT ![t] = 0]
        BY <3>0, <4>1, AwaitMoves DEF Labels, Waiting
      <4>3. Timeline!Refuse(t)
        BY <3>0, <3>00, <3>3, <4>2 DEF Timeline!Refuse
      <4>. QED BY <4>3 DEF HalStep, Timeline!HalNext
    <3>. QED BY <2>2, <3>1, <3>2, <3>3 DEF WaitTest
  <2>3. CASE Wait(t) \/ WaitFails(t) \/ RecycleWaited(t) \/ Poll(t) \/ PollFails(t) \/ BeginWaitIdle(t) \/ WaitIdle(t) \/ WaitIdleFails(t)
    <3>1. Awaited' = Awaited /\ answered' = answered
      BY <2>3, <1>0 DEF Wait, Goto, Awaited, CallsType, CallType, Waiting, MayCall, MaySurface, WaitFails, RecycleWaited, Waited, Return, Poll, Begin, PollFails, BeginWaitIdle, WaitIdle, WaitIdleFails
    <3>. QED BY <3>1, CountsImplement
  <2>4. CASE Unpin(t)
    <3>0. /\ pc[t] = "unpin" /\ call[t].index # 0 /\ UNCHANGED <<gpu, done, last_issued>>
      BY <2>4, <1>0 DEF Unpin, PcOK
    <3>00. LastOver' = LastOver /\ AcceptedIndices' = AcceptedIndices
      BY <3>0, SameOver DEF Over, AcceptedIndices
    <3>000. Awaited[t] = call[t].index /\ Awaited' = [Awaited EXCEPT ![t] = 0]
      <4>1. CASE Return(t)
        <5>1. pc' = [pc EXCEPT ![t] = "idle"] /\ call' = [call EXCEPT ![t] = NoCall]
          BY <4>1 DEF Return
        <5>. QED BY <3>0, <5>1, AwaitMoves DEF Labels, Waiting
      <4>2. CASE Goto(t, "try_harvest") /\ UNCHANGED call
        <5>1. pc' = [pc EXCEPT ![t] = "try_harvest"] /\ call' = [call EXCEPT ![t] = call[t]]
          BY <4>2 DEF Goto, CallsType
        <5>. QED BY <3>0, <5>1, AwaitMoves DEF Labels, Waiting
      <4>3. CASE Goto(t, "recycle_waited") /\ UNCHANGED call
        <5>1. pc' = [pc EXCEPT ![t] = "recycle_waited"] /\ call' = [call EXCEPT ![t] = call[t]]
          BY <4>3 DEF Goto, CallsType
        <5>. QED BY <3>0, <5>1, AwaitMoves DEF Labels, Waiting
      <4>. QED BY <2>4, <4>1, <4>2, <4>3 DEF Unpin, Waited
    <3>1. CASE call[t].failed
      <4>1. Timeline!Refuse(t)
        BY <2>4, <3>0, <3>00, <3>000, <3>1 DEF Unpin, Timeline!Refuse
      <4>. QED BY <4>1 DEF HalStep, Timeline!HalNext
    <3>2. CASE ~call[t].failed
      <4>0. PICK i : i = call[t].index
        OBVIOUS
      <4>1. PICK k \in 1 .. done : gpu[k].index = i
        BY <1>0, <3>0, <3>2, <4>0 DEF CallOK
      <4>2. k \in DOMAIN gpu /\ k <= done /\ i # 0 /\ i \in Nat
        BY <1>0, <3>0, <4>0, <4>1 DEF TypeOK, GpuType
      <4>3. Past(i)
        BY <4>1, <4>2, PastOf DEF Base
      <4>4. /\ completed' = MaxOf(completed, i) /\ answered' = answered \cup {i} /\ completed \in Nat
        BY <2>4, <3>2, <4>0 DEF Unpin, MarkCompleted, TrackerType
      <4>5. CASE i <= completed
        <5>1. completed' = completed
          BY <4>2, <4>4, <4>5 DEF MaxOf
        <5>2. Timeline!Answer(t)
          BY <3>0, <3>00, <3>000, <4>0, <4>4, <4>5, <5>1 DEF Timeline!Answer
        <5>. QED BY <5>2 DEF HalStep, Timeline!HalNext
      <4>6. CASE ~(i <= completed)
        <5>1. completed' = i /\ completed < i
          BY <4>2, <4>4, <4>6 DEF MaxOf
        <5>2. i <= last_issued /\ \A j \in AcceptedIndices : j <= i => j <= LastOver
          BY <4>3, LastOverFacts DEF Past
        <5>3. Timeline!Report(i)
          BY <5>1, <5>2 DEF Timeline!Report
        <5>4. Timeline!Answer(t)
          BY <3>0, <3>00, <3>000, <4>0, <4>4, <5>3 DEF Timeline!Answer
        <5>. QED BY <5>4 DEF HalStep, Timeline!HalNext
      <4>. QED BY <4>5, <4>6
    <3>. QED BY <3>1, <3>2
  <2>. QED BY <1>3, <2>1, <2>2, <2>3, <2>4 DEF WaitStep
<1>4. ASSUME NEW t \in Threads, SurfaceStep(t) PROVE HalStep
  <2>1. PICK l \in SurfaceLabels, c \in CallType : Moves(t, l, c)
    BY <1>4, SurfaceMove
  <2>2. pc[t] \in SurfaceLabels /\ answered' = answered
    BY <1>4, SurfaceMove
  <2>3. Awaited' = Awaited
    BY <2>1, <2>2 DEF Moves, SurfaceLabels, Awaited, CallsType, Waiting
  <2>. QED BY <2>2, <2>3, CountsImplement
<1>5. CASE GpuFinish
  <2>1. Awaited' = Awaited /\ answered' = answered
    BY <1>5, <1>0 DEF GpuFinish, Awaited, CallsType, CallType, Waiting, MayCall, MaySurface
  <2>. QED BY <2>1, CountsImplement
<1>6. ASSUME NEW i \in Images, ImageFree(i) PROVE HalStep
  <2>1. Awaited' = Awaited /\ answered' = answered
    BY <1>6, <1>0 DEF ImageFree, Awaited, CallsType, CallType, Waiting, MayCall, MaySurface
  <2>. QED BY <2>1, CountsImplement
<1>7. CASE Drop
  <2>1. Awaited' = Awaited /\ answered' = answered
    BY <1>7, <1>0 DEF Drop, Awaited, CallsType, CallType, Waiting, MayCall, MaySurface
  <2>. QED BY <2>1, CountsImplement
<1>8. CASE UNCHANGED vars
  BY <1>8, CountsImplement DEF vars, Awaited, Waiting
<1>. QED BY <1>1, <1>2, <1>3, <1>4, <1>5, <1>6, <1>7, <1>8 DEF Next, Ended, SurfaceStep

\* Every step of the queue is a step that HalTimeline allows, or none: harvests out
\* of order, evictions, waits and polls report and answer only what has finished,
\* and a failing call reports nothing new.
\* (vulkan/queue.rs: completed_submission_index, wait_for_submission, wait_idle)
THEOREM TimelineImplemented == Spec => ImplementsTimeline
<1>1. Init => Timeline!HalInit
  <2>1. SUFFICES ASSUME Init PROVE Timeline!HalInit
    OBVIOUS
  <2>2. gpu = <<>> /\ done = 0 /\ last_issued = 0 /\ completed = 0 /\ answered = {}
    BY <2>1 DEF Init
  <2>3. AcceptedIndices = {}
    BY <2>2 DEF AcceptedIndices
  <2>4. Over = {0}
    BY <2>2 DEF Over
  <2>5. LastOver = 0
    BY <2>4 DEF LastOver
  <2>6. Awaited = [t \in Threads |-> 0]
    BY <2>1 DEF Init, Awaited, Waiting
  <2>. QED BY <2>2, <2>3, <2>5, <2>6 DEF Timeline!HalInit
<1>2. IInv /\ [Next]_vars => [Timeline!HalNext]_(Timeline!hal_vars)
  <2>1. SUFFICES ASSUME IInv, [Next]_vars PROVE HalStep
    BY DEF HalStep
  <2>2. Base /\ CallInv
    BY <2>1 DEF IInv, Base, LifeInv
  <2>. QED BY <2>1, <2>2, TimelineStep
<1>. QED BY <1>1, <1>2, FenceInvariance, PTL DEF Spec, ImplementsTimeline, Timeline!HalSpec

-----------------------------------------------------------------------------
(* Layouts                                                                 *)

LEMMA ChainAppend ==
  ASSUME GpuType, ChainInv, NEW w \in WorkType, gpu' = Append(gpu, w), w.from = layout,
         layout' = w.to
  PROVE  LayoutsChain' /\ layout' = IF gpu' = <<>> THEN "undefined" ELSE gpu'[Len(gpu')].to
<1>1. /\ gpu' \in Seq(WorkType)
      /\ Len(gpu) \in Nat /\ Len(gpu') = Len(gpu) + 1
      /\ DOMAIN gpu = 1 .. Len(gpu) /\ DOMAIN gpu' = 1 .. Len(gpu) + 1
      /\ gpu'[Len(gpu) + 1] = w
      /\ \A k \in DOMAIN gpu : gpu'[k] = gpu[k]
  BY GpuAppend
<1>2. gpu' # <<>> /\ (gpu = <<>> <=> Len(gpu) = 0)
  BY <1>1 DEF GpuType
<1>3. ASSUME NEW k \in DOMAIN gpu'
      PROVE  gpu'[k].from = IF k = 1 THEN "undefined" ELSE gpu'[k - 1].to
  <2>1. CASE k = Len(gpu) + 1
    <3>1. CASE Len(gpu) = 0
      BY <1>1, <1>2, <2>1, <3>1 DEF ChainInv
    <3>2. CASE Len(gpu) # 0
      <4>1. k # 1 /\ k - 1 = Len(gpu) /\ Len(gpu) \in DOMAIN gpu
        BY <1>1, <2>1, <3>2
      <4>2. layout = gpu[Len(gpu)].to
        BY <1>2, <3>2 DEF ChainInv
      <4>. QED BY <1>1, <2>1, <4>1, <4>2
    <3>. QED BY <3>1, <3>2
  <2>2. CASE k \in DOMAIN gpu
    <3>1. k = 1 \/ k - 1 \in DOMAIN gpu
      BY <1>1, <2>2
    <3>. QED BY <1>1, <2>2, <3>1 DEF ChainInv, LayoutsChain
  <2>. QED BY <1>1, <2>1, <2>2
<1>. QED BY <1>1, <1>2, <1>3 DEF LayoutsChain

LEMMA ChainStep ==
  ASSUME TypeOK, PcInv, ChainInv, [Next]_vars
  PROVE  ChainInv'
<1>. CallsType /\ pc \in [Threads -> Labels] /\ call \in [Threads -> CallType] /\ NoThread \notin Threads
  BY VulkanAssumption DEF TypeOK, CallsType
<1> DEFINE Still == /\ UNCHANGED <<gpu, layout>>
                    /\ \A u \in Threads : pc'[u] \in Excluding =>
                          pc'[u] = pc[u] /\ call'[u].from = call[u].from /\ queue_access' = queue_access
<1>s. Still => ChainInv'
  BY DEF ChainInv, LayoutsChain, Excluding
<1>. HIDE DEF Still

<1>1. ASSUME NEW t \in Threads, SubmitStep(t) PROVE ChainInv'
  <2>1. ASSUME NEW op \in Ops, BeginSubmit(t, op) PROVE ChainInv'
    BY <1>s, <2>1 DEF Still, Excluding, NoCall, BeginSubmit, Begin, Goto, TakePool
  <2>2. CASE Record(t)
    <3>1. /\ UNCHANGED <<gpu, layout>>
          /\ \A u \in Threads \ {t} : pc'[u] = pc[u] /\ call'[u] = call[u]
      BY <2>2 DEF Record, Goto
    <3>. QED BY <3>1, <2>2 DEF ChainInv, LayoutsChain, Excluding, NoCall, Record, Goto
  <2>3. CASE RecordFails(t)
    BY <1>s, <2>3 DEF Still, Excluding, NoCall, RecordFails, Goto
  <2>4. CASE Submit(t)
    <3>1. PICK w \in WorkType : gpu' = Append(gpu, w) /\ w.from = call[t].from /\ w.to = layout'
      BY <2>4, SubmitShape
    <3>2. w.from = layout
      BY <3>1, <2>4 DEF ChainInv, Submit
    <3>3. LayoutsChain' /\ layout' = IF gpu' = <<>> THEN "undefined" ELSE gpu'[Len(gpu')].to
      BY <3>1, <3>2, ChainAppend DEF TypeOK
    <3>4. \A u \in Threads : pc'[u] \notin Excluding
      BY <2>4 DEF Submit, Goto, ChainInv, Excluding
    <3>. QED BY <3>3, <3>4 DEF ChainInv, Excluding
  <2>5. CASE SubmitFails(t)
    <3>1. /\ UNCHANGED <<gpu, layout>>
          /\ \A u \in Threads \ {t} : pc'[u] = pc[u] /\ call'[u] = call[u]
      BY <2>5 DEF SubmitFails, Goto, TakeFence, Fails
    <3>. QED
      BY <3>1, <2>5 DEF ChainInv, LayoutsChain, Excluding, NoCall, SubmitFails, Goto, TakeFence, Fails
  <2>6. CASE Cleanup(t)
    BY <1>s, <2>6 DEF Still, Excluding, NoCall, Cleanup, Return
  <2>. QED BY <1>1, <2>1, <2>2, <2>3, <2>4, <2>5, <2>6 DEF SubmitStep
<1>2. ASSUME NEW t \in Threads, RetireStep(t) PROVE ChainInv'
  <2>1. CASE LockRetire(t)
    BY <1>s, <2>1 DEF Still, Excluding, NoCall, LockRetire, Goto
  <2>2. CASE TryHarvest(t)
    BY <1>s, <2>2 DEF Still, Excluding, NoCall, TryHarvest, Goto, Return
  <2>3. CASE HarvestFrame(t)
    <3>1. PopFrame(t) /\ UNCHANGED <<gpu, layout, queue_access>>
      BY <2>3 DEF HarvestFrame
    <3>. QED BY <1>s, <3>1 DEF Still, Excluding, PopFrame, Goto
  <2>4. CASE Track(t)
    <3>1. call[t].resume \notin Excluding
      BY DEF CallType, Excluding
    <3>. QED BY <1>s, <3>1, <2>4 DEF Still, Excluding, Track, Goto, Resume
  <2>5. CASE RecycleOld(t)
    <3>1. call[t].resume \notin Excluding
      BY DEF CallType, Excluding
    <3>. QED BY <1>s, <3>1, <2>5 DEF Still, Excluding, RecycleOld, Goto, Resume
  <2>6. CASE HarvestEnds(t)
    BY <1>s, <2>6 DEF Still, Excluding, NoCall, HarvestEnds, Goto, Return
  <2>7. CASE HarvestFails(t)
    BY <1>s, <2>7 DEF Still, Excluding, NoCall, HarvestFails, Return
  <2>8. CASE EvictFrame(t)
    <3>1. PopFrame(t) /\ UNCHANGED <<gpu, layout, queue_access>>
      BY <2>8 DEF EvictFrame
    <3>. QED BY <1>s, <3>1 DEF Still, Excluding, PopFrame, Goto
  <2>9. CASE EvictFails(t)
    BY <1>s, <2>9 DEF Still, Excluding, NoCall, EvictFails, Return
  <2>10. CASE SubmitReturns(t)
    BY <1>s, <2>10 DEF Still, Excluding, NoCall, SubmitReturns, Return, Goto
  <2>. QED BY <1>2, <2>1, <2>2, <2>3, <2>4, <2>5, <2>6, <2>7, <2>8, <2>9, <2>10 DEF RetireStep
<1>3. ASSUME NEW t \in Threads, WaitStep(t) PROVE ChainInv'
  <2>1. CASE BeginWait(t)
    BY <1>s, <2>1 DEF Still, Excluding, NoCall, BeginWait, Begin, Goto, MayCall
  <2>2. CASE WaitTest(t)
    BY <1>s, <2>2 DEF Still, Excluding, NoCall, WaitTest, Goto, Return
  <2>3. CASE Wait(t)
    BY <1>s, <2>3 DEF Still, Excluding, NoCall, Wait, Goto
  <2>4. CASE WaitFails(t)
    BY <1>s, <2>4 DEF Still, Excluding, NoCall, WaitFails, Goto
  <2>5. CASE Unpin(t)
    BY <1>s, <2>5 DEF Still, Excluding, NoCall, Unpin, Goto, Waited, Return
  <2>6. CASE RecycleWaited(t)
    BY <1>s, <2>6 DEF Still, Excluding, NoCall, RecycleWaited, Waited, Goto, Return
  <2>7. CASE Poll(t)
    BY <1>s, <2>7 DEF Still, Excluding, NoCall, Poll, Begin, Goto
  <2>8. CASE PollFails(t)
    BY <1>s, <2>8 DEF Still, Excluding, NoCall, PollFails
  <2>9. CASE BeginWaitIdle(t)
    <3>1. /\ UNCHANGED <<gpu, layout>>
          /\ \A u \in Threads \ {t} : pc'[u] = pc[u] /\ call'[u] = call[u]
      BY <2>9 DEF BeginWaitIdle, Begin, Goto
    <3>. QED BY <3>1, <2>9 DEF ChainInv, LayoutsChain, Excluding, NoCall, BeginWaitIdle, Begin, Goto
  <2>10. CASE WaitIdle(t)
    <3>1. /\ UNCHANGED <<gpu, layout>>
          /\ \A u \in Threads \ {t} : pc'[u] = pc[u] /\ call'[u] = call[u]
      BY <2>10 DEF WaitIdle, Goto
    <3>. QED BY <3>1, <2>10 DEF ChainInv, LayoutsChain, Excluding, NoCall, WaitIdle, Goto
  <2>11. CASE WaitIdleFails(t)
    <3>1. /\ UNCHANGED <<gpu, layout>>
          /\ \A u \in Threads \ {t} : pc'[u] = pc[u] /\ call'[u] = call[u]
      BY <2>11 DEF WaitIdleFails, Return
    <3>. QED BY <3>1, <2>11 DEF ChainInv, LayoutsChain, Excluding, NoCall, WaitIdleFails, Return
  <2>. QED BY <1>3, <2>1, <2>2, <2>3, <2>4, <2>5, <2>6, <2>7, <2>8, <2>9, <2>10, <2>11 DEF WaitStep
<1>4. ASSUME NEW t \in Threads, AcquireStep(t) PROVE ChainInv'
  <2>1. CASE GetCurrentTexture(t)
    BY <1>s, <2>1 DEF Still, Excluding, NoCall, GetCurrentTexture, Goto
  <2>2. CASE AcquireImage(t)
    BY <1>s, <2>2 DEF Still, Excluding, NoCall, AcquireImage, Goto
  <2>3. CASE AcquireFails(t)
    BY <1>s, <2>3 DEF Still, Excluding, NoCall, AcquireFails, Return
  <2>4. CASE PublishAcquire(t)
    BY <1>s, <2>4 DEF Still, Excluding, NoCall, PublishAcquire, Return
  <2>5. CASE AcquireBlocked(t)
    BY <1>s, <2>5 DEF Still, Excluding, NoCall, AcquireBlocked, vars
  <2>. QED BY <1>4, <2>1, <2>2, <2>3, <2>4, <2>5 DEF AcquireStep
<1>5. ASSUME NEW t \in Threads, PresentStep(t) PROVE ChainInv'
  <2>1. CASE Present(t)
    BY <1>s, <2>1 DEF Still, Excluding, NoCall, Present, Goto
  <2>2. CASE PresentFlushFails(t)
    BY <1>s, <2>2 DEF Still, Excluding, NoCall, PresentFlushFails
  <2>3. CASE TakePending(t)
    BY <1>s, <2>3 DEF Still, Excluding, NoCall, TakePending, Goto
  <2>4. CASE Transition(t)
    <3>1. PICK w \in WorkType : gpu' = Append(gpu, w) /\ w.from = layout /\ w.to = layout'
      BY <2>4, PresentShape
    <3>2. LayoutsChain' /\ layout' = IF gpu' = <<>> THEN "undefined" ELSE gpu'[Len(gpu')].to
      BY <3>1, ChainAppend DEF TypeOK
    <3>3. \A u \in Threads : (pc'[u] \in Excluding => queue_access' = u) /\ pc'[u] # "submit"
      BY <2>4 DEF Transition, Goto, Return, ChainInv, Excluding
    <3>. QED BY <3>2, <3>3 DEF ChainInv, Excluding
  <2>5. CASE TransitionFails(t)
    BY <1>s, <2>5 DEF Still, Excluding, NoCall, TransitionFails, Goto
  <2>6. CASE Recover(t)
    <3>1. PICK w \in WorkType : gpu' = Append(gpu, w) /\ w.from = layout /\ w.to = layout'
      BY <2>6, PresentShape
    <3>2. LayoutsChain' /\ layout' = IF gpu' = <<>> THEN "undefined" ELSE gpu'[Len(gpu')].to
      BY <3>1, ChainAppend DEF TypeOK
    <3>3. \A u \in Threads : (pc'[u] \in Excluding => queue_access' = u) /\ pc'[u] # "submit"
      BY <2>6 DEF Recover, Goto, Return, ChainInv, Excluding
    <3>. QED BY <3>2, <3>3 DEF ChainInv, Excluding
  <2>7. CASE Ring(t)
    <3>1. /\ UNCHANGED <<gpu, layout, call>> /\ pc' = [pc EXCEPT ![t] = "queue_present"] /\ pc[t] = "ring"
      BY <2>7 DEF Ring, Goto
    <3>. QED BY <3>1, <2>7 DEF ChainInv, LayoutsChain, Excluding
  <2>8. CASE QueuePresent(t)
    BY <1>s, <2>8 DEF Still, Excluding, NoCall, QueuePresent, Return
  <2>. QED BY <1>5, <2>1, <2>2, <2>3, <2>4, <2>5, <2>6, <2>7, <2>8 DEF PresentStep
<1>6. ASSUME NEW t \in Threads, ConfigureStep(t) PROVE ChainInv'
  <2>1. CASE Configure(t)
    BY <1>s, <2>1 DEF Still, Excluding, NoCall, Configure, Goto
  <2>2. CASE TeardownIdle(t)
    BY <1>s, <2>2 DEF Still, Excluding, NoCall, TeardownIdle, Goto
  <2>3. CASE DestroySync(t)
    BY <1>s, <2>3 DEF Still, Excluding, NoCall, DestroySync, Goto
  <2>4. CASE ResetPending(t)
    BY <1>s, <2>4 DEF Still, Excluding, NoCall, ResetPending, Return
  <2>. QED BY <1>6, <2>1, <2>2, <2>3, <2>4 DEF ConfigureStep
<1>7. CASE GpuFinish
  BY <1>s, <1>7 DEF Still, Excluding, NoCall, GpuFinish
<1>8. ASSUME NEW i \in Images, ImageFree(i) PROVE ChainInv'
  BY <1>s, <1>8 DEF Still, Excluding, NoCall, ImageFree
<1>9. CASE Drop
  BY <1>s, <1>9 DEF Still, Excluding, NoCall, Drop
<1>10. CASE UNCHANGED vars
  BY <1>s, <1>10 DEF Still, Excluding, NoCall, vars
<1>. QED BY <1>1, <1>2, <1>3, <1>4, <1>5, <1>6, <1>7, <1>8, <1>9, <1>10 DEF Next, Ended

-----------------------------------------------------------------------------
(* Fences have an owner                                                    *)

LEMMA HomeLift ==
  ASSUME CallsType, HomeInv, NEW t \in Threads, NEW l, NEW c,
         pc' = [pc EXCEPT ![t] = l], call' = [call EXCEPT ![t] = c],
         Follows(t, l, c)
  PROVE  HomeInv'
<1>1. pc'[t] = l /\ call'[t] = c
      /\ \A u \in Threads : u # t => pc'[u] = pc[u] /\ call'[u] = call[u]
  BY DEF CallsType
<1>2. SUFFICES ASSUME NEW f \in Fences, fence_state'[f] # "absent"
               PROVE  Placed(f)' \/ \E u \in Threads : Keeps(pc'[u], call'[u], f)
  BY DEF HomeInv
<1>3. CASE Placed(f)' \/ Keeps(l, c, f)
  BY <1>1, <1>3
<1>4. CASE fence_state[f] # "absent" /\ ~Placed(f) /\ ~Keeps(pc[t], call[t], f)
  <2>1. PICK u \in Threads : Keeps(pc[u], call[u], f)
    BY <1>4 DEF HomeInv
  <2>. QED BY <1>1, <1>4, <2>1
<1>. QED BY <1>2, <1>3, <1>4 DEF Follows

\* A recycled fence is free or gone.
LEMMA HomeRecycle ==
  ASSUME RecycleType, NEW f \in Fences, RecycleFence(f),
         UNCHANGED <<frames, pending_destroy>>
  PROVE  /\ \A g \in Fences : Placed(g) => Placed(g)'
         /\ fence_state'[f] # "absent" => Placed(f)'
         /\ \A g \in Fences : g # f => fence_state'[g] = fence_state[g]
<1>0. free_fences \in Seq(Fences) /\ fence_state \in [Fences -> States]
  BY DEF RecycleType
<1>1. CASE /\ free_fences' = Append(free_fences, f)
           /\ fence_state' = [fence_state EXCEPT ![f] = "unsignaled"]
  <2>1. /\ DOMAIN free_fences = 1 .. Len(free_fences) /\ Len(free_fences) \in Nat
        /\ DOMAIN free_fences' = 1 .. Len(free_fences) + 1
        /\ free_fences'[Len(free_fences) + 1] = f
        /\ \A k \in DOMAIN free_fences : free_fences'[k] = free_fences[k]
    BY <1>0, <1>1
  <2>2. Free \subseteq Free' /\ f \in Free'
    BY <2>1 DEF Free
  <2>. QED BY <1>0, <1>1, <2>2 DEF Placed
<1>2. CASE /\ free_fences' = free_fences
           /\ fence_state' = [fence_state EXCEPT ![f] = "absent"]
  BY <1>0, <1>2 DEF Placed, Free
<1>. QED BY <1>1, <1>2, RecycleFenceFacts

LEMMA HomeBusy ==
  ASSUME Base, HomeInv, NEW t \in Threads, Busy(t)
  PROVE  HomeInv'
<1>. TypeOK /\ CallsType /\ RecycleType /\ TrackerType /\ PcInv /\ IndexInv /\ LifeInv
  BY DEF Base, TypeOK
<1>0. call[t] \in CallType /\ pc[t] \in Labels
  BY DEF CallsType
<1>1. CASE Submit(t)
  <2>1. PICK f \in Fences :
          /\ TakeFence(f) /\ fence_state' = [fence_state EXCEPT ![f] = "unsignaled"]
          /\ call' = [call EXCEPT ![t].index = last_issued + 1,
                        ![t].frame = [index |-> last_issued + 1, fence |-> f,
                                      pool |-> call[t].pool]]
    BY <1>1, SubmitShape
  <2>2. PICK c : c = [call[t] EXCEPT !.index = last_issued + 1,
                        !.frame = [index |-> last_issued + 1, fence |-> f,
                                   pool |-> call[t].pool]]
    OBVIOUS
  <2>3. call' = [call EXCEPT ![t] = c] /\ pc' = [pc EXCEPT ![t] = "lock_retire"]
        /\ c.frame.fence = f /\ c.frame # None /\ pc[t] = "submit" /\ call[t].frame = None
        /\ UNCHANGED <<frames, pending_destroy>>
    <3>1. call' = [call EXCEPT ![t] = c] /\ c.frame = [index |-> last_issued + 1, fence |-> f,
                                   pool |-> call[t].pool]
      BY <1>0, <2>1, <2>2 DEF CallsType, CallType
    <3>2. [index |-> last_issued + 1, fence |-> f, pool |-> call[t].pool] # None
      <4>1. pc[t] = "submit"
        BY <1>1 DEF Submit
      <4>2. call[t].pool \in Pools /\ last_issued + 1 \in Nat
        BY <4>1, HeldTyped DEF TrackerType
      <4>. QED BY <4>2, VulkanAssumption DEF Frame
    <3>3. call[t].frame = None
      BY <1>1 DEF Submit, PcInv, PcOK
    <3>4. /\ pc' = [pc EXCEPT ![t] = "lock_retire"] /\ pc[t] = "submit"
          /\ UNCHANGED <<frames, pending_destroy>>
      BY <1>1 DEF Submit, Goto
    <3>5. c.frame # None /\ c.frame.fence = f
      BY <3>1, <3>2
    <3>. QED BY <3>1, <3>3, <3>4, <3>5
  <2>4. Free' = Free \ {f}
    BY <2>1, FreshFence
  <2>5. \A g \in Fences : g # f => fence_state'[g] = fence_state[g]
    BY <2>1 DEF RecycleType
  <2>f. Follows(t, "lock_retire", c)
    BY <2>3, <2>4, <2>5 DEF Follows, Keeps, Placed
  <2>. QED BY <2>3, <2>4, <2>5, <2>f, HomeLift
<1>2. CASE SubmitFails(t) /\ call' # call
  <2>1. PICK f \in Fences : /\ TakeFence(f) /\ call' = [call EXCEPT ![t].fence = f]
                            /\ fence_state' = [fence_state EXCEPT ![f] = "unsignaled"]
    BY <1>2 DEF SubmitFails
  <2>2. PICK c : c = [call[t] EXCEPT !.fence = f]
    OBVIOUS
  <2>3. /\ pc' = [pc EXCEPT ![t] = "cleanup"] /\ call' = [call EXCEPT ![t] = c]
        /\ c.frame = call[t].frame /\ c.fence = f /\ pc[t] = "submit"
        /\ UNCHANGED <<frames, pending_destroy>>
    BY <1>0, <1>2, <2>1, <2>2 DEF SubmitFails, Goto, CallsType, CallType
  <2>4. Free' = Free \ {f}
    BY <2>1, FreshFence
  <2>5. \A g \in Fences : g # f => fence_state'[g] = fence_state[g]
    BY <2>1 DEF RecycleType
  <2>f. Follows(t, "cleanup", c)
    BY <2>3, <2>4, <2>5 DEF Follows, Keeps, Placed
  <2>. QED BY <2>3, <2>4, <2>5, <2>f, HomeLift
<1>3. CASE Cleanup(t) /\ call[t].fence # None
  <2>1. PICK f \in Fences : f = call[t].fence /\ RecycleFence(f)
    BY <1>3, HeldTyped DEF Cleanup
  <2>2. /\ pc' = [pc EXCEPT ![t] = "idle"] /\ call' = [call EXCEPT ![t] = NoCall]
        /\ pc[t] = "cleanup" /\ UNCHANGED <<frames, pending_destroy>> /\ call[t].frame = None
    BY <1>3 DEF Cleanup, Return, PcInv, PcOK
  <2>3. \A g \in Fences : Keeps(pc[t], call[t], g) => g = f
    BY <2>1, <2>2 DEF Keeps
  <2>f. Follows(t, "idle", NoCall)
    BY <2>1, <2>2, <2>3, HomeRecycle DEF Follows
  <2>. QED BY <2>1, <2>2, <2>3, HomeRecycle, <2>f, HomeLift
<1>4. CASE HarvestFrame(t) \/ EvictFrame(t)
  <2>1. frames # <<>> /\ PopFrame(t) /\ pc[t] \in {"harvest", "limit"}
        /\ UNCHANGED <<fence_state, free_fences, pending_destroy>>
    BY <1>4, PopTyped DEF HarvestFrame, EvictFrame
  <2>2. PICK x \in Frame : x = FrontFrame
    BY <2>1, PopFacts
  <2>3. PICK c : c = [call[t] EXCEPT !.old = x]
    OBVIOUS
  <2>4. /\ pc' = [pc EXCEPT ![t] = "track"] /\ call' = [call EXCEPT ![t] = c]
        /\ c.frame = call[t].frame /\ c.old = x
    BY <1>0, <2>1, <2>2, <2>3, PopFacts DEF CallType
  <2>5. /\ 1 \in DOMAIN frames /\ DOMAIN frames = 1 .. Len(frames) /\ Len(frames) \in Nat
        /\ DOMAIN frames' = 1 .. Len(frames) - 1 /\ x = frames[1]
        /\ \A k \in DOMAIN frames' : k + 1 \in DOMAIN frames /\ frames'[k] = frames[k + 1]
    BY <2>1, <2>2, PopFacts DEF FrontFrame
  <2>6. ASSUME NEW k \in DOMAIN frames, k # 1
        PROVE  k - 1 \in DOMAIN frames' /\ frames'[k - 1] = frames[k]
    <3>1. k - 1 \in DOMAIN frames' /\ (k - 1) + 1 = k
      BY <2>5, <2>6
    <3>. QED BY <2>5, <3>1
  <2>7. \A g \in Fences : Placed(g) => Placed(g)' \/ x.fence = g
    BY <2>1, <2>5, <2>6 DEF Placed, Free
  <2>f. Follows(t, "track", c)
    BY <2>1, <2>4, <2>7 DEF Follows, Keeps
  <2>. QED BY <2>1, <2>4, <2>7, <2>f, HomeLift
<1>5. CASE Track(t)
  <2>0. call[t].resume \in {"harvest", "limit"} /\ pc[t] = "track"
    BY <1>0, <1>5 DEF CallType, Track
  <2>1. UNCHANGED <<fence_state, free_fences, frames>>
    BY <1>5 DEF Track
  <2>2. CASE pinned[call[t].old.fence] > 0
    <3>1. PICK c : c = [call[t] EXCEPT !.old = None]
      OBVIOUS
    <3>2. /\ pc' = [pc EXCEPT ![t] = call[t].resume] /\ call' = [call EXCEPT ![t] = c]
          /\ c.frame = call[t].frame
          /\ pending_destroy' = pending_destroy \cup {call[t].old.fence}
      BY <1>0, <1>5, <2>2, <3>1 DEF Track, Resume, Goto, CallType
    <3>f. Follows(t, call[t].resume, c)
      BY <2>0, <2>1, <3>2 DEF Follows, Keeps, Placed, Free
    <3>. QED BY <2>0, <2>1, <3>2, <3>f, HomeLift
  <2>3. CASE ~(pinned[call[t].old.fence] > 0)
    <3>1. /\ pc' = [pc EXCEPT ![t] = "recycle_old"] /\ call' = [call EXCEPT ![t] = call[t]]
          /\ UNCHANGED pending_destroy
      BY <1>5, <2>3 DEF Track, Goto, CallsType
    <3>f. Follows(t, "recycle_old", call[t])
      BY <2>0, <2>1, <3>1 DEF Follows, Keeps, Placed, Free
    <3>. QED BY <2>0, <2>1, <3>1, <3>f, HomeLift
  <2>. QED BY <2>2, <2>3
<1>6. CASE RecycleOld(t)
  <2>1. PICK f \in Fences : f = call[t].old.fence /\ RecycleFence(f)
    BY <1>6, HeldTyped DEF RecycleOld
  <2>2. PICK c : c = [call[t] EXCEPT !.old = None]
    OBVIOUS
  <2>3. /\ pc' = [pc EXCEPT ![t] = call[t].resume] /\ call' = [call EXCEPT ![t] = c]
        /\ c.frame = call[t].frame /\ pc[t] = "recycle_old"
        /\ UNCHANGED <<frames, pending_destroy>>
    BY <1>0, <1>6, <2>2 DEF RecycleOld, Resume, Goto, CallType
  <2>4. \A g \in Fences : Keeps(pc[t], call[t], g) => g = f \/ Keeps(call[t].resume, c, g)
    BY <2>1, <2>3 DEF Keeps
  <2>f. Follows(t, call[t].resume, c)
    BY <2>1, <2>3, <2>4, HomeRecycle DEF Follows
  <2>. QED BY <2>1, <2>3, <2>4, HomeRecycle, <2>f, HomeLift
<1>7. CASE (HarvestEnds(t) \/ HarvestFails(t)) /\ call[t].frame # None
  <2>1. PICK x \in Frame : x = call[t].frame /\ InsertFrame(x)
    BY <1>7, HeldTyped DEF HarvestEnds, HarvestFails
  <2>2. PICK at \in 1 .. Len(frames) + 1 :
          /\ Len(frames) \in Nat /\ DOMAIN frames = 1 .. Len(frames)
          /\ DOMAIN frames' = 1 .. Len(frames) + 1 /\ frames'[at] = x
          /\ \A k \in 1 .. at - 1 : frames'[k] = frames[k]
          /\ \A k \in at + 1 .. Len(frames) + 1 : frames'[k] = frames[k - 1]
    BY <2>1, InsertFacts
  <2>3. ASSUME NEW m \in DOMAIN frames
        PROVE  \E k \in DOMAIN frames' : frames'[k] = frames[m]
    <3>1. CASE m < at
      BY <2>2, <3>1
    <3>2. CASE m >= at
      <4>1. m + 1 \in at + 1 .. Len(frames) + 1 /\ m + 1 \in DOMAIN frames' /\ (m + 1) - 1 = m
        BY <2>2, <3>2
      <4>. QED BY <2>2, <4>1
    <3>. QED BY <2>2, <3>1, <3>2
  <2>4. /\ pc[t] = "harvest" /\ UNCHANGED <<fence_state, free_fences, pending_destroy>>
        /\ at \in DOMAIN frames'
    BY <1>7, <2>2 DEF HarvestEnds, HarvestFails
  <2>5. \A g \in Fences : (Placed(g) => Placed(g)') /\ (x.fence = g => Placed(g)')
    BY <2>2, <2>3, <2>4 DEF Placed, Free
  <2>6. PICK l, c : pc' = [pc EXCEPT ![t] = l] /\ call' = [call EXCEPT ![t] = c]
    BY <1>7 DEF HarvestEnds, HarvestFails, Goto, Return
  <2>f. Follows(t, l, c)
    BY <2>1, <2>4, <2>5, <2>6 DEF Follows, Keeps
  <2>. QED BY <2>1, <2>4, <2>5, <2>6, <2>f, HomeLift
<1>8. CASE WaitTest(t) /\ Goto(t, "wait")
  <2>1. PICK c : pc' = [pc EXCEPT ![t] = "wait"] /\ call' = [call EXCEPT ![t] = c]
                 /\ c.frame = call[t].frame /\ pc[t] = "wait_test"
    <3>1. pc'[t] = "wait" /\ "wait" # "try_harvest" /\ "wait" # "idle"
      BY <1>8 DEF Goto, CallsType
    <3>2. PICK f : call' = [call EXCEPT ![t].fence = f]
      BY <1>8, <3>1 DEF WaitTest, Goto, Return, CallsType
    <3>3. PICK c : c = [call[t] EXCEPT !.fence = f]
      OBVIOUS
    <3>. QED BY <1>0, <1>8, <3>2, <3>3 DEF WaitTest, Goto, CallType
  <2>2. UNCHANGED <<fence_state, free_fences, pending_destroy, frames>>
    BY <1>8 DEF WaitTest
  <2>f. Follows(t, "wait", c)
    BY <2>1, <2>2 DEF Follows, Keeps, Placed, Free
  <2>. QED BY <2>1, <2>2, <2>f, HomeLift
<1>9. CASE Unpin(t)
  <2>1. PICK f \in Fences : f = call[t].fence
    BY <1>9, HeldTyped DEF Unpin
  <2>2. /\ pc[t] = "unpin" /\ call[t].frame = None
        /\ UNCHANGED <<frames, fence_state, free_fences>>
    BY <1>9 DEF Unpin, PcInv, PcOK
  <2>3. CASE pinned[f] = 1 /\ f \in pending_destroy
    <3>1. /\ pending_destroy' = pending_destroy \ {f}
          /\ pc' = [pc EXCEPT ![t] = "recycle_waited"] /\ call' = [call EXCEPT ![t] = call[t]]
      BY <1>9, <2>1, <2>3 DEF Unpin, Goto, CallsType
    <3>f. Follows(t, "recycle_waited", call[t])
      BY <2>1, <2>2, <3>1 DEF Follows, Keeps, Placed, Free
    <3>. QED BY <2>1, <2>2, <3>1, <3>f, HomeLift
  <2>4. CASE ~(pinned[f] = 1 /\ f \in pending_destroy)
    <3>1. Waited(t) /\ UNCHANGED pending_destroy
      BY <1>9, <2>1, <2>4 DEF Unpin
    <3>2. call = [call EXCEPT ![t] = call[t]]
      BY DEF CallsType
    <3>3. PICK l, c : pc' = [pc EXCEPT ![t] = l] /\ call' = [call EXCEPT ![t] = c]
      BY <3>1, <3>2 DEF Waited, Return, Goto
    <3>f. Follows(t, l, c)
      BY <2>2, <3>1, <3>3 DEF Follows, Keeps, Placed, Free
    <3>. QED BY <2>2, <3>1, <3>3, <3>f, HomeLift
  <2>. QED BY <2>3, <2>4
<1>10. CASE RecycleWaited(t)
  <2>1. PICK f \in Fences : f = call[t].fence /\ RecycleFence(f)
    BY <1>10, HeldTyped DEF RecycleWaited
  <2>2. /\ pc[t] = "recycle_waited" /\ call[t].frame = None
        /\ UNCHANGED <<frames, pending_destroy>>
    BY <1>10 DEF RecycleWaited, PcInv, PcOK
  <2>3. \A g \in Fences : Keeps(pc[t], call[t], g) => g = f
    BY <2>1, <2>2 DEF Keeps
  <2>4. call = [call EXCEPT ![t] = call[t]]
    BY DEF CallsType
  <2>5. PICK l, c : pc' = [pc EXCEPT ![t] = l] /\ call' = [call EXCEPT ![t] = c]
    BY <1>10, <2>4 DEF RecycleWaited, Waited, Return, Goto
  <2>f. Follows(t, l, c)
    BY <2>1, <2>2, <2>3, <2>5, HomeRecycle DEF Follows
  <2>. QED BY <2>1, <2>2, <2>3, <2>5, HomeRecycle, <2>f, HomeLift
<1>. QED BY <1>1, <1>2, <1>3, <1>4, <1>5, <1>6, <1>7, <1>8, <1>9, <1>10 DEF Busy

LEMMA HomeStep ==
  ASSUME Base, HomeInv, [Next]_vars
  PROVE  HomeInv'
<1>. TypeOK /\ CallsType /\ RecycleType /\ PcInv /\ IndexInv /\ LifeInv
  BY DEF Base, TypeOK
<1>1. CASE Quiet
  <2>1. UNCHANGED <<fence_state, free_fences, pending_destroy, frames>>
    BY <1>1 DEF Quiet
  <2>2. ASSUME NEW t \in Threads, NEW f, Keeps(pc[t], call[t], f)
        PROVE  Keeps(pc'[t], call'[t], f) \/ f = None
    <3>1. Same(t)
      BY <1>1 DEF Quiet
    <3>. QED BY <2>2, <3>1 DEF Same, Keeps, Failed, Waiter, Popping
  <2>. QED BY <2>1, <2>2, VulkanAssumption DEF HomeInv, Placed, Free
<1>2. CASE GpuFinish
  <2>1. UNCHANGED <<free_fences, pending_destroy, frames, pc, call>>
    BY <1>2 DEF GpuFinish
  <2>2. CASE UNCHANGED fence_state
    BY <2>1, <2>2 DEF HomeInv, Placed, Free
  <2>3. CASE ~UNCHANGED fence_state
    <3>1. PICK k \in done + 1 .. Len(gpu) :
            gpu[k].index # 0 /\ fence_state' = [fence_state EXCEPT ![gpu[k].fence] = "signaled"]
      <4>1. gpu \in Seq(WorkType) /\ done \in Nat /\ Len(gpu) \in Nat
        BY DEF TypeOK, GpuType
      <4>. QED BY <1>2, <2>3, <4>1 DEF GpuFinish
    <3>2. <<gpu[k].index, gpu[k].fence>> \in Framed \cup Handed
      BY <3>1, RunningUse
    <3>3. Placed(gpu[k].fence) \/ \E t \in Threads : Keeps(pc[t], call[t], gpu[k].fence)
      BY <3>2 DEF Framed, Handed, Key, Placed, Keeps
    <3>4. \A f \in Fences : f # gpu[k].fence => fence_state'[f] = fence_state[f]
      BY <3>1 DEF RecycleType
    <3>. QED BY <2>1, <3>3, <3>4 DEF HomeInv, Placed, Free
  <2>. QED BY <2>2, <2>3
<1>3. CASE Drop
  <2>1. \A t \in Threads : pc[t] = "idle" /\ call[t].frame = None
    BY <1>3 DEF Drop, PcInv, PcOK
  <2>2. \A f \in Fences : Pins(f) = {}
    BY <2>1 DEF Pins, Looking
  <2>3. ASSUME NEW f \in pending_destroy PROVE FALSE
    <3>1. f \in Fences /\ pinned[f] > 0 /\ pinned[f] = Cardinality(Pins(f))
      BY DEF TypeOK, TrackerType, LifeInv, PinInv
    <3>. QED BY <2>2, <3>1, FS_EmptySet
  <2>4. ASSUME NEW f \in Fences PROVE fence_state'[f] = "absent"
    <3>1. fence_state' = [g \in Fences |->
            IF g \in {fr.fence : fr \in {frames[k] : k \in DOMAIN frames}} \cup ToSet(free_fences)
              THEN "absent" ELSE fence_state[g]]
      BY <1>3 DEF Drop
    <3>2. fence_state[f] = "absent" \/ f \in Free \/ \E k \in DOMAIN frames : frames[k].fence = f
      BY <2>1, <2>3 DEF HomeInv, Placed, Keeps
    <3>3. Free = ToSet(free_fences)
      BY DEF Free, ToSet
    <3>. QED BY <3>1, <3>2, <3>3
  <2>. QED BY <2>4 DEF HomeInv
<1>. QED BY <1>1, <1>2, <1>3, HomeBusy, QuietStep

-----------------------------------------------------------------------------
(* Command pools have one owner                                            *)

LEMMA PoolTypes ==
  ASSUME TypeOK
  PROVE  /\ FreePools \subseteq Pools /\ StoredPools \subseteq Pools /\ live_pools \subseteq Pools
         /\ free_pools \in Seq(Pools) /\ DOMAIN free_pools = 1 .. Len(free_pools)
         /\ Len(free_pools) \in Nat
         /\ frames \in Seq(Frame) /\ Stored \subseteq Frame
         /\ \A x \in Frame : x.pool \in Pools
<1>1. free_pools \in Seq(Pools) /\ frames \in Seq(Frame) /\ live_pools \subseteq Pools
  BY DEF TypeOK, RecycleType, TrackerType
<1>2. Stored \subseteq Frame
  BY <1>1 DEF Stored
<1>3. \A x \in Frame : x.pool \in Pools
  BY DEF Frame
<1>. QED BY <1>1, <1>2, <1>3 DEF FreePools, StoredPools

LEMMA PoolLift ==
  ASSUME TypeOK, TypeOK', PoolInv, NEW t \in Threads, NEW l, NEW c,
         pc' = [pc EXCEPT ![t] = l], call' = [call EXCEPT ![t] = c],
         Trade(t, l, c)
  PROVE  PoolInv'
<1>. FreePools' \subseteq Pools /\ StoredPools' \subseteq Pools /\ live_pools' \subseteq Pools
  <2>1. free_pools' \in Seq(Pools) /\ frames' \in Seq(Frame) /\ live_pools' \subseteq Pools
    BY DEF TypeOK, RecycleType, TrackerType
  <2>2. Stored' \subseteq Frame
    BY <2>1 DEF Stored
  <2>3. \A x \in Frame : x.pool \in Pools
    BY DEF Frame
  <2>. QED BY <2>1, <2>2, <2>3 DEF FreePools, StoredPools
<1>. live_pools \subseteq Pools
  BY PoolTypes
<1>1. pc'[t] = l /\ call'[t] = c
      /\ \A u \in Threads : u # t => pc'[u] = pc[u] /\ call'[u] = call[u]
  BY DEF TypeOK, CallsType
<1>2. \A u \in Threads, p \in Pools : u # t =>
        (HasPool(pc'[u], call'[u], p) <=> HasPool(pc[u], call[u], p))
  BY <1>1
<1>3. \A p \in Pools : HasPool(pc'[t], call'[t], p) <=> HasPool(l, c, p)
  BY <1>1
<1>4. ASSUME NEW u \in Threads, u # t, NEW p \in Pools, HasPool(pc[u], call[u], p)
      PROVE  /\ p \in live_pools /\ ~Mine(t, p) /\ p \in live_pools'
             /\ p \notin FreePools' /\ p \notin StoredPools' /\ ~HasPool(l, c, p)
  <2>1. p \in live_pools /\ ~Mine(t, p)
    BY <1>4 DEF PoolInv, Mine
  <2>. QED BY <2>1 DEF Trade
<1>5. ASSUME NEW u \in Threads, NEW p \in Pools, HasPool(pc'[u], call'[u], p)
      PROVE  /\ p \in live_pools' /\ p \notin FreePools' /\ p \notin StoredPools'
             /\ \A v \in Threads : HasPool(pc'[v], call'[v], p) => v = u
  <2>1. CASE u = t
    <3>1. HasPool(l, c, p) /\ p \in live_pools' /\ p \notin FreePools' /\ p \notin StoredPools'
      BY <1>3, <1>5, <2>1 DEF Trade
    <3>2. ASSUME NEW v \in Threads, v # t PROVE ~HasPool(pc'[v], call'[v], p)
      BY <1>2, <1>4, <3>1, <3>2
    <3>. QED BY <2>1, <3>1, <3>2
  <2>2. CASE u # t
    <3>1. HasPool(pc[u], call[u], p)
      BY <1>2, <1>5, <2>2
    <3>2. p \in live_pools' /\ p \notin FreePools' /\ p \notin StoredPools' /\ ~HasPool(l, c, p)
      BY <1>4, <2>2, <3>1
    <3>3. ASSUME NEW v \in Threads, HasPool(pc'[v], call'[v], p) PROVE v = u
      <4>1. v # t
        BY <1>3, <3>2, <3>3
      <4>2. HasPool(pc[v], call[v], p)
        BY <1>2, <3>3, <4>1
      <4>. QED BY <3>1, <4>2 DEF PoolInv
    <3>. QED BY <3>2, <3>3
  <2>. QED BY <2>1, <2>2
<1>6. ASSUME NEW p \in live_pools'
      PROVE  \/ p \in FreePools' \/ p \in StoredPools'
             \/ \E u \in Threads : HasPool(pc'[u], call'[u], p)
  <2>1. CASE p \in live_pools /\ ~Mine(t, p)
    <3>1. PICK u \in Threads : HasPool(pc[u], call[u], p)
      BY <2>1 DEF PoolInv, Mine
    <3>2. u # t
      BY <2>1, <3>1 DEF Mine
    <3>. QED BY <1>2, <3>1, <3>2
  <2>2. CASE p \in FreePools' \/ p \in StoredPools' \/ HasPool(l, c, p)
    BY <1>3, <2>2
  <2>. QED BY <2>1, <2>2 DEF Trade
<1>7. FreePools' \subseteq live_pools' /\ StoredPools' \subseteq live_pools'
  BY DEF Trade
<1>. QED BY <1>5, <1>6, <1>7 DEF PoolInv, Trade

LEMMA PoolStillKeeps ==
  ASSUME PoolInv, PoolStill
  PROVE  PoolInv'
<1>1. FreePools' = FreePools /\ Stored' = Stored /\ StoredPools' = StoredPools
  BY DEF PoolStill, FreePools, Stored, StoredPools
<1>2. \A u \in Threads : \A p : HasPool(pc'[u], call'[u], p) <=> HasPool(pc[u], call[u], p)
  BY DEF PoolStill, HasPool
<1>. QED BY <1>1, <1>2 DEF PoolInv, PoolStill

\* take_pool hands out a pool that nobody has.
LEMMA TakePoolFacts ==
  ASSUME TypeOK, PoolInv, NEW p, TakePool(p)
  PROVE  /\ p \in Pools /\ p \notin StoredPools /\ live_pools' = live_pools \cup {p}
         /\ p \in FreePools \/ p \notin live_pools
         /\ \A t \in Threads : ~HasPool(pc[t], call[t], p)
         /\ FreePools' = FreePools \ {p}
         /\ \A k, l \in DOMAIN free_pools' : free_pools'[k] = free_pools'[l] => k = l
<1>0. free_pools \in Seq(Pools) /\ DOMAIN free_pools = 1 .. Len(free_pools)
      /\ Len(free_pools) \in Nat /\ live_pools \subseteq Pools
  BY PoolTypes
<1>1. free_pools' = Rest(free_pools) /\ p = Taken(free_pools, Pools \ live_pools)
      /\ live_pools' = live_pools \cup {p} /\ (free_pools # <<>> \/ live_pools # Pools)
  BY DEF TakePool
<1>2. CASE free_pools # <<>>
  <2>1. /\ p = free_pools[Len(free_pools)] /\ Len(free_pools) \in DOMAIN free_pools
        /\ free_pools' \in Seq(Pools) /\ Len(free_pools') = Len(free_pools) - 1
        /\ \A k \in DOMAIN free_pools' : k \in DOMAIN free_pools /\ free_pools'[k] = free_pools[k]
    BY Zenon, <1>0, <1>1, <1>2, RestFacts DEF Taken
  <2>2. DOMAIN free_pools' = 1 .. Len(free_pools) - 1
    BY <1>0, <2>1
  <2>3. FreePools' = FreePools \ {p}
    <3>1. ASSUME NEW k \in DOMAIN free_pools' PROVE free_pools'[k] \in FreePools \ {p}
      BY <1>0, <2>1, <2>2, <3>1 DEF PoolInv, FreePools
    <3>2. ASSUME NEW k \in DOMAIN free_pools, free_pools[k] # p PROVE free_pools[k] \in FreePools'
      <4>1. k \in DOMAIN free_pools'
        BY <1>0, <2>1, <2>2, <3>2
      <4>. QED BY <2>1, <4>1 DEF FreePools
    <3>. QED BY <3>1, <3>2 DEF FreePools
  <2>4. p \in FreePools /\ p \in Pools
    BY <1>0, <2>1 DEF FreePools
  <2>5. \A k, l \in DOMAIN free_pools' : free_pools'[k] = free_pools'[l] => k = l
    BY <2>1 DEF PoolInv
  <2>6. p \notin StoredPools /\ \A t \in Threads : ~HasPool(pc[t], call[t], p)
    BY <2>4 DEF PoolInv
  <2>. QED BY Zenon, <1>1, <2>3, <2>4, <2>5, <2>6
<1>3. CASE free_pools = <<>>
  <2>1. p \in Pools \ live_pools
    BY <1>0, <1>1, <1>3 DEF Taken
  <2>2. free_pools' = <<>> /\ FreePools = {} /\ FreePools' = {}
    BY <1>0, <1>1, <1>3 DEF Rest, FreePools
  <2>. QED BY <1>1, <2>1, <2>2, <1>3 DEF PoolInv
<1>. QED BY <1>2, <1>3

\* recycle_pool keeps it for the next submission or destroys it.
LEMMA RecyclePoolFacts ==
  ASSUME TypeOK, PoolInv, NEW p \in Pools, RecyclePool(p), p \notin FreePools
  PROVE  /\ \A k, l \in DOMAIN free_pools' : free_pools'[k] = free_pools'[l] => k = l
         /\ \/ FreePools' = FreePools \cup {p} /\ live_pools' = live_pools
            \/ FreePools' = FreePools /\ live_pools' = live_pools \ {p}
<1>0. free_pools \in Seq(Pools) /\ DOMAIN free_pools = 1 .. Len(free_pools)
      /\ Len(free_pools) \in Nat
  BY PoolTypes
<1>1. CASE free_pools' = Append(free_pools, p) /\ UNCHANGED live_pools
  <2>1. /\ DOMAIN free_pools' = 1 .. Len(free_pools) + 1
        /\ free_pools'[Len(free_pools) + 1] = p
        /\ \A k \in DOMAIN free_pools : free_pools'[k] = free_pools[k]
    BY <1>0, <1>1
  <2>2. \A k \in DOMAIN free_pools' : k \in DOMAIN free_pools \/ k = Len(free_pools) + 1
    BY <1>0, <2>1
  <2>3. DOMAIN free_pools \subseteq DOMAIN free_pools' /\ Len(free_pools) + 1 \in DOMAIN free_pools'
    BY <1>0, <2>1
  <2>4. FreePools' = FreePools \cup {p}
    BY <2>1, <2>2, <2>3 DEF FreePools
  <2>5. \A k \in DOMAIN free_pools : free_pools[k] # p
    BY DEF FreePools
  <2>. QED BY <1>1, <2>1, <2>2, <2>4, <2>5 DEF PoolInv
<1>2. CASE live_pools' = live_pools \ {p} /\ UNCHANGED free_pools
  BY <1>2 DEF FreePools, PoolInv
<1>. QED BY <1>1, <1>2 DEF RecyclePool

LEMMA PoolCases ==
  ASSUME TypeOK, PcInv, [Next]_vars
  PROVE  PoolCase
<1>. CallsType /\ pc \in [Threads -> Labels] /\ call \in [Threads -> CallType]
  BY DEF TypeOK, CallsType
<1>p. \A t \in Threads : PoolBusy(t) => PoolCase
  BY DEF PoolCase
<1>s. PoolStill => PoolCase
  BY DEF PoolCase
<1>n. NoCall.frame = None /\ \A t \in Threads : call[t].frame # None =>
        pc[t] \in {"lock_retire", "harvest", "track", "recycle_old"}
  BY DEF NoCall, PcInv, PcOK
<1>r. \A t \in Threads : call[t].resume \in {"harvest", "limit"}
  BY DEF CallType

<1>1. ASSUME NEW t \in Threads, SubmitStep(t) PROVE PoolCase
  <2>1. ASSUME NEW op \in Ops, BeginSubmit(t, op) PROVE PoolCase
    BY <1>p, <2>1 DEF PoolBusy
  <2>2. CASE Record(t)
    BY <1>s, <1>n, <1>r, <2>2 DEF PoolStill, NoCall, CallType, Record, Goto
  <2>3. CASE RecordFails(t)
    BY <1>s, <1>n, <1>r, <2>3 DEF PoolStill, NoCall, CallType, RecordFails, Goto
  <2>4. CASE Submit(t)
    BY <1>p, <2>4 DEF PoolBusy
  <2>5. CASE SubmitFails(t)
    BY <1>s, <1>n, <1>r, <2>5 DEF PoolStill, NoCall, CallType, SubmitFails, Goto, TakeFence, Fails
  <2>6. CASE Cleanup(t)
    BY <1>p, <2>6 DEF PoolBusy
  <2>. QED BY <1>1, <2>1, <2>2, <2>3, <2>4, <2>5, <2>6 DEF SubmitStep
<1>2. ASSUME NEW t \in Threads, RetireStep(t) PROVE PoolCase
  <2>1. CASE LockRetire(t)
    BY <1>s, <1>n, <1>r, <2>1 DEF PoolStill, NoCall, CallType, LockRetire, Goto
  <2>2. CASE TryHarvest(t)
    BY <1>s, <1>n, <1>r, <2>2 DEF PoolStill, NoCall, CallType, TryHarvest, Goto, Return
  <2>3. CASE HarvestFrame(t)
    BY <1>p, <2>3 DEF PoolBusy
  <2>4. CASE Track(t)
    BY <1>s, <1>n, <1>r, <2>4 DEF PoolStill, NoCall, CallType, Track, Goto, Resume
  <2>5. CASE RecycleOld(t)
    BY <1>s, <1>n, <1>r, <2>5 DEF PoolStill, NoCall, CallType, RecycleOld, Resume, Goto
  <2>6. CASE HarvestEnds(t)
    <3>1. CASE call[t].frame # None
      BY <1>p, <3>1, <2>6 DEF PoolBusy
    <3>2. CASE call[t].frame = None
      BY <1>s, <1>n, <3>2, <2>6 DEF PoolStill, NoCall, HarvestEnds, Goto, Return
    <3>. QED BY <3>1, <3>2
  <2>7. CASE HarvestFails(t)
    <3>1. CASE call[t].frame # None
      BY <1>p, <3>1, <2>7 DEF PoolBusy
    <3>2. CASE call[t].frame = None
      BY <1>s, <1>n, <3>2, <2>7 DEF PoolStill, NoCall, HarvestFails, Return
    <3>. QED BY <3>1, <3>2
  <2>8. CASE EvictFrame(t)
    BY <1>p, <2>8 DEF PoolBusy
  <2>9. CASE EvictFails(t)
    BY <1>s, <1>n, <1>r, <2>9 DEF PoolStill, NoCall, CallType, EvictFails, Return
  <2>10. CASE SubmitReturns(t)
    <3>1. pc[t] = "limit" /\ call[t].frame = None
      BY <1>n, <2>10 DEF SubmitReturns
    <3>2. CASE call[t].op = "submit"
      BY <1>s, <1>n, <2>10, <3>1, <3>2 DEF PoolStill, SubmitReturns, Return
    <3>3. CASE call[t].op # "submit"
      <4>1. [NoCall EXCEPT !.op = "submit_empty", !.index = call[t].index].frame = None
        BY DEF NoCall
      <4>. QED BY Zenon, <1>s, <2>10, <3>1, <3>3, <4>1 DEF PoolStill, SubmitReturns, Goto
    <3>. QED BY <3>2, <3>3
  <2>. QED BY <1>2, <2>1, <2>2, <2>3, <2>4, <2>5, <2>6, <2>7, <2>8, <2>9, <2>10 DEF RetireStep
<1>3. ASSUME NEW t \in Threads, WaitStep(t) PROVE PoolCase
  <2>1. CASE BeginWait(t)
    BY <1>s, <1>n, <1>r, <2>1 DEF PoolStill, NoCall, CallType, BeginWait, Begin, Goto, MayCall
  <2>2. CASE WaitTest(t)
    BY <1>s, <1>n, <1>r, <2>2 DEF PoolStill, NoCall, CallType, WaitTest, Goto, Return
  <2>3. CASE Wait(t)
    BY <1>s, <1>n, <1>r, <2>3 DEF PoolStill, NoCall, CallType, Wait, Goto
  <2>4. CASE WaitFails(t)
    BY <1>s, <1>n, <1>r, <2>4 DEF PoolStill, NoCall, CallType, WaitFails, Goto
  <2>5. CASE Unpin(t)
    BY <1>s, <1>n, <1>r, <2>5 DEF PoolStill, NoCall, CallType, Unpin, Goto, Waited, Return
  <2>6. CASE RecycleWaited(t)
    BY <1>s, <1>n, <1>r, <2>6 DEF PoolStill, NoCall, CallType, RecycleWaited, Waited, Goto, Return
  <2>7. CASE Poll(t)
    BY <1>s, <1>n, <1>r, <2>7 DEF PoolStill, NoCall, CallType, Poll, Begin, Goto, MayCall
  <2>8. CASE PollFails(t)
    BY <1>s, <1>n, <1>r, <2>8 DEF PoolStill, NoCall, CallType, PollFails, MayCall
  <2>9. CASE BeginWaitIdle(t)
    BY <1>s, <1>n, <1>r, <2>9 DEF PoolStill, NoCall, CallType, BeginWaitIdle, Begin, Goto, MayCall
  <2>10. CASE WaitIdle(t)
    BY <1>s, <1>n, <1>r, <2>10 DEF PoolStill, NoCall, CallType, WaitIdle, Goto
  <2>11. CASE WaitIdleFails(t)
    BY <1>s, <1>n, <1>r, <2>11 DEF PoolStill, NoCall, CallType, WaitIdleFails, Return
  <2>. QED BY <1>3, <2>1, <2>2, <2>3, <2>4, <2>5, <2>6, <2>7, <2>8, <2>9, <2>10, <2>11 DEF WaitStep
<1>4. ASSUME NEW t \in Threads, AcquireStep(t) PROVE PoolCase
  <2>1. CASE GetCurrentTexture(t)
    BY <1>s, <1>n, <1>r, <2>1 DEF PoolStill, NoCall, CallType, GetCurrentTexture, Goto, MaySurface
  <2>2. CASE AcquireImage(t)
    BY <1>s, <1>n, <1>r, <2>2 DEF PoolStill, NoCall, CallType, AcquireImage, Goto
  <2>3. CASE AcquireFails(t)
    BY <1>s, <1>n, <1>r, <2>3 DEF PoolStill, NoCall, CallType, AcquireFails, Return
  <2>4. CASE PublishAcquire(t)
    BY <1>s, <1>n, <1>r, <2>4 DEF PoolStill, NoCall, CallType, PublishAcquire, Return
  <2>5. CASE AcquireBlocked(t)
    BY <1>s, <1>n, <1>r, <2>5 DEF PoolStill, NoCall, CallType, AcquireBlocked, vars
  <2>. QED BY <1>4, <2>1, <2>2, <2>3, <2>4, <2>5 DEF AcquireStep
<1>5. ASSUME NEW t \in Threads, PresentStep(t) PROVE PoolCase
  <2>1. CASE Present(t)
    BY <1>s, <1>n, <1>r, <2>1 DEF PoolStill, NoCall, CallType, Present, Goto, MaySurface
  <2>2. CASE PresentFlushFails(t)
    BY <1>s, <1>n, <1>r, <2>2 DEF PoolStill, NoCall, CallType, PresentFlushFails
  <2>3. CASE TakePending(t)
    BY <1>s, <1>n, <1>r, <2>3 DEF PoolStill, NoCall, CallType, TakePending, Goto
  <2>4. CASE Transition(t)
    BY <1>s, <1>n, <1>r, <2>4 DEF PoolStill, NoCall, CallType, Transition, Goto
  <2>5. CASE TransitionFails(t)
    BY <1>s, <1>n, <1>r, <2>5 DEF PoolStill, NoCall, CallType, TransitionFails, Goto
  <2>6. CASE Recover(t)
    BY <1>s, <1>n, <1>r, <2>6 DEF PoolStill, NoCall, CallType, Recover, Return
  <2>7. CASE Ring(t)
    BY <1>s, <1>n, <1>r, <2>7 DEF PoolStill, NoCall, CallType, Ring, Goto
  <2>8. CASE QueuePresent(t)
    BY <1>s, <1>n, <1>r, <2>8 DEF PoolStill, NoCall, CallType, QueuePresent, Return
  <2>. QED BY <1>5, <2>1, <2>2, <2>3, <2>4, <2>5, <2>6, <2>7, <2>8 DEF PresentStep
<1>6. ASSUME NEW t \in Threads, ConfigureStep(t) PROVE PoolCase
  <2>1. CASE Configure(t)
    BY <1>s, <1>n, <1>r, <2>1 DEF PoolStill, NoCall, CallType, Configure, Goto, MaySurface
  <2>2. CASE TeardownIdle(t)
    BY <1>s, <1>n, <1>r, <2>2 DEF PoolStill, NoCall, CallType, TeardownIdle, Goto
  <2>3. CASE DestroySync(t)
    BY <1>s, <1>n, <1>r, <2>3 DEF PoolStill, NoCall, CallType, DestroySync, Goto
  <2>4. CASE ResetPending(t)
    BY <1>s, <1>n, <1>r, <2>4 DEF PoolStill, NoCall, CallType, ResetPending, Return
  <2>. QED BY <1>6, <2>1, <2>2, <2>3, <2>4 DEF ConfigureStep
<1>7. CASE GpuFinish
  BY <1>s, <1>n, <1>r, <1>7 DEF PoolStill, NoCall, CallType, GpuFinish
<1>8. ASSUME NEW i \in Images, ImageFree(i) PROVE PoolCase
  BY <1>s, <1>n, <1>r, <1>8 DEF PoolStill, NoCall, CallType, ImageFree
<1>9. CASE Drop
  BY <1>9 DEF PoolCase
<1>10. CASE UNCHANGED vars
  BY <1>s, <1>n, <1>r, <1>10 DEF PoolStill, NoCall, CallType, vars
<1>. QED BY <1>1, <1>2, <1>3, <1>4, <1>5, <1>6, <1>7, <1>8, <1>9, <1>10 DEF Next, Ended

\* Popping takes one frame out, inserting puts one in.
LEMMA StoredPop ==
  ASSUME TypeOK, FrameInv, NEW t \in Threads, HarvestFrame(t) \/ EvictFrame(t)
  PROVE  \E x \in Frame :
           /\ x \in Stored /\ Stored' = Stored \ {x} /\ RecyclePool(x.pool)
           /\ pc' = [pc EXCEPT ![t] = "track"]
           /\ call' = [call EXCEPT ![t] = [call[t] EXCEPT !.old = x]]
<1>1. frames # <<>> /\ PopFrame(t)
  BY PopTyped
<1>2. PICK x \in Frame : x = FrontFrame
  BY <1>1, PopFacts DEF TypeOK
<1>t. TrackerType /\ CallsType
  BY DEF TypeOK
<1>3. /\ 1 \in DOMAIN frames /\ DOMAIN frames = 1 .. Len(frames) /\ Len(frames) \in Nat
      /\ DOMAIN frames' = 1 .. Len(frames) - 1 /\ x = frames[1]
      /\ \A k \in DOMAIN frames' : k + 1 \in DOMAIN frames /\ frames'[k] = frames[k + 1]
      /\ frames \in Seq(Frame)
  <2>1. frames \in Seq(Frame)
    BY <1>t DEF TrackerType
  <2>2. x = frames[1]
    BY <1>2 DEF FrontFrame
  <2>3. /\ 1 \in DOMAIN frames /\ DOMAIN frames = 1 .. Len(frames) /\ Len(frames) \in Nat
        /\ DOMAIN frames' = 1 .. Len(frames) - 1
        /\ \A k \in DOMAIN frames' : k + 1 \in DOMAIN frames /\ frames'[k] = frames[k + 1]
    BY <1>1, <1>t, PopFacts
  <2>. QED BY <2>1, <2>2, <2>3
<1>4. \A k \in DOMAIN frames : frames[k] \in Frame /\ frames[k].index \in Nat
  <2>1. \A k \in DOMAIN frames : frames[k] \in Frame
    BY <1>3
  <2>. QED BY <2>1 DEF Frame
<1>5. ASSUME NEW k \in DOMAIN frames, k # 1
      PROVE  frames[k] # x /\ k - 1 \in DOMAIN frames' /\ frames'[k - 1] = frames[k]
  <2>1. k - 1 \in DOMAIN frames' /\ (k - 1) + 1 = k /\ 1 < k
    BY <1>3, <1>5
  <2>2. frames[1].index < frames[k].index
    BY <1>3, <1>5, <2>1 DEF FrameInv
  <2>. QED BY <1>3, <1>4, <2>1, <2>2
<1>6. Stored' = Stored \ {x}
  <2>1. \A k \in DOMAIN frames' : frames'[k] \in Stored \ {x}
    BY <1>3, <1>5 DEF Stored
  <2>. QED BY <1>3, <1>5, <2>1 DEF Stored
<1>. QED BY <1>1, <1>2, <1>3, <1>6 DEF PopFrame, Goto, Stored, TypeOK, CallsType

LEMMA StoredInsert ==
  ASSUME TrackerType, NEW x \in Frame, InsertFrame(x)
  PROVE  Stored' = Stored \cup {x}
<1>1. PICK at \in 1 .. Len(frames) + 1 :
        /\ Len(frames) \in Nat /\ DOMAIN frames = 1 .. Len(frames)
        /\ DOMAIN frames' = 1 .. Len(frames) + 1 /\ frames'[at] = x
        /\ \A k \in 1 .. at - 1 : frames'[k] = frames[k]
        /\ \A k \in at + 1 .. Len(frames) + 1 : frames'[k] = frames[k - 1]
  BY InsertFacts
<1>2. ASSUME NEW m \in DOMAIN frames
      PROVE  \E k \in DOMAIN frames' : frames'[k] = frames[m]
  <2>1. CASE m < at
    BY <1>1, <2>1
  <2>2. CASE m >= at
    <3>1. m + 1 \in at + 1 .. Len(frames) + 1 /\ m + 1 \in DOMAIN frames' /\ (m + 1) - 1 = m
      BY <1>1, <2>2
    <3>. QED BY <1>1, <3>1
  <2>. QED BY <1>1, <2>1, <2>2
<1>3. ASSUME NEW k \in DOMAIN frames'
      PROVE  frames'[k] = x \/ \E m \in DOMAIN frames : frames'[k] = frames[m]
  <2>1. CASE k < at
    BY <1>1, <2>1
  <2>2. CASE k > at
    <3>1. k \in at + 1 .. Len(frames) + 1 /\ k - 1 \in DOMAIN frames
      BY <1>1, <2>2
    <3>. QED BY <1>1, <3>1
  <2>. QED BY <1>1, <2>1, <2>2
<1>4. at \in DOMAIN frames'
  BY <1>1
<1>. QED BY <1>1, <1>2, <1>3, <1>4 DEF Stored

LEMMA PoolStep ==
  ASSUME TypeOK, TypeOK', PcInv, FrameInv, PoolInv, [Next]_vars
  PROVE  PoolInv'
<1>. CallsType /\ call \in [Threads -> CallType] /\ pc \in [Threads -> Labels]
  BY DEF TypeOK, CallsType
<1>0. /\ NoCall.frame = None
      /\ \A t \in Threads : call[t].frame # None =>
           pc[t] \in {"lock_retire", "harvest", "track", "recycle_old"}
  BY DEF NoCall, PcInv, PcOK
<1>1. ASSUME NEW t \in Threads, NEW op \in Ops, BeginSubmit(t, op) PROVE PoolInv'
  <2>1. PICK p \in Pools : TakePool(p)
          /\ call' = [call EXCEPT ![t] = [NoCall EXCEPT !.op = op, !.pool = p]]
    BY Zenon, <1>1 DEF BeginSubmit
  <2>2. PICK c : c = [NoCall EXCEPT !.op = op, !.pool = p]
    OBVIOUS
  <2>3. /\ pc' = [pc EXCEPT ![t] = "record"] /\ call' = [call EXCEPT ![t] = c]
        /\ pc[t] = "idle" /\ UNCHANGED frames /\ c.pool = p /\ c.frame = None
        /\ call[t].frame = None
    BY <1>0, <1>1, <2>1, <2>2 DEF BeginSubmit, Begin, MayCall, Goto, NoCall
  <2>4. \A q \in Pools : /\ HasPool("record", c, q) <=> q = p
                         /\ ~HasPool(pc[t], call[t], q)
    BY <2>3 DEF HasPool
  <2>5. Stored' = Stored /\ StoredPools' = StoredPools
    BY <2>3 DEF Stored, StoredPools
  <2>6. live_pools \subseteq Pools
    BY PoolTypes
  <2>7. /\ p \in Pools /\ p \notin StoredPools /\ live_pools' = live_pools \cup {p}
        /\ p \in FreePools \/ p \notin live_pools
        /\ FreePools' = FreePools \ {p}
        /\ \A k, l \in DOMAIN free_pools' : free_pools'[k] = free_pools'[l] => k = l
    BY <2>1, TakePoolFacts
  <2>8. Trade(t, "record", c)
    BY <2>4, <2>5, <2>6, <2>7 DEF Trade, Mine, PoolInv
  <2>. QED BY <2>3, <2>8, PoolLift
<1>2. ASSUME NEW t \in Threads, Submit(t) PROVE PoolInv'
  <2>1. PICK f \in Fences :
          call' = [call EXCEPT ![t].index = last_issued + 1,
                     ![t].frame = [index |-> last_issued + 1, fence |-> f,
                                   pool |-> call[t].pool]]
    BY <1>2, SubmitShape
  <2>2. PICK x : x = [index |-> last_issued + 1, fence |-> f, pool |-> call[t].pool]
    OBVIOUS
  <2>3. PICK c : c = [call[t] EXCEPT !.index = last_issued + 1, !.frame = x]
    OBVIOUS
  <2>4. /\ pc' = [pc EXCEPT ![t] = "lock_retire"] /\ call' = [call EXCEPT ![t] = c]
        /\ pc[t] = "submit" /\ UNCHANGED <<frames, free_pools, live_pools>>
        /\ c.frame = x /\ call[t].frame = None
    <3>1. call' = [call EXCEPT ![t] = c] /\ c.frame = x
      BY <2>1, <2>2, <2>3 DEF CallType
    <3>2. pc[t] = "submit" /\ pc' = [pc EXCEPT ![t] = "lock_retire"]
          /\ UNCHANGED <<frames, free_pools, live_pools>>
      BY <1>2 DEF Submit, Goto
    <3>. QED BY <1>0, <3>1, <3>2
  <2>5. x # None
    <3>1. call[t].pool \in Pools /\ last_issued + 1 \in Nat
      BY <2>4, HeldTyped DEF TypeOK, TrackerType
    <3>. QED BY <2>2, <3>1, VulkanAssumption DEF Frame
  <2>6. \A q \in Pools : HasPool("lock_retire", c, q) <=> HasPool(pc[t], call[t], q)
    BY <2>2, <2>4, <2>5 DEF HasPool
  <2>7. Stored' = Stored /\ StoredPools' = StoredPools /\ FreePools' = FreePools
    BY <2>4 DEF Stored, StoredPools, FreePools
  <2>8. live_pools \subseteq Pools /\ FreePools \subseteq Pools /\ StoredPools \subseteq Pools
    BY PoolTypes
  <2>9. Trade(t, "lock_retire", c)
    BY <2>4, <2>6, <2>7, <2>8 DEF Trade, Mine, PoolInv
  <2>. QED BY <2>4, <2>9, PoolLift
<1>3. ASSUME NEW t \in Threads, Cleanup(t) PROVE PoolInv'
  <2>1. PICK p \in Pools : p = call[t].pool /\ RecyclePool(p)
    BY <1>3, HeldTyped DEF Cleanup
  <2>2. /\ pc' = [pc EXCEPT ![t] = "idle"] /\ call' = [call EXCEPT ![t] = NoCall]
        /\ pc[t] = "cleanup" /\ UNCHANGED frames
    BY <1>3 DEF Cleanup, Return
  <2>3. \A q \in Pools : /\ HasPool(pc[t], call[t], q) <=> q = p
                         /\ ~HasPool("idle", NoCall, q)
    BY <1>0, <2>1, <2>2 DEF HasPool
  <2>4. p \notin FreePools /\ p \notin StoredPools /\ p \in live_pools
    BY <2>3 DEF PoolInv
  <2>5. Stored' = Stored /\ StoredPools' = StoredPools
    BY <2>2 DEF Stored, StoredPools
  <2>6. live_pools \subseteq Pools
    BY PoolTypes
  <2>7. /\ \A k, l \in DOMAIN free_pools' : free_pools'[k] = free_pools'[l] => k = l
        /\ \/ FreePools' = FreePools \cup {p} /\ live_pools' = live_pools
           \/ FreePools' = FreePools /\ live_pools' = live_pools \ {p}
    BY <2>1, <2>4, RecyclePoolFacts
  <2>8. Trade(t, "idle", NoCall)
    BY <2>3, <2>4, <2>5, <2>6, <2>7 DEF Trade, Mine, PoolInv
  <2>. QED BY <2>2, <2>8, PoolLift
<1>4. ASSUME NEW t \in Threads, HarvestFrame(t) \/ EvictFrame(t) PROVE PoolInv'
  <2>1. PICK x \in Frame :
         /\ x \in Stored /\ Stored' = Stored \ {x} /\ RecyclePool(x.pool)
         /\ pc' = [pc EXCEPT ![t] = "track"]
         /\ call' = [call EXCEPT ![t] = [call[t] EXCEPT !.old = x]]
    BY <1>4, StoredPop
  <2>2. PICK c : c = [call[t] EXCEPT !.old = x]
    OBVIOUS
  <2>3. /\ call' = [call EXCEPT ![t] = c] /\ c.frame = call[t].frame
        /\ pc[t] \in {"harvest", "limit"}
    BY <1>4, <2>1, <2>2 DEF CallType, HarvestFrame, EvictFrame
  <2>4. \A q \in Pools : HasPool("track", c, q) <=> HasPool(pc[t], call[t], q)
    BY <2>3 DEF HasPool
  <2>5. live_pools \subseteq Pools /\ FreePools \subseteq Pools /\ StoredPools \subseteq Pools
        /\ x.pool \in Pools
    BY PoolTypes
  <2>6. StoredPools' = StoredPools \ {x.pool} /\ x.pool \in StoredPools
    BY <2>1 DEF StoredPools, PoolInv
  <2>7. x.pool \notin FreePools /\ x.pool \in live_pools
        /\ \A q \in Pools : HasPool(pc[t], call[t], q) => q # x.pool
    BY <2>6 DEF PoolInv
  <2>8. /\ \A k, l \in DOMAIN free_pools' : free_pools'[k] = free_pools'[l] => k = l
        /\ \/ FreePools' = FreePools \cup {x.pool} /\ live_pools' = live_pools
           \/ FreePools' = FreePools /\ live_pools' = live_pools \ {x.pool}
    BY <2>1, <2>5, <2>7, RecyclePoolFacts
  <2>9. Trade(t, "track", c)
    <3>1. \A y, z \in Stored' : y.pool = z.pool => y = z
      BY <2>1 DEF PoolInv
    <3>. QED BY <2>4, <2>5, <2>6, <2>7, <2>8, <3>1 DEF Trade, Mine, PoolInv
  <2>. QED BY <2>1, <2>3, <2>9, PoolLift
<1>5. ASSUME NEW t \in Threads, HarvestEnds(t) \/ HarvestFails(t), call[t].frame # None
      PROVE  PoolInv'
  <2>1. PICK x \in Frame : x = call[t].frame /\ InsertFrame(x)
    BY <1>5, HeldTyped DEF HarvestEnds, HarvestFails
  <2>2. Stored' = Stored \cup {x}
    BY <2>1, StoredInsert DEF TypeOK
  <2>3. pc[t] = "harvest" /\ UNCHANGED <<free_pools, live_pools>>
    BY <1>5 DEF HarvestEnds, HarvestFails
  <2>a. PICK l \in {"idle", "limit"} : \E c :
          pc' = [pc EXCEPT ![t] = l] /\ call' = [call EXCEPT ![t] = c] /\ c.frame = None
    <3>1. CASE Return(t)
      BY <1>0, <3>1 DEF Return
    <3>2. CASE Goto(t, "limit") /\ call' = [call EXCEPT ![t].frame = None, ![t].resume = "limit"]
      <4>1. PICK c : c = [call[t] EXCEPT !.frame = None, !.resume = "limit"]
        OBVIOUS
      <4>2. call' = [call EXCEPT ![t] = c] /\ pc' = [pc EXCEPT ![t] = "limit"]
        BY <3>2, <4>1 DEF Goto
      <4>3. call[t] \in CallType
        OBVIOUS
      <4>4. c.frame = None
        BY <4>1, <4>3 DEF CallType
      <4>. QED BY <4>2, <4>4
    <3>. QED BY <1>5, <3>1, <3>2 DEF HarvestEnds, HarvestFails
  <2>4. PICK c : pc' = [pc EXCEPT ![t] = l] /\ call' = [call EXCEPT ![t] = c] /\ c.frame = None
    BY <2>a
  <2>5. \A q \in Pools : ~HasPool(l, c, q) /\ (HasPool(pc[t], call[t], q) <=> q = x.pool)
    BY <1>5, <2>1, <2>3, <2>4 DEF HasPool
  <2>6. live_pools \subseteq Pools /\ FreePools \subseteq Pools /\ StoredPools \subseteq Pools
        /\ x.pool \in Pools
    BY PoolTypes
  <2>7. StoredPools' = StoredPools \cup {x.pool} /\ FreePools' = FreePools
    BY <2>2, <2>3 DEF StoredPools, FreePools
  <2>8. x.pool \in live_pools /\ x.pool \notin FreePools /\ x.pool \notin StoredPools
    BY <2>5, <2>6 DEF PoolInv
  <2>9. \A y, z \in Stored' : y.pool = z.pool => y = z
    BY <2>2, <2>8 DEF PoolInv, StoredPools
  <2>10. Trade(t, l, c)
    BY <2>3, <2>5, <2>6, <2>7, <2>8, <2>9 DEF Trade, Mine, PoolInv
  <2>. QED BY <2>4, <2>10, PoolLift
<1>6. CASE Drop
  <2>1. /\ frames' = <<>> /\ free_pools' = <<>> /\ UNCHANGED <<pc, call>>
        /\ live_pools' = live_pools \ ({fr.pool : fr \in {frames[k] : k \in DOMAIN frames}}
                                          \cup ToSet(free_pools))
        /\ \A t \in Threads : pc[t] = "idle"
    BY <1>6 DEF Drop
  <2>2. \A t \in Threads : \A q : ~HasPool(pc[t], call[t], q)
    BY <1>0, <2>1 DEF HasPool
  <2>3. FreePools = ToSet(free_pools) /\ FreePools' = {} /\ Stored' = {} /\ StoredPools' = {}
    BY <2>1 DEF FreePools, Stored, StoredPools, ToSet
  <2>4. live_pools' = {}
    BY <2>1, <2>2, <2>3 DEF PoolInv, StoredPools, Stored
  <2>. QED BY <2>1, <2>2, <2>3, <2>4 DEF PoolInv
<1>. QED BY <1>1, <1>2, <1>3, <1>4, <1>5, <1>6, PoolCases, PoolStillKeeps DEF PoolCase, PoolBusy

-----------------------------------------------------------------------------
(* Frames and submissions                                                  *)

\* Frames go from a call to the queue and out of it; only a submission adds one.
LEMMA RetainStep ==
  ASSUME TypeOK, PcInv, FrameInv, [Next]_vars
  PROVE  Retaining' \subseteq Retaining \/ \E t \in Threads : Submit(t)
<1>. CallsType /\ TrackerType /\ call \in [Threads -> CallType] /\ NoCall.frame = None
  BY DEF TypeOK, CallsType, NoCall
<1>1. CASE PoolStill
  BY <1>1 DEF PoolStill, Retaining
<1>2. ASSUME NEW t \in Threads, PoolBusy(t), ~Submit(t)
      PROVE  Retaining' \subseteq Retaining
  <2>1. ASSUME UNCHANGED frames, call'[t].frame \in {None, call[t].frame},
               \A u \in Threads \ {t} : call'[u] = call[u]
        PROVE  Retaining' \subseteq Retaining
    BY <2>1 DEF Retaining
  <2>2. ASSUME NEW op \in Ops, BeginSubmit(t, op) PROVE Retaining' \subseteq Retaining
    BY <2>1, <2>2 DEF BeginSubmit, NoCall
  <2>3. CASE Cleanup(t)
    BY <2>1, <2>3 DEF Cleanup, Return
  <2>4. CASE HarvestFrame(t) \/ EvictFrame(t)
    <3>1. PICK x \in Frame :
            /\ Stored' = Stored \ {x}
            /\ call' = [call EXCEPT ![t] = [call[t] EXCEPT !.old = x]]
      BY <2>4, StoredPop
    <3>2. \A u \in Threads : call'[u].frame = call[u].frame
      BY <3>1 DEF CallType
    <3>. QED BY <3>1, <3>2 DEF Retaining, Stored
  <2>5. CASE (HarvestEnds(t) \/ HarvestFails(t)) /\ call[t].frame # None
    <3>1. PICK x \in Frame : x = call[t].frame /\ InsertFrame(x)
      BY <2>5, HeldTyped DEF HarvestEnds, HarvestFails
    <3>2. Stored' = Stored \cup {x} /\ x \in Retaining
      BY <2>5, <3>1, StoredInsert DEF Retaining
    <3>3. \A u \in Threads : call'[u].frame \in {None, call[u].frame}
      <4>1. \A u \in Threads \ {t} : call'[u] = call[u]
        BY <2>5 DEF HarvestEnds, HarvestFails, Return
      <4>2. call'[t].frame = None
        <5>1. CASE Return(t)
          BY <5>1 DEF Return
        <5>2. CASE call' = [call EXCEPT ![t].frame = None, ![t].resume = "limit"]
          BY <5>2 DEF CallType
        <5>. QED BY <2>5, <5>1, <5>2 DEF HarvestEnds, HarvestFails
      <4>. QED BY <4>1, <4>2
    <3>. QED BY <3>2, <3>3 DEF Retaining, Stored
  <2>. QED BY <1>2, <2>2, <2>3, <2>4, <2>5 DEF PoolBusy
<1>3. CASE Drop
  BY <1>3 DEF Drop, Retaining
<1>. QED BY <1>1, <1>2, <1>3, PoolCases DEF PoolCase

LEMMA WorkStep ==
  ASSUME Base, CallInv, WorkInv, [Next]_vars
  PROVE  WorkInv'
<1>. TypeOK /\ PcInv /\ FrameInv /\ GpuType /\ call \in [Threads -> CallType]
  BY DEF Base, LifeInv, TypeOK, CallsType
<1>1. \A k \in DOMAIN gpu : k \in DOMAIN gpu' /\ gpu'[k] = gpu[k]
  BY Grows
<1>2. ASSUME NEW x \in Retaining PROVE \E k \in DOMAIN gpu' : Resources(gpu'[k]) = x
  BY <1>1, <1>2 DEF WorkInv
<1>3. ASSUME NEW t \in Threads, Submit(t) PROVE WorkInv'
  <2>1. PICK f \in Fences, w \in WorkType :
          /\ gpu' = Append(gpu, w)
          /\ w.index = last_issued + 1 /\ w.fence = f /\ w.pool = call[t].pool
          /\ call' = [call EXCEPT ![t].index = last_issued + 1,
                        ![t].frame = [index |-> last_issued + 1, fence |-> f,
                                      pool |-> call[t].pool]]
    BY <1>3, SubmitShape
  <2>2. call'[t].frame = Resources(w) /\ \A u \in Threads \ {t} : call'[u] = call[u]
    BY <2>1 DEF Resources, CallType
  <2>3. \E k \in DOMAIN gpu' : Resources(gpu'[k]) = Resources(w)
    BY <2>1, GpuAppend
  <2>4. Retaining' \subseteq Retaining \cup {Resources(w)}
    BY <1>3, <2>2 DEF Submit, Retaining
  <2>. QED BY <1>2, <2>3, <2>4 DEF WorkInv
<1>4. CASE Retaining' \subseteq Retaining
  BY <1>2, <1>4 DEF WorkInv
<1>. QED BY <1>3, <1>4, RetainStep

\* What a running submission uses is retained by its own frame.
LEMMA RunningRetained ==
  ASSUME Base, WorkInv, NEW k \in Running, gpu[k].index # 0
  PROVE  Resources(gpu[k]) \in Retaining
<1>. /\ FrameInv /\ IndexInv /\ gpu \in Seq(WorkType) /\ done \in Nat /\ Len(gpu) \in Nat
     /\ DOMAIN gpu = 1 .. Len(gpu)
  BY DEF Base, LifeInv, TypeOK, GpuType
<1>1. k \in done + 1 .. Len(gpu) /\ k \in DOMAIN gpu
  BY DEF Running
<1>2. <<gpu[k].index, gpu[k].fence>> \in Framed \cup Handed
  BY <1>1 DEF FrameInv
<1>3. PICK x \in Retaining : <<gpu[k].index, gpu[k].fence>> = Key(x)
  BY <1>2 DEF Framed, Handed, Retaining
<1>4. PICK m \in DOMAIN gpu : Resources(gpu[m]) = x
  BY DEF WorkInv
<1>5. gpu[m].index = gpu[k].index
  BY <1>3, <1>4 DEF Key, Resources
<1>6. m = k
  <2>0. \A i \in DOMAIN gpu : gpu[i] \in WorkType
    OBVIOUS
  <2>1. \A i \in DOMAIN gpu : gpu[i].index \in Nat
    BY <2>0 DEF WorkType
  <2>. QED BY <1>1, <1>5, <2>1 DEF IndexInv
<1>. QED BY <1>4, <1>6

\* A pool that a frame retains is neither free nor gone.
LEMMA RetainedPool ==
  ASSUME TypeOK, PoolInv, NEW x \in Retaining
  PROVE  x.pool \in live_pools \ ToSet(free_pools)
<1>1. FreePools = ToSet(free_pools) /\ call \in [Threads -> CallType]
  BY DEF FreePools, ToSet, TypeOK, CallsType
<1>2. CASE x \in Stored
  BY <1>1, <1>2 DEF PoolInv, StoredPools
<1>3. CASE x \notin Stored
  <2>1. PICK t \in Threads : x = call[t].frame /\ x # None
    BY <1>3 DEF Retaining, Stored
  <2>2. x \in Frame
    BY <1>1, <2>1 DEF CallType
  <2>3. x.pool \in Pools
    BY <2>2 DEF Frame
  <2>4. HasPool(pc[t], call[t], x.pool)
    BY <2>1 DEF HasPool
  <2>. QED BY <1>1, <2>3, <2>4 DEF PoolInv
<1>. QED BY <1>2, <1>3

-----------------------------------------------------------------------------
(* The end of the queue                                                    *)

LEMMA EmptyStep ==
  ASSUME Base, DropInv, EmptyInv, [Next]_vars
  PROVE  EmptyInv'
<1>. TypeOK /\ PcInv /\ FrameInv
  BY DEF Base, LifeInv
<1>1. CASE dropped
  <2>1. \A t \in Threads : pc[t] = "idle"
    BY <1>1 DEF DropInv
  <2>2. ~Drop /\ \A t \in Threads : ~Busy(t) /\ ~PoolBusy(t)
    <3>1. ~Drop
      BY <1>1 DEF Drop
    <3>2. ASSUME NEW t \in Threads PROVE ~Busy(t)
      BY <2>1 DEF Busy, Submit, SubmitFails, Cleanup, HarvestFrame, EvictFrame, Track,
                  RecycleOld, HarvestEnds, HarvestFails, WaitTest, Unpin, RecycleWaited
    <3>3. ASSUME NEW t \in Threads PROVE ~PoolBusy(t)
      BY <1>1, <2>1 DEF PoolBusy, BeginSubmit, Begin, MayCall, Submit, Cleanup,
                  HarvestFrame, EvictFrame, HarvestEnds, HarvestFails
    <3>. QED BY <3>1, <3>2, <3>3
  <2>3. UNCHANGED <<frames, free_pools>>
    BY <2>2, PoolCases DEF PoolCase, PoolStill
  <2>4. UNCHANGED free_fences
    BY <2>2, QuietStep DEF Quiet, GpuFinish
  <2>. QED BY <1>1, <2>3, <2>4 DEF EmptyInv
<1>2. CASE ~dropped
  <2>1. CASE Drop
    BY <2>1 DEF Drop, EmptyInv
  <2>2. CASE Quiet \/ GpuFinish
    BY <1>2, <2>2 DEF Quiet, GpuFinish, EmptyInv
  <2>3. ASSUME NEW t \in Threads, Busy(t) PROVE EmptyInv'
    <3>1. dropped' = dropped
      BY <2>3 DEF Busy, Submit, SubmitFails, Cleanup, HarvestFrame, EvictFrame, Track,
                  RecycleOld, HarvestEnds, HarvestFails, WaitTest, Unpin, RecycleWaited
    <3>. QED BY <1>2, <3>1 DEF EmptyInv
  <2>. QED BY <2>1, <2>2, <2>3, QuietStep
<1>. QED BY <1>1, <1>2

\* Nobody is left to hold what the queue does not.
LEMMA NothingLeft ==
  ASSUME TypeOK, PcInv, PinInv, HomeInv, PoolInv, DropInv, EmptyInv, dropped
  PROVE  live_pools = {} /\ \A f \in Fences : fence_state[f] = "absent"
<1>1. /\ frames = <<>> /\ free_pools = <<>> /\ free_fences = <<>>
      /\ \A t \in Threads : pc[t] = "idle" /\ call[t].frame = None
  BY DEF EmptyInv, DropInv, PcInv, PcOK
<1>2. pending_destroy = {}
  <2>1. \A f \in Fences : Pins(f) = {}
    BY <1>1 DEF Pins, Looking
  <2>2. ASSUME NEW f \in pending_destroy PROVE FALSE
    <3>1. f \in Fences /\ pinned[f] > 0 /\ pinned[f] = Cardinality(Pins(f))
      BY DEF TypeOK, TrackerType, PinInv
    <3>. QED BY <2>1, <3>1, FS_EmptySet
  <2>. QED BY <2>2
<1>3. Free = {} /\ FreePools = {} /\ StoredPools = {} /\ DOMAIN frames = {}
  BY <1>1 DEF Free, FreePools, StoredPools, Stored
<1>4. \A t \in Threads : \A x : ~HasPool(pc[t], call[t], x) /\ ~Keeps(pc[t], call[t], x)
  BY <1>1 DEF HasPool, Keeps
<1>5. live_pools = {}
  BY <1>3, <1>4 DEF PoolInv
<1>6. \A f \in Fences : fence_state[f] = "absent"
  BY <1>2, <1>3, <1>4 DEF HomeInv, Placed
<1>. QED BY <1>5, <1>6

-----------------------------------------------------------------------------
(* The surface has one caller at a time                                    *)

LEMMA SurfaceCases ==
  ASSUME TypeOK, [Next]_vars
  PROVE  SurfaceCase
<1>. CallsType /\ pc \in [Threads -> Labels] /\ call \in [Threads -> CallType]
  BY DEF TypeOK, CallsType
<1>s. SurfaceStill => SurfaceCase
  BY DEF SurfaceCase
<1>r. \A t \in Threads : call[t].resume \in {"harvest", "limit"}
  BY DEF CallType
<1>1. ASSUME NEW t \in Threads, SubmitStep(t) PROVE SurfaceCase
  <2>1. ASSUME NEW op \in Ops, BeginSubmit(t, op) PROVE SurfaceCase
    BY <1>s, <1>r, <2>1 DEF BeginSubmit, Begin, Goto, TakePool, SurfaceStill, SurfaceCalls, Surfacing, Presenting, Configured, MayCall
  <2>2. CASE Record(t)
    BY <1>s, <1>r, <2>2 DEF Record, Goto, SurfaceStill, SurfaceCalls, Surfacing, Presenting, Configured
  <2>3. CASE RecordFails(t)
    BY <1>s, <1>r, <2>3 DEF RecordFails, Goto, SurfaceStill, SurfaceCalls, Surfacing, Presenting, Configured
  <2>4. CASE Submit(t)
    BY <2>4 DEF SurfaceCase
  <2>5. CASE SubmitFails(t)
    BY <1>s, <1>r, <2>5 DEF SubmitFails, Goto, TakeFence, Fails, SurfaceStill, SurfaceCalls, Surfacing, Presenting, Configured
  <2>6. CASE Cleanup(t)
    BY <1>s, <1>r, <2>6 DEF Cleanup, Return, SurfaceStill, SurfaceCalls, Surfacing, Presenting, Configured
  <2>. QED BY <1>1, <2>1, <2>2, <2>3, <2>4, <2>5, <2>6 DEF SubmitStep
<1>2. ASSUME NEW t \in Threads, RetireStep(t) PROVE SurfaceCase
  <2>1. CASE LockRetire(t)
    BY <1>s, <1>r, <2>1 DEF LockRetire, Goto, SurfaceStill, SurfaceCalls, Surfacing, Presenting, Configured
  <2>2. CASE TryHarvest(t)
    BY <1>s, <1>r, <2>2 DEF TryHarvest, Goto, Return, SurfaceStill, SurfaceCalls, Surfacing, Presenting, Configured
  <2>3. CASE HarvestFrame(t)
    BY <1>s, <1>r, <2>3 DEF HarvestFrame, PopFrame, Goto, FrontFrame, SurfaceStill, SurfaceCalls, Surfacing, Presenting, Configured
  <2>4. CASE Track(t)
    <3>1. call[t].resume \notin Surfacing /\ pc[t] \notin Surfacing
      BY <1>r, <2>4 DEF Surfacing, Presenting, Configured, Track
    <3>. QED
      BY <1>s, <3>1, <2>4 DEF Track, Goto, Resume, SurfaceStill, SurfaceCalls, Surfacing, Presenting, Configured
  <2>5. CASE RecycleOld(t)
    <3>1. call[t].resume \notin Surfacing /\ pc[t] \notin Surfacing
      BY <1>r, <2>5 DEF Surfacing, Presenting, Configured, RecycleOld
    <3>. QED
      BY <1>s, <3>1, <2>5 DEF RecycleOld, Resume, Goto, SurfaceStill, SurfaceCalls, Surfacing, Presenting, Configured
  <2>6. CASE HarvestEnds(t)
    BY <1>s, <1>r, <2>6 DEF HarvestEnds, Goto, Return, SurfaceStill, SurfaceCalls, Surfacing, Presenting, Configured
  <2>7. CASE HarvestFails(t)
    BY <1>s, <1>r, <2>7 DEF HarvestFails, Return, SurfaceStill, SurfaceCalls, Surfacing, Presenting, Configured
  <2>8. CASE EvictFrame(t)
    BY <1>s, <1>r, <2>8 DEF EvictFrame, PopFrame, Goto, FrontFrame, SurfaceStill, SurfaceCalls, Surfacing, Presenting, Configured
  <2>9. CASE EvictFails(t)
    BY <1>s, <1>r, <2>9 DEF EvictFails, Return, SurfaceStill, SurfaceCalls, Surfacing, Presenting, Configured
  <2>10. CASE SubmitReturns(t)
    BY <1>s, <1>r, <2>10 DEF SubmitReturns, Return, Goto, SurfaceStill, SurfaceCalls, Surfacing, Presenting, Configured
  <2>. QED BY <1>2, <2>1, <2>2, <2>3, <2>4, <2>5, <2>6, <2>7, <2>8, <2>9, <2>10 DEF RetireStep
<1>3. ASSUME NEW t \in Threads, WaitStep(t) PROVE SurfaceCase
  <2>1. CASE BeginWait(t)
    BY <1>s, <1>r, <2>1 DEF BeginWait, Begin, Goto, SurfaceStill, SurfaceCalls, Surfacing, Presenting, Configured, MayCall
  <2>2. CASE WaitTest(t)
    BY <1>s, <1>r, <2>2 DEF WaitTest, Goto, Return, SurfaceStill, SurfaceCalls, Surfacing, Presenting, Configured
  <2>3. CASE Wait(t)
    BY <1>s, <1>r, <2>3 DEF Wait, Goto, SurfaceStill, SurfaceCalls, Surfacing, Presenting, Configured
  <2>4. CASE WaitFails(t)
    BY <1>s, <1>r, <2>4 DEF WaitFails, Goto, SurfaceStill, SurfaceCalls, Surfacing, Presenting, Configured
  <2>5. CASE Unpin(t)
    BY <1>s, <1>r, <2>5 DEF Unpin, Goto, Waited, Return, SurfaceStill, SurfaceCalls, Surfacing, Presenting, Configured
  <2>6. CASE RecycleWaited(t)
    BY <1>s, <1>r, <2>6 DEF RecycleWaited, Waited, Goto, Return, SurfaceStill, SurfaceCalls, Surfacing, Presenting, Configured
  <2>7. CASE Poll(t)
    BY <1>s, <1>r, <2>7 DEF Poll, Begin, Goto, SurfaceStill, SurfaceCalls, Surfacing, Presenting, Configured, MayCall
  <2>8. CASE PollFails(t)
    BY <1>s, <1>r, <2>8 DEF PollFails, SurfaceStill, SurfaceCalls, Surfacing, Presenting, Configured, MayCall
  <2>9. CASE BeginWaitIdle(t)
    BY <1>s, <1>r, <2>9 DEF BeginWaitIdle, Begin, Goto, SurfaceStill, SurfaceCalls, Surfacing, Presenting, Configured, MayCall
  <2>10. CASE WaitIdle(t)
    BY <1>s, <1>r, <2>10 DEF WaitIdle, Goto, SurfaceStill, SurfaceCalls, Surfacing, Presenting, Configured
  <2>11. CASE WaitIdleFails(t)
    BY <1>s, <1>r, <2>11 DEF WaitIdleFails, Return, SurfaceStill, SurfaceCalls, Surfacing, Presenting, Configured
  <2>. QED BY <1>3, <2>1, <2>2, <2>3, <2>4, <2>5, <2>6, <2>7, <2>8, <2>9, <2>10, <2>11 DEF WaitStep
<1>4. ASSUME NEW t \in Threads, AcquireStep(t) PROVE SurfaceCase
  <2>1. CASE GetCurrentTexture(t) \/ AcquireImage(t) \/ AcquireFails(t) \/ PublishAcquire(t)
    BY <2>1 DEF SurfaceCase, SurfaceAct
  <2>2. CASE AcquireBlocked(t)
    BY <1>s, <1>r, <2>2 DEF AcquireBlocked, vars, SurfaceStill, SurfaceCalls, Surfacing, Presenting, Configured
  <2>. QED BY <1>4, <2>1, <2>2 DEF AcquireStep
<1>5. ASSUME NEW t \in Threads, PresentStep(t) PROVE SurfaceCase
  <2>1. CASE Present(t) \/ PresentFlushFails(t) \/ TakePending(t) \/ Transition(t) \/ TransitionFails(t) \/ Recover(t) \/ Ring(t) \/ QueuePresent(t)
    BY <2>1 DEF SurfaceCase, SurfaceAct
  <2>. QED BY <1>5, <2>1 DEF PresentStep
<1>6. ASSUME NEW t \in Threads, ConfigureStep(t) PROVE SurfaceCase
  <2>1. CASE Configure(t) \/ TeardownIdle(t) \/ DestroySync(t) \/ ResetPending(t)
    BY <2>1 DEF SurfaceCase, SurfaceAct
  <2>. QED BY <1>6, <2>1 DEF ConfigureStep
<1>7. CASE GpuFinish
  BY <1>7 DEF SurfaceCase
<1>8. ASSUME NEW i \in Images, ImageFree(i) PROVE SurfaceCase
  BY <1>8 DEF SurfaceCase
<1>9. CASE Drop
  BY <1>s, <1>r, <1>9 DEF Drop, SurfaceStill, SurfaceCalls, Surfacing, Presenting, Configured
<1>10. CASE UNCHANGED vars
  BY <1>s, <1>r, <1>10 DEF vars, SurfaceStill, SurfaceCalls, Surfacing, Presenting, Configured
<1>. QED BY <1>1, <1>2, <1>3, <1>4, <1>5, <1>6, <1>7, <1>8, <1>9, <1>10 DEF Next, Ended

\* Nobody else is in a call on the surface.
LEMMA Solo ==
  ASSUME CallsType, LockInv, NEW t \in Threads, SurfaceAct(t)
  PROVE  /\ \A u \in Threads \ {t} : /\ pc[u] \notin Surfacing /\ pc'[u] \notin Surfacing
                                     /\ call'[u] = call[u]
         /\ surface.lock = t \/ pc[t] \notin Surfacing
<1>1. \/ surface.lock = NoThread
      \/ pc[t] \in Surfacing
  BY DEF SurfaceAct, Surfacing, Presenting, Configured, GetCurrentTexture, AcquireImage,
         AcquireFails, PublishAcquire, Present, PresentFlushFails, TakePending, Transition,
         TransitionFails, Recover, Ring, QueuePresent, Configure, TeardownIdle, DestroySync,
         ResetPending, MaySurface
<1>2. \A u \in Threads \ {t} : pc[u] \notin Surfacing
  BY <1>1, VulkanAssumption DEF LockInv
<1>3. \A u \in Threads \ {t} : pc'[u] = pc[u] /\ call'[u] = call[u]
  BY DEF SurfaceAct, CallsType, GetCurrentTexture, AcquireImage,
         AcquireFails, PublishAcquire, Present, PresentFlushFails, TakePending, Transition,
         TransitionFails, Recover, Ring, QueuePresent, Configure, TeardownIdle, DestroySync,
         ResetPending, Goto, Return
<1>. QED BY <1>1, <1>2, <1>3, VulkanAssumption DEF LockInv

LEMMA LockStep ==
  ASSUME TypeOK, LockInv, [Next]_vars
  PROVE  LockInv'
<1>. CallsType /\ surface \in SurfaceType /\ pc \in [Threads -> Labels] /\ call \in [Threads -> CallType]
  BY DEF TypeOK, CallsType, SurfacesType
<1>1. CASE SurfaceStill
  BY <1>1 DEF SurfaceStill, SurfaceCalls, LockInv
<1>2. ASSUME NEW t \in Threads, Submit(t) PROVE LockInv'
  <2>1. surface'.lock = surface.lock /\ \A u \in Threads : pc'[u] \in Surfacing => pc[u] \in Surfacing
    BY <1>2 DEF Submit, Consume, Goto, Surfacing, Presenting, Configured, SurfaceType
  <2>. QED BY <2>1 DEF LockInv
<1>3. ASSUME NEW t \in Threads, SurfaceAct(t) PROVE LockInv'
  <2>1. pc'[t] \in Surfacing => surface'.lock = t
    <3>. pc[t] \in Surfacing => surface.lock = t
      BY DEF LockInv
    <3>. USE DEF Surfacing, Presenting, Configured, Goto, Return, SurfaceType
    <3>1. CASE GetCurrentTexture(t)
      BY <3>1 DEF GetCurrentTexture, MaySurface
    <3>2. CASE AcquireImage(t)
      BY <3>2 DEF AcquireImage, MaySurface
    <3>3. CASE AcquireFails(t)
      BY <3>3 DEF AcquireFails, MaySurface
    <3>4. CASE PublishAcquire(t)
      BY <3>4 DEF PublishAcquire, MaySurface
    <3>5. CASE Present(t)
      BY <3>5 DEF Present, MaySurface
    <3>6. CASE PresentFlushFails(t)
      BY <3>6 DEF PresentFlushFails, MaySurface
    <3>7. CASE TakePending(t)
      BY <3>7 DEF TakePending, MaySurface
    <3>8. CASE Transition(t)
      BY <3>8 DEF Transition, MaySurface
    <3>9. CASE TransitionFails(t)
      BY <3>9 DEF TransitionFails, MaySurface
    <3>10. CASE Recover(t)
      BY <3>10 DEF Recover, MaySurface
    <3>11. CASE Ring(t)
      BY <3>11 DEF Ring, MaySurface
    <3>12. CASE QueuePresent(t)
      BY <3>12 DEF QueuePresent, MaySurface
    <3>13. CASE Configure(t)
      BY <3>13 DEF Configure, MaySurface
    <3>14. CASE TeardownIdle(t)
      BY <3>14 DEF TeardownIdle, MaySurface
    <3>15. CASE DestroySync(t)
      BY <3>15 DEF DestroySync, MaySurface
    <3>16. CASE ResetPending(t)
      BY <3>16 DEF ResetPending, MaySurface
    <3>. QED
      BY <1>3, <3>1, <3>2, <3>3, <3>4, <3>5, <3>6, <3>7, <3>8, <3>9, <3>10, <3>11, <3>12, <3>13, <3>14, <3>15, <3>16 DEF SurfaceAct
  <2>. QED BY <1>3, <2>1, Solo DEF LockInv
<1>4. CASE GpuFinish
  BY <1>4 DEF GpuFinish, LockInv
<1>5. ASSUME NEW i \in Images, ImageFree(i) PROVE LockInv'
  BY <1>5 DEF ImageFree, LockInv
<1>. QED BY <1>1, <1>2, <1>3, <1>4, <1>5, SurfaceCases DEF SurfaceCase

-----------------------------------------------------------------------------
(* The acquired frame that is not yet presented                            *)

\* Every step of the GPU or of submissions that the surface does not notice.
LEMMA PendingKept ==
  ASSUME PendingInv, SurfaceCalls,
         surface'.image_index = surface.image_index, surface'.current = surface.current,
         surface'.skipped = surface.skipped, surface'.next_sync = surface.next_sync,
         surface'.pending = NoAcquire <=> surface.pending = NoAcquire,
         surface'.pending.sync = surface.pending.sync,
         surface'.pending.image = surface.pending.image,
         frame_fence[surface.next_sync] = "signaled"
           => frame_fence'[surface.next_sync] = "signaled"
  PROVE  PendingInv'
<1>1. \A t \in Threads : PendingOK(pc[t], call[t].acquire)'
  BY DEF SurfaceCalls, PendingInv, PendingOK, Surfacing, Presenting
<1>2. \A t \in Threads : pc[t] \in {"present"} \cup Configured => pc'[t] = pc[t]
  BY DEF SurfaceCalls, Surfacing
<1>. QED BY <1>1, <1>2 DEF PendingInv

\* A submission leaves the acquired frame acquired.
LEMMA ConsumeFacts ==
  ASSUME surface \in SurfaceType, Consume
  PROVE  /\ surface' \in SurfaceType
         /\ surface'.lock = surface.lock /\ surface'.ring = surface.ring
         /\ surface'.image_index = surface.image_index /\ surface'.current = surface.current
         /\ surface'.skipped = surface.skipped /\ surface'.next_sync = surface.next_sync
         /\ surface'.pending = NoAcquire <=> surface.pending = NoAcquire
         /\ surface'.pending.sync = surface.pending.sync
         /\ surface'.pending.image = surface.pending.image
         /\ surface.pending # NoAcquire => surface'.pending.consumed
<1>0. surface.pending \in AcquireType /\ NoAcquire.consumed = FALSE
  BY DEF SurfaceType, NoAcquire
<1>1. CASE surface.pending = NoAcquire
  BY <1>1 DEF Consume
<1>2. CASE surface.pending # NoAcquire
  <2>1. surface' = [surface EXCEPT !.pending.consumed = TRUE]
    BY <1>2 DEF Consume
  <2>2. surface' \in SurfaceType
    BY Zenon, <2>1, SurfaceEdits
  <2>3. surface'.pending = [surface.pending EXCEPT !.consumed = TRUE]
    BY <2>1 DEF SurfaceType
  <2>4. /\ surface'.lock = surface.lock /\ surface'.ring = surface.ring
        /\ surface'.image_index = surface.image_index /\ surface'.current = surface.current
        /\ surface'.skipped = surface.skipped /\ surface'.next_sync = surface.next_sync
    BY <2>1 DEF SurfaceType
  <2>5. /\ surface'.pending.sync = surface.pending.sync
        /\ surface'.pending.image = surface.pending.image
        /\ surface'.pending.consumed
    BY <1>0, <2>3 DEF AcquireType
  <2>6. surface'.pending # NoAcquire
    BY <1>0, <2>5
  <2>. QED BY <1>2, <2>2, <2>4, <2>5, <2>6
<1>. QED BY <1>1, <1>2

LEMMA SubmitCalls ==
  ASSUME CallsType, NEW t \in Threads, Submit(t)
  PROVE  SurfaceCalls
  BY DEF Submit, Goto, CallsType, SurfaceCalls, Surfacing, Presenting, Configured

\* The GPU signals fences and takes none back.
LEMMA FinishFacts ==
  ASSUME TypeOK, GpuFinish
  PROVE  \A s \in Images : frame_fence[s] = "signaled" => frame_fence'[s] = "signaled"
  BY DEF GpuFinish, TypeOK, SurfacesType

LEMMA PendingStep ==
  ASSUME TypeOK, LockInv, PendingInv, [Next]_vars
  PROVE  PendingInv'
<1>. /\ CallsType /\ surface \in SurfaceType /\ pc \in [Threads -> Labels]
     /\ call \in [Threads -> CallType] /\ frame_fence \in [Images -> States]
     /\ surface.pending \in AcquireType /\ surface.next_sync \in Images
  BY DEF TypeOK, CallsType, SurfacesType, SurfaceType
<1>1. CASE SurfaceStill
  BY <1>1, PendingKept DEF SurfaceStill
<1>2. ASSUME NEW t \in Threads, Submit(t) PROVE PendingInv'
  <2>1. SurfaceCalls /\ Consume /\ frame_fence' = frame_fence
    BY Zenon, <1>2, SubmitCalls DEF Submit
  <2>. QED BY <2>1, ConsumeFacts, PendingKept
<1>3. ASSUME NEW t \in Threads, SurfaceAct(t) PROVE PendingInv'
  <2>0. /\ \A u \in Threads \ {t} : /\ pc[u] \notin Surfacing /\ pc'[u] \notin Surfacing
                                    /\ call'[u] = call[u]
        /\ call[t] \in CallType /\ call[t].acquire \in AcquireType
        /\ PendingOK(pc[t], call[t].acquire)
    BY <1>3, Solo DEF CallType, PendingInv
  <2> DEFINE Stays == surface.current \/ surface.pending.sync \in surface.skipped
                       \/ pc[t] \in {"present"} \cup Configured
             State == /\ surface.image_index # None => surface.pending # NoAcquire
                      /\ surface.pending # NoAcquire =>
                           /\ surface.pending.sync \in Images
                           /\ surface.pending.image \in Images /\ Stays
  <2>1. State
    BY <2>0 DEF PendingInv, Surfacing
  <2>2. SUFFICES State' /\ PendingOK(pc[t], call[t].acquire)'
    <3>1. SUFFICES ASSUME State', PendingOK(pc[t], call[t].acquire)' PROVE PendingInv'
      OBVIOUS
    <3>2. \A u \in Threads \ {t} : PendingOK(pc[u], call[u].acquire)'
      BY <2>0 DEF PendingOK, Surfacing, Presenting
    <3>. QED BY <3>1, <3>2 DEF PendingInv
  <2>p. ASSUME QueuePresent(t)
        PROVE  /\ surface'.pending = surface.pending /\ surface'.image_index = surface.image_index
               /\ surface'.current = surface.current /\ surface'.skipped = surface.skipped
               /\ surface'.next_sync = surface.next_sync
    <3>1. CASE surface' = [surface EXCEPT !.lock = NoThread]
      BY <3>1 DEF SurfaceType
    <3>2. CASE surface' = [surface EXCEPT !.lock = NoThread, !.present_error = TRUE]
      BY <3>2 DEF SurfaceType
    <3>. QED BY <2>p, <3>1, <3>2 DEF QueuePresent
  <2>. USE <2>0, <2>1 DEF PendingOK, Surfacing, Presenting, Configured, Goto, Return,
           SurfaceType, AcquireType, NoAcquire, NoCall
  <2>3. CASE GetCurrentTexture(t)
    BY <2>3 DEF GetCurrentTexture, MaySurface
  <2>4. CASE AcquireImage(t)
    BY <2>4 DEF AcquireImage, MaySurface
  <2>5. CASE AcquireFails(t)
    BY <2>5 DEF AcquireFails, MaySurface
  <2>6. CASE PublishAcquire(t)
    BY <2>6, VulkanAssumption DEF PublishAcquire
  <2>7. CASE Present(t)
    BY <2>7 DEF Present, MaySurface
  <2>8. CASE PresentFlushFails(t)
    BY <2>8 DEF PresentFlushFails, MaySurface
  <2>9. CASE TakePending(t)
    BY <2>9 DEF TakePending, MaySurface
  <2>10. CASE Transition(t)
    BY <2>10 DEF Transition, MaySurface
  <2>11. CASE TransitionFails(t)
    BY <2>11 DEF TransitionFails, MaySurface
  <2>12. CASE Recover(t)
    BY <2>12 DEF Recover, MaySurface
  <2>13. CASE Ring(t)
    BY <2>13 DEF Ring, MaySurface
  <2>14. CASE QueuePresent(t)
    <3>1. /\ pc[t] = "queue_present" /\ frame_fence' = frame_fence
          /\ pc' = [pc EXCEPT ![t] = "idle"] /\ call' = [call EXCEPT ![t] = NoCall]
      BY <2>14 DEF QueuePresent
    <3>2. pc'[t] = "idle" /\ call'[t].acquire = NoAcquire
      BY <3>1
    <3>3. PendingOK(pc[t], call[t].acquire)'
      BY <3>2
    <3>4. surface.pending # NoAcquire => surface.current \/ surface.pending.sync \in surface.skipped
      BY <3>1
    <3>5. State'
      BY Zenon, <2>14, <2>p, <3>4
    <3>. QED BY <3>3, <3>5
  <2>15. CASE Configure(t)
    BY <2>15 DEF Configure, MaySurface
  <2>16. CASE TeardownIdle(t)
    BY <2>16 DEF TeardownIdle, MaySurface
  <2>17. CASE DestroySync(t)
    BY <2>17 DEF DestroySync, MaySurface
  <2>18. CASE ResetPending(t)
    BY <2>18 DEF ResetPending, MaySurface, NewSurface
  <2>. QED
    BY <1>3, <2>3, <2>4, <2>5, <2>6, <2>7, <2>8, <2>9, <2>10, <2>11, <2>12, <2>13, <2>14, <2>15, <2>16, <2>17, <2>18 DEF SurfaceAct
<1>4. CASE GpuFinish
  <2>1. UNCHANGED <<surface, pc, call>>
    BY <1>4 DEF GpuFinish
  <2>. QED BY <1>4, <2>1, FinishFacts, PendingKept DEF SurfaceCalls
<1>5. ASSUME NEW i \in Images, ImageFree(i) PROVE PendingInv'
  <2>1. UNCHANGED <<surface, pc, call, frame_fence>>
    BY <1>5 DEF ImageFree
  <2>. QED BY <2>1, PendingKept DEF SurfaceCalls
<1>. QED BY <1>1, <1>2, <1>3, <1>4, <1>5, SurfaceCases DEF SurfaceCase

-----------------------------------------------------------------------------
(* What signals a frame's fence                                            *)

LEMMA RunningGrows ==
  ASSUME GpuType, NEW w \in WorkType, gpu' = Append(gpu, w), done' = done
  PROVE  \E n \in DOMAIN gpu' : /\ Running' = Running \cup {n} /\ n \notin DOMAIN gpu /\ gpu'[n] = w
                                /\ DOMAIN gpu' = DOMAIN gpu \cup {n}
                                /\ Running \subseteq DOMAIN gpu
                                /\ \A k \in DOMAIN gpu : gpu'[k] = gpu[k]
                                /\ n \in Nat /\ \A k \in DOMAIN gpu : k \in Nat /\ k < n
<1>1. /\ done \in Nat /\ done \in 0 .. Len(gpu)
      /\ Len(gpu) \in Nat /\ Len(gpu') = Len(gpu) + 1
      /\ DOMAIN gpu = 1 .. Len(gpu) /\ DOMAIN gpu' = 1 .. Len(gpu) + 1
      /\ gpu'[Len(gpu) + 1] = w
      /\ \A k \in DOMAIN gpu : gpu'[k] = gpu[k]
  BY GpuAppend DEF GpuType
<1>2. Running' = Running \cup {Len(gpu) + 1} /\ Running \subseteq DOMAIN gpu
  BY <1>1 DEF Running
<1>3. Len(gpu) + 1 \in DOMAIN gpu' /\ Len(gpu) + 1 \notin DOMAIN gpu
      /\ DOMAIN gpu' = DOMAIN gpu \cup {Len(gpu) + 1}
      /\ \A k \in DOMAIN gpu : k \in Nat /\ k < Len(gpu) + 1
  BY <1>1
<1>. QED BY <1>1, <1>2, <1>3

LEMMA RunningEnds ==
  ASSUME GpuType, GpuFinish
  PROVE  /\ gpu' = gpu /\ done + 1 \in Running /\ Running' = Running \ {done + 1}
         /\ Running \subseteq DOMAIN gpu
  BY DEF GpuType, GpuFinish, Running

\* A submission is not a present.
LEMMA SubmitOwes ==
  ASSUME TypeOK, PcInv, WorkSync, NEW t \in Threads, Submit(t)
  PROVE  /\ WorkSync' /\ Owed' = Owed
         /\ RingInv /\ surface'.ring = surface.ring => RingInv'
<1>. GpuType /\ surface \in SurfaceType /\ call \in [Threads -> CallType] /\ CallsType
  BY DEF TypeOK, SurfacesType, CallsType
<1>1. PICK w \in WorkType : gpu' = Append(gpu, w) /\ w.index = last_issued + 1 /\ w.sync = None
  BY SubmitShape
<1>2. w.index # 0 /\ done' = done
  BY <1>1 DEF TypeOK, TrackerType, Submit, Accept
<1>3. PICK n \in DOMAIN gpu' :
        /\ Running' = Running \cup {n} /\ n \notin DOMAIN gpu /\ gpu'[n] = w
        /\ DOMAIN gpu' = DOMAIN gpu \cup {n} /\ Running \subseteq DOMAIN gpu
        /\ \A k \in DOMAIN gpu : gpu'[k] = gpu[k]
  BY <1>1, <1>2, RunningGrows
<1>4. Owed' = Owed
  BY <1>2, <1>3 DEF Owed
<1>5. WorkSync'
  BY <1>1, <1>2, <1>3, VulkanAssumption DEF WorkSync
<1>6. ASSUME RingInv, surface'.ring = surface.ring PROVE RingInv'
  <2>1. \A u \in Threads : pc[u] = "ring" => pc'[u] = "ring" /\ call'[u].acquire = call[u].acquire
    BY SubmitCalls DEF SurfaceCalls, Surfacing, Presenting
  <2>2. \A s : InRing(s) => InRing(s)'
    BY <1>6, <2>1 DEF InRing
  <2>3. \A k \in Running' : gpu'[k].index = 0 => k \in Running /\ gpu'[k] = gpu[k]
    BY <1>2, <1>3
  <2>. QED BY <1>6, <2>2, <2>3 DEF RingInv
<1>. QED BY <1>4, <1>5, <1>6

\* A present, or the empty submission that takes its place, owes its frame.
LEMMA PresentOwes ==
  ASSUME TypeOK, WorkSync, NEW t \in Threads, Transition(t) \/ Recover(t),
         call[t].acquire.sync \in Images, call[t].acquire.sync \notin Owed
  PROVE  WorkSync' /\ Owed' = Owed \cup {call[t].acquire.sync}
<1>. GpuType
  BY DEF TypeOK
<1>1. PICK w \in WorkType : gpu' = Append(gpu, w) /\ w.index = 0 /\ w.sync = call[t].acquire.sync
  BY PresentShape
<1>2. done' = done
  BY DEF Transition, Recover, Accept
<1>3. PICK n \in DOMAIN gpu' :
        /\ Running' = Running \cup {n} /\ n \notin DOMAIN gpu /\ gpu'[n] = w
        /\ DOMAIN gpu' = DOMAIN gpu \cup {n} /\ Running \subseteq DOMAIN gpu
        /\ \A k \in DOMAIN gpu : gpu'[k] = gpu[k]
  BY <1>1, <1>2, RunningGrows
<1>4. Owed' = Owed \cup {w.sync}
  BY <1>1, <1>3 DEF Owed
<1>5. ASSUME NEW k \in Running PROVE gpu[k].sync # w.sync
  <2>1. CASE gpu[k].index = 0
    BY <1>1, <2>1 DEF Owed
  <2>2. CASE gpu[k].index # 0
    BY <1>1, <1>3, <2>2, VulkanAssumption DEF WorkSync
  <2>. QED BY <2>1, <2>2
<1>6. WorkSync'
  BY <1>1, <1>3, <1>5 DEF WorkSync
<1>. QED BY <1>1, <1>4, <1>6

LEMMA FinishOwes ==
  ASSUME TypeOK, WorkSync, SyncInv, GpuFinish
  PROVE  WorkSync' /\ SyncInv'
<1>. GpuType /\ frame_fence \in [Images -> States]
  BY DEF TypeOK, SurfacesType
<1>1. /\ gpu' = gpu /\ done + 1 \in Running /\ Running' = Running \ {done + 1}
      /\ Running \subseteq DOMAIN gpu /\ UNCHANGED <<surface, pc, call>>
  BY RunningEnds DEF GpuFinish
<1>2. WorkSync'
  BY <1>1 DEF WorkSync
<1>3. Claims' = Claims /\ (Torn' <=> Torn) /\ Owed' \subseteq Owed
  BY <1>1 DEF Claims, Torn, Owed
<1>4. CASE gpu[done + 1].index # 0
  <2>1. Owed' = Owed /\ frame_fence' = frame_fence
    BY <1>1, <1>4 DEF Owed, GpuFinish
  <2>. QED BY <1>1, <1>2, <1>3, <2>1 DEF SyncInv
<1>5. CASE gpu[done + 1].index = 0
  <2>1. PICK s \in Images : s = gpu[done + 1].sync
    BY <1>1, <1>5 DEF WorkSync
  <2>2. frame_fence' = [frame_fence EXCEPT ![s] = "signaled"]
    BY <1>5, <2>1 DEF GpuFinish
  <2>3. Owed' = Owed \ {s} /\ s \in Owed
    BY <1>1, <1>5, <2>1 DEF Owed, WorkSync
  <2>4. s \notin Claims
    BY <2>3 DEF SyncInv
  <2>5. Claims \subseteq Images
    BY DEF Claims
  <2>6. Owed \subseteq Images
    BY <1>1 DEF Owed, WorkSync
  <2>. QED BY <1>1, <1>2, <1>3, <2>1, <2>2, <2>3, <2>4, <2>5, <2>6 DEF SyncInv
<1>. QED BY <1>4, <1>5

LEMMA SyncSame ==
  ASSUME SyncInv, Owed' = Owed, Claims' = Claims, frame_fence' = frame_fence,
         surface.skipped \subseteq surface'.skipped, Torn' => Torn
  PROVE  SyncInv'
  BY DEF SyncInv

LEMMA SyncStep ==
  ASSUME TypeOK, PcInv, LockInv, PendingInv, WorkSync, SyncInv, [Next]_vars
  PROVE  WorkSync' /\ SyncInv'
<1>. /\ CallsType /\ GpuType /\ surface \in SurfaceType /\ pc \in [Threads -> Labels]
     /\ call \in [Threads -> CallType] /\ frame_fence \in [Images -> States]
     /\ surface.pending \in AcquireType /\ surface.next_sync \in Images
  BY DEF TypeOK, CallsType, SurfacesType, SurfaceType
<1>u. ASSUME UNCHANGED <<gpu, done>> PROVE Owed' = Owed /\ WorkSync'
  BY <1>u DEF Owed, WorkSync, Running
<1>1. CASE SurfaceStill
  <2>1. Claims' = Claims /\ (Torn' => Torn)
    BY <1>1 DEF SurfaceStill, SurfaceCalls, Claims, Torn, Surfacing, Presenting, Configured
  <2>. QED BY <1>1, <1>u, <2>1, SyncSame DEF SurfaceStill
<1>2. ASSUME NEW t \in Threads, Submit(t) PROVE WorkSync' /\ SyncInv'
  <2>1. SurfaceCalls /\ Consume /\ frame_fence' = frame_fence
    BY Zenon, <1>2, SubmitCalls DEF Submit
  <2>2. Claims' = Claims /\ (Torn' => Torn) /\ surface'.skipped = surface.skipped
    BY <2>1, ConsumeFacts DEF SurfaceCalls, Claims, Torn, Surfacing, Presenting, Configured
  <2>. QED BY <1>2, <2>1, <2>2, SubmitOwes, SyncSame
<1>3. ASSUME NEW t \in Threads, SurfaceAct(t) PROVE WorkSync' /\ SyncInv'
  <2>0. /\ \A u \in Threads \ {t} : /\ pc[u] \notin Surfacing /\ pc'[u] \notin Surfacing
                                    /\ call'[u] = call[u]
        /\ call[t] \in CallType /\ call[t].acquire \in AcquireType
        /\ PendingOK(pc[t], call[t].acquire)
    BY <1>3, Solo DEF CallType, PendingInv
  <2> DEFINE Mine2 == {s \in Images :
                         \/ surface.pending # NoAcquire /\ surface.pending.sync = s
                         \/ pc[t] \in {"transition", "recover"} /\ call[t].acquire.sync = s}
  <2>1. Claims = Mine2 /\ Claims' = Mine2'
    BY <2>0 DEF Claims, Surfacing, Presenting
  <2>2. /\ Torn <=> pc[t] \in {"destroy_sync", "reset_pending"}
        /\ Torn' <=> pc'[t] \in {"destroy_sync", "reset_pending"}
    BY <2>0 DEF Torn, Surfacing, Configured
  <2>. USE DEF Goto, Return
  <2>3. CASE GetCurrentTexture(t)
    <3>1. /\ pc[t] = "idle" /\ pc'[t] = "acquire" /\ UNCHANGED <<gpu, done, frame_fence>>
      BY <2>3 DEF GetCurrentTexture, MaySurface
    <3>2. surface'.pending = surface.pending /\ surface.skipped \subseteq surface'.skipped
      BY <2>3 DEF GetCurrentTexture, MaySurface, SurfaceType
    <3>3. Claims' = Claims /\ (Torn' => Torn)
      BY <2>1, <2>2, <3>1, <3>2
    <3>. QED BY <1>u, <3>1, <3>2, <3>3, SyncSame
  <2>4. CASE AcquireImage(t)
    <3>1. /\ pc[t] = "acquire" /\ pc'[t] = "acquired" /\ UNCHANGED <<gpu, done, frame_fence>>
      BY <2>4 DEF AcquireImage
    <3>2. surface'.pending = surface.pending /\ surface.skipped \subseteq surface'.skipped
      BY <2>4 DEF AcquireImage, SurfaceType
    <3>3. Claims' = Claims /\ (Torn' => Torn)
      BY <2>1, <2>2, <3>1, <3>2
    <3>. QED BY <1>u, <3>1, <3>2, <3>3, SyncSame
  <2>5. CASE AcquireFails(t)
    <3>1. /\ pc[t] = "acquire" /\ pc'[t] = "idle" /\ UNCHANGED <<gpu, done, frame_fence>>
      BY <2>5 DEF AcquireFails
    <3>2. surface'.pending = surface.pending /\ surface.skipped \subseteq surface'.skipped
      BY <2>5 DEF AcquireFails, SurfaceType
    <3>3. Claims' = Claims /\ (Torn' => Torn)
      BY <2>1, <2>2, <3>1, <3>2
    <3>. QED BY <1>u, <3>1, <3>2, <3>3, SyncSame
  <2>6. CASE PublishAcquire(t)
    <3>1. PICK s \in Images, i \in Images :
            /\ call[t].acquire.sync = s /\ call[t].acquire.image = i /\ s = surface.next_sync
            /\ frame_fence[s] = "signaled" /\ frame_fence' = [frame_fence EXCEPT ![s] = "unsignaled"]
            /\ UNCHANGED <<gpu, done>> /\ pc[t] = "acquired" /\ pc'[t] = "idle"
      BY <2>0, <2>6 DEF PublishAcquire, PendingOK
    <3>2. surface'.pending = call[t].acquire /\ surface'.skipped = surface.skipped
          /\ surface'.pending # NoAcquire
      BY <3>1, <2>6, VulkanAssumption DEF PublishAcquire, SurfaceType, NoAcquire
    <3>3. Claims' = {s}
      BY <2>1, <3>1, <3>2
    <3>4. surface.pending # NoAcquire => surface.pending.sync \in surface.skipped
      <4>1. ~surface.current /\ \A u \in Threads : pc[u] \notin {"present"} \cup Configured
        BY <2>0, <3>1 DEF PendingOK, Surfacing, Configured
      <4>. QED BY <4>1 DEF PendingInv
    <3>5. Claims \subseteq surface.skipped
      BY <2>1, <3>1, <3>4
    <3>6. Owed' = Owed /\ WorkSync' /\ ~Torn'
      BY <1>u, <2>2, <3>1
    <3>7. s \notin Owed /\ Owed \subseteq Images
      <4>1. Running \subseteq DOMAIN gpu
        BY DEF Running, GpuType
      <4>. QED BY <3>1, <4>1 DEF SyncInv, Owed, WorkSync
    <3>. QED BY <3>1, <3>2, <3>3, <3>5, <3>6, <3>7 DEF SyncInv
  <2>7. CASE Present(t)
    <3>1. /\ pc[t] = "idle" /\ pc'[t] = "present" /\ UNCHANGED <<gpu, done, frame_fence>>
      BY <2>7 DEF Present, MaySurface
    <3>2. surface'.pending = surface.pending /\ surface.skipped \subseteq surface'.skipped
      BY <2>7 DEF Present, MaySurface, SurfaceType
    <3>3. Claims' = Claims /\ (Torn' => Torn)
      BY <2>1, <2>2, <3>1, <3>2
    <3>. QED BY <1>u, <3>1, <3>2, <3>3, SyncSame
  <2>8. CASE PresentFlushFails(t)
    <3>1. /\ pc[t] = "idle" /\ pc'[t] = "idle" /\ UNCHANGED <<gpu, done, frame_fence>>
      BY <2>8 DEF PresentFlushFails, MaySurface
    <3>2. surface'.pending = surface.pending /\ surface.skipped \subseteq surface'.skipped
      BY <2>8 DEF PresentFlushFails, MaySurface, SurfaceType
    <3>3. Claims' = Claims /\ (Torn' => Torn)
      BY <2>1, <2>2, <3>1, <3>2
    <3>. QED BY <1>u, <3>1, <3>2, <3>3, SyncSame
  <2>9. CASE TakePending(t)
    <3>1. /\ pc[t] = "present" /\ pc'[t] = "transition" /\ UNCHANGED <<gpu, done, frame_fence>>
          /\ call'[t].acquire = surface.pending /\ surface.image_index # None
      BY <2>0, <2>9 DEF TakePending, PendingOK, CallType
    <3>2. surface'.pending = NoAcquire /\ surface'.skipped = surface.skipped \ {surface.pending.sync}
      BY <2>9 DEF TakePending, SurfaceType
    <3>3. surface.pending # NoAcquire /\ surface.pending.sync \in Images
      BY <3>1 DEF PendingInv
    <3>4. Claims = {surface.pending.sync} /\ Claims' = {surface.pending.sync} /\ ~Torn'
      BY <2>1, <2>2, <3>1, <3>2, <3>3
    <3>. QED BY <1>u, <3>1, <3>2, <3>4 DEF SyncInv
  <2>10. CASE Transition(t)
    <3>1. PICK s \in Images : /\ call[t].acquire.sync = s /\ surface.pending = NoAcquire
                            /\ pc[t] = "transition" /\ pc'[t] \in {"ring", "idle"}
                            /\ frame_fence' = frame_fence
      BY <2>0, <2>10 DEF Transition, PendingOK, Presenting
    <3>2. surface'.pending = NoAcquire /\ surface'.skipped = surface.skipped
      BY <3>1, <2>10 DEF Transition, SurfaceType
    <3>3. Claims = {s} /\ Claims' = {} /\ ~Torn'
      BY <2>1, <2>2, <3>1, <3>2
    <3>4. s \notin Owed
      BY <3>3 DEF SyncInv
    <3>5. WorkSync' /\ Owed' = Owed \cup {s}
      BY <3>1, <3>4, <2>10, PresentOwes
    <3>. QED BY <3>1, <3>2, <3>3, <3>5 DEF SyncInv
  <2>11. CASE TransitionFails(t)
    <3>1. /\ pc[t] = "transition" /\ pc'[t] = "recover" /\ UNCHANGED <<gpu, done, frame_fence>>
          /\ call'[t].acquire = call[t].acquire
      BY <2>11 DEF TransitionFails
    <3>2. surface'.pending = surface.pending /\ surface.skipped \subseteq surface'.skipped
      BY <2>11 DEF TransitionFails, SurfaceType
    <3>3. Claims' = Claims /\ (Torn' => Torn)
      BY <2>1, <2>2, <3>1, <3>2
    <3>. QED BY <1>u, <3>1, <3>2, <3>3, SyncSame
  <2>12. CASE Recover(t)
    <3>1. PICK s \in Images : /\ call[t].acquire.sync = s /\ surface.pending = NoAcquire
                            /\ pc[t] = "recover" /\ pc'[t] \in {"ring", "idle"}
                            /\ frame_fence' = frame_fence
      BY <2>0, <2>12 DEF Recover, PendingOK, Presenting
    <3>2. surface'.pending = NoAcquire /\ surface'.skipped = surface.skipped
      BY <3>1, <2>12 DEF Recover, SurfaceType
    <3>3. Claims = {s} /\ Claims' = {} /\ ~Torn'
      BY <2>1, <2>2, <3>1, <3>2
    <3>4. s \notin Owed
      BY <3>3 DEF SyncInv
    <3>5. WorkSync' /\ Owed' = Owed \cup {s}
      BY <3>1, <3>4, <2>12, PresentOwes
    <3>. QED BY <3>1, <3>2, <3>3, <3>5 DEF SyncInv
  <2>13. CASE Ring(t)
    <3>1. /\ pc[t] = "ring" /\ pc'[t] = "queue_present" /\ UNCHANGED <<gpu, done, frame_fence>>
      BY <2>13 DEF Ring
    <3>2. surface'.pending = surface.pending /\ surface.skipped \subseteq surface'.skipped
      BY <2>13 DEF Ring, SurfaceType
    <3>3. Claims' = Claims /\ (Torn' => Torn)
      BY <2>1, <2>2, <3>1, <3>2
    <3>. QED BY <1>u, <3>1, <3>2, <3>3, SyncSame
  <2>14. CASE QueuePresent(t)
    <3>1. /\ pc[t] = "queue_present" /\ pc'[t] = "idle" /\ UNCHANGED <<gpu, done, frame_fence>>
      BY <2>14 DEF QueuePresent
    <3>2. surface'.pending = surface.pending /\ surface.skipped \subseteq surface'.skipped
      BY <2>14 DEF QueuePresent, SurfaceType
    <3>3. Claims' = Claims /\ (Torn' => Torn)
      BY <2>1, <2>2, <3>1, <3>2
    <3>. QED BY <1>u, <3>1, <3>2, <3>3, SyncSame
  <2>15. CASE Configure(t)
    <3>1. /\ pc[t] = "idle" /\ pc'[t] = "teardown" /\ UNCHANGED <<gpu, done, frame_fence>>
      BY <2>15 DEF Configure, MaySurface
    <3>2. surface'.pending = surface.pending /\ surface.skipped \subseteq surface'.skipped
      BY <2>15 DEF Configure, MaySurface, SurfaceType
    <3>3. Claims' = Claims /\ (Torn' => Torn)
      BY <2>1, <2>2, <3>1, <3>2
    <3>. QED BY <1>u, <3>1, <3>2, <3>3, SyncSame
  <2>16. CASE TeardownIdle(t)
    <3>1. /\ pc[t] = "teardown" /\ pc'[t] = "destroy_sync" /\ UNCHANGED <<gpu, done, frame_fence>>
          /\ done = Len(gpu) /\ call'[t] = call[t]
      BY <2>16 DEF TeardownIdle
    <3>2. surface'.pending = surface.pending /\ surface'.skipped = surface.skipped
      BY <2>16 DEF TeardownIdle, SurfaceType
    <3>3. Claims' = Claims
      BY <2>1, <3>1, <3>2
    <3>4. Running = {}
      BY <3>1 DEF Running, GpuType
    <3>5. Owed = {}
      BY <3>4 DEF Owed
    <3>. QED BY <1>u, <3>1, <3>2, <3>3, <3>5 DEF SyncInv
  <2>17. CASE DestroySync(t)
    <3>1. /\ pc[t] = "destroy_sync" /\ pc'[t] = "reset_pending" /\ UNCHANGED <<gpu, done, frame_fence>>
      BY <2>17 DEF DestroySync
    <3>2. surface'.pending = surface.pending /\ surface.skipped \subseteq surface'.skipped
      BY <2>17 DEF DestroySync, SurfaceType
    <3>3. Claims' = Claims /\ (Torn' => Torn)
      BY <2>1, <2>2, <3>1, <3>2
    <3>. QED BY <1>u, <3>1, <3>2, <3>3, SyncSame
  <2>18. CASE ResetPending(t)
    <3>1. /\ pc[t] = "reset_pending" /\ pc'[t] = "idle" /\ surface' = NewSurface
          /\ frame_fence' = [j \in Images |-> "signaled"] /\ UNCHANGED <<gpu, done>>
      BY <2>18 DEF ResetPending
    <3>2. Claims' = {}
      BY <2>1, <3>1 DEF NewSurface
    <3>3. Owed = {}
      BY <2>2, <3>1 DEF SyncInv
    <3>. QED BY <1>u, <2>2, <3>1, <3>2, <3>3 DEF SyncInv
  <2>. QED
    BY <1>3, <2>3, <2>4, <2>5, <2>6, <2>7, <2>8, <2>9, <2>10, <2>11, <2>12, <2>13, <2>14, <2>15, <2>16, <2>17, <2>18 DEF SurfaceAct
<1>4. CASE GpuFinish
  BY <1>4, FinishOwes
<1>5. ASSUME NEW i \in Images, ImageFree(i) PROVE WorkSync' /\ SyncInv'
  <2>1. UNCHANGED <<gpu, done, surface, pc, call, frame_fence>>
    BY <1>5 DEF ImageFree
  <2>. QED BY <1>u, <2>1, SyncSame DEF Claims, Torn
<1>. QED BY <1>1, <1>2, <1>3, <1>4, <1>5, SurfaceCases DEF SurfaceCase

LEMMA OwedFrame ==
  ASSUME GpuType, WorkSync, SyncInv, NEW k \in Running, gpu[k].index = 0
  PROVE  /\ gpu[k].sync \in Images /\ gpu[k].sync \in Owed
         /\ frame_fence[gpu[k].sync] = "unsignaled" /\ ~Torn
<1>1. k \in DOMAIN gpu
  BY DEF Running, GpuType
<1>2. gpu[k].sync \in Images /\ gpu[k].sync \in Owed
  BY <1>1 DEF WorkSync, Owed
<1>. QED BY <1>2 DEF SyncInv

LEMMA RingAppend ==
  ASSUME GpuType, RingInv, NEW w \in WorkType, gpu' = Append(gpu, w), done' = done,
         \A s : InRing(s) => InRing(s)',
         NEW x, w.sync = x, w.signals = {} \/ InRing(x)'
  PROVE  RingInv'
<1>1. PICK n \in DOMAIN gpu' : /\ Running' = Running \cup {n} /\ gpu'[n] = w
                              /\ Running \subseteq DOMAIN gpu
                              /\ \A k \in DOMAIN gpu : gpu'[k] = gpu[k]
  BY RunningGrows
<1>2. ASSUME NEW k \in Running', gpu'[k].index = 0, gpu'[k].signals # {}
      PROVE  InRing(gpu[k].sync)'
  <2>1. CASE k = n
    BY <1>1, <1>2, <2>1
  <2>2. CASE k \in Running
    <3>1. gpu'[k] = gpu[k]
      BY <1>1, <2>2
    <3>2. PICK s : s = gpu[k].sync
      OBVIOUS
    <3>3. InRing(s)
      BY <1>2, <2>2, <3>1, <3>2 DEF RingInv
    <3>4. InRing(s)'
      BY <3>3
    <3>. QED BY <3>1, <3>2, <3>4
  <2>. QED BY <1>1, <1>2, <2>1, <2>2
<1>. QED BY <1>2 DEF RingInv

LEMMA RingStep ==
  ASSUME TypeOK, PcInv, LockInv, PendingInv, WorkSync, SyncInv, RingInv, [Next]_vars
  PROVE  RingInv'
<1>. /\ CallsType /\ GpuType /\ surface \in SurfaceType /\ pc \in [Threads -> Labels]
     /\ call \in [Threads -> CallType] /\ frame_fence \in [Images -> States]
     /\ surface.next_sync \in Images
     /\ surface.ring \in [0 .. RingSize - 1 -> Images \cup {None}]
     /\ surface.ring_next \in 0 .. RingSize - 1
  BY DEF TypeOK, CallsType, SurfacesType, SurfaceType
<1>k. ASSUME UNCHANGED <<gpu, done>>,
             \A k \in Running : gpu[k].index = 0 /\ InRing(gpu[k].sync) => InRing(gpu[k].sync)'
      PROVE  RingInv'
  BY <1>k DEF RingInv, Running
<1>s. ASSUME surface'.ring = surface.ring,
             \A t \in Threads : pc[t] = "ring" => pc'[t] = "ring" /\ call'[t].acquire = call[t].acquire
      PROVE  \A s : InRing(s) => InRing(s)'
  BY <1>s DEF InRing
<1>1. CASE SurfaceStill
  BY <1>1, <1>k, <1>s DEF SurfaceStill, SurfaceCalls, Surfacing, Presenting
<1>2. ASSUME NEW t \in Threads, Submit(t) PROVE RingInv'
  BY Zenon, <1>2, ConsumeFacts, SubmitOwes DEF Submit
<1>3. ASSUME NEW t \in Threads, SurfaceAct(t) PROVE RingInv'
  <2>0. \A u \in Threads \ {t} : /\ pc[u] # "ring" /\ pc'[u] # "ring"
    BY <1>3, Solo DEF Surfacing, Presenting
  <2>. USE DEF Goto, Return
  <2>1. CASE GetCurrentTexture(t)
    <3>1. UNCHANGED <<gpu, done>> /\ pc[t] # "ring"
      BY <2>1 DEF GetCurrentTexture, MaySurface
    <3>2. surface'.ring = surface.ring
      BY <2>1 DEF GetCurrentTexture, MaySurface, SurfaceType
    <3>. QED BY <1>k, <1>s, <2>0, <3>1, <3>2
  <2>2. CASE AcquireImage(t)
    <3>1. UNCHANGED <<gpu, done>> /\ pc[t] # "ring"
      BY <2>2 DEF AcquireImage
    <3>2. surface'.ring = surface.ring
      BY <2>2 DEF AcquireImage, SurfaceType
    <3>. QED BY <1>k, <1>s, <2>0, <3>1, <3>2
  <2>3. CASE AcquireFails(t)
    <3>1. UNCHANGED <<gpu, done>> /\ pc[t] # "ring"
      BY <2>3 DEF AcquireFails
    <3>2. surface'.ring = surface.ring
      BY <2>3 DEF AcquireFails, SurfaceType
    <3>. QED BY <1>k, <1>s, <2>0, <3>1, <3>2
  <2>4. CASE PublishAcquire(t)
    <3>1. /\ UNCHANGED <<gpu, done>> /\ pc[t] = "acquired" /\ pc'[t] = "idle"
          /\ surface'.ring = ReleaseFence(surface.ring, call[t].acquire.sync)
          /\ call[t].acquire.sync = surface.next_sync
          /\ frame_fence[surface.next_sync] = "signaled"
      BY <2>4 DEF PublishAcquire, SurfaceType, PendingInv, PendingOK
    <3>2. ASSUME NEW k \in Running, gpu[k].index = 0, InRing(gpu[k].sync)
          PROVE  InRing(gpu[k].sync)'
      <4>1. gpu[k].sync # surface.next_sync
        BY <3>1, <3>2, OwedFrame
      <4>2. PICK r \in 0 .. RingSize - 1 : surface.ring[r] = gpu[k].sync
        BY <2>0, <3>1, <3>2 DEF InRing
      <4>3. surface'.ring[r] = gpu[k].sync
        BY <3>1, <4>1, <4>2 DEF ReleaseFence
      <4>. QED BY <3>1, <4>3 DEF InRing
    <3>. QED BY <1>k, <3>1, <3>2
  <2>5. CASE Present(t)
    <3>1. UNCHANGED <<gpu, done>> /\ pc[t] # "ring"
      BY <2>5 DEF Present, MaySurface
    <3>2. surface'.ring = surface.ring
      BY <2>5 DEF Present, MaySurface, SurfaceType
    <3>. QED BY <1>k, <1>s, <2>0, <3>1, <3>2
  <2>6. CASE PresentFlushFails(t)
    <3>1. UNCHANGED <<gpu, done>> /\ pc[t] # "ring"
      BY <2>6 DEF PresentFlushFails, MaySurface
    <3>2. surface'.ring = surface.ring
      BY <2>6 DEF PresentFlushFails, MaySurface, SurfaceType
    <3>. QED BY <1>k, <1>s, <2>0, <3>1, <3>2
  <2>7. CASE TakePending(t)
    <3>1. UNCHANGED <<gpu, done>> /\ pc[t] # "ring"
      BY <2>7 DEF TakePending
    <3>2. surface'.ring = surface.ring
      BY <2>7 DEF TakePending, SurfaceType
    <3>. QED BY <1>k, <1>s, <2>0, <3>1, <3>2
  <2>8. CASE Transition(t)
    <3>0. PICK x : x = call[t].acquire.sync
      OBVIOUS
    <3>1. PICK w \in WorkType : /\ gpu' = Append(gpu, w) /\ w.sync = x
                                /\ pc[t] = "recover" => w.signals = {}
      BY <3>0, <2>8, PresentShape
    <3>2. /\ surface' = surface /\ pc' = [pc EXCEPT ![t] = "ring"]
          /\ call' = call /\ done' = done /\ pc[t] = "transition"
      BY <2>8 DEF Transition, Accept
    <3>3. pc'[t] = "ring" /\ call'[t].acquire.sync = x
      BY <3>0, <3>2
    <3>4. InRing(x)'
      BY <3>3 DEF InRing
    <3>6. \A s : InRing(s) => InRing(s)'
      BY <1>s, <2>0, <3>2
    <3>. QED BY <3>1, <3>2, <3>4, <3>6, RingAppend
  <2>9. CASE TransitionFails(t)
    <3>1. UNCHANGED <<gpu, done>> /\ pc[t] # "ring"
      BY <2>9 DEF TransitionFails
    <3>2. surface'.ring = surface.ring
      BY <2>9 DEF TransitionFails, SurfaceType
    <3>. QED BY <1>k, <1>s, <2>0, <3>1, <3>2
  <2>10. CASE Recover(t)
    <3>0. PICK x : x = call[t].acquire.sync
      OBVIOUS
    <3>1. PICK w \in WorkType : /\ gpu' = Append(gpu, w) /\ w.sync = x
                                /\ pc[t] = "recover" => w.signals = {}
      BY <3>0, <2>10, PresentShape
    <3>2. /\ surface'.ring = surface.ring /\ pc' = [pc EXCEPT ![t] = "idle"]
          /\ done' = done /\ pc[t] = "recover"
      BY <2>10 DEF Recover, Accept, SurfaceType
    <3>4. w.signals = {}
      BY <3>1, <3>2
    <3>6. \A s : InRing(s) => InRing(s)'
      BY <1>s, <2>0, <3>2
    <3>. QED BY <3>1, <3>2, <3>4, <3>6, RingAppend
  <2>11. CASE Ring(t)
    <3>1. /\ UNCHANGED <<gpu, done>> /\ pc[t] = "ring"
          /\ surface'.ring = [surface.ring EXCEPT ![surface.ring_next] = call[t].acquire.sync]
          /\ LET slot == surface.ring[surface.ring_next]
             IN  slot # None => frame_fence[slot] = "signaled"
      BY <2>11 DEF Ring, SurfaceType
    <3>2. ASSUME NEW k \in Running, gpu[k].index = 0, InRing(gpu[k].sync)
          PROVE  InRing(gpu[k].sync)'
      <4>1. frame_fence[gpu[k].sync] = "unsignaled" /\ gpu[k].sync # None
        BY <3>2, OwedFrame, VulkanAssumption
      <4>2. CASE gpu[k].sync = call[t].acquire.sync
        <5>1. surface'.ring[surface.ring_next] = gpu[k].sync
          BY <3>1, <4>2
        <5>. QED BY <3>1, <5>1 DEF InRing
      <4>3. ASSUME NEW r \in 0 .. RingSize - 1, surface.ring[r] = gpu[k].sync
            PROVE  InRing(gpu[k].sync)'
        <5>1. r # surface.ring_next
          BY <3>1, <4>1, <4>3
        <5>2. surface'.ring[r] = gpu[k].sync
          BY <3>1, <4>3, <5>1
        <5>. QED BY <3>1, <5>2 DEF InRing
      <4>. QED BY <2>0, <3>2, <4>2, <4>3 DEF InRing
    <3>. QED BY <1>k, <3>1, <3>2
  <2>12. CASE QueuePresent(t)
    <3>1. UNCHANGED <<gpu, done>> /\ pc[t] # "ring"
      BY <2>12 DEF QueuePresent
    <3>2. surface'.ring = surface.ring
      BY <2>12 DEF QueuePresent, SurfaceType
    <3>. QED BY <1>k, <1>s, <2>0, <3>1, <3>2
  <2>13. CASE Configure(t)
    <3>1. UNCHANGED <<gpu, done>> /\ pc[t] # "ring"
      BY <2>13 DEF Configure, MaySurface
    <3>2. surface'.ring = surface.ring
      BY <2>13 DEF Configure, MaySurface, SurfaceType
    <3>. QED BY <1>k, <1>s, <2>0, <3>1, <3>2
  <2>14. CASE TeardownIdle(t)
    <3>1. UNCHANGED <<gpu, done>> /\ Running = {}
      BY <2>14 DEF TeardownIdle, Running, GpuType
    <3>. QED BY <1>k, <3>1
  <2>15. CASE DestroySync(t)
    <3>1. UNCHANGED <<gpu, done>> /\ pc[t] # "ring"
      BY <2>15 DEF DestroySync
    <3>2. surface'.ring = surface.ring
      BY <2>15 DEF DestroySync, SurfaceType
    <3>. QED BY <1>k, <1>s, <2>0, <3>1, <3>2
  <2>16. CASE ResetPending(t)
    <3>1. UNCHANGED <<gpu, done>> /\ Torn
      BY <2>16 DEF ResetPending, Torn
    <3>. QED BY <1>k, <3>1, OwedFrame
  <2>. QED
    BY <1>3, <2>1, <2>2, <2>3, <2>4, <2>5, <2>6, <2>7, <2>8, <2>9, <2>10, <2>11, <2>12, <2>13, <2>14, <2>15, <2>16 DEF SurfaceAct
<1>4. CASE GpuFinish
  <2>1. /\ gpu' = gpu /\ Running' \subseteq Running /\ UNCHANGED <<surface, pc, call>>
    BY <1>4, RunningEnds DEF GpuFinish
  <2>2. \A s : InRing(s) => InRing(s)'
    BY <2>1, <1>s
  <2>. QED BY <2>1, <2>2 DEF RingInv
<1>5. ASSUME NEW i \in Images, ImageFree(i) PROVE RingInv'
  BY <1>5, <1>k, <1>s DEF ImageFree
<1>. QED BY <1>1, <1>2, <1>3, <1>4, <1>5, SurfaceCases DEF SurfaceCase

\* An acquire that waits for a frame waits for one that the GPU will signal.
LEMMA AcquireSignaled ==
  ASSUME LockInv, PendingInv, SyncInv, surface.next_sync \in Images
  PROVE  PresentedReturns
<1>1. SUFFICES ASSUME NEW t \in Threads, pc[t] = "acquire",
                      surface.next_sync \notin surface.skipped
               PROVE  WillSignal(surface.next_sync)
  BY DEF PresentedReturns
<1>2. surface.lock = t /\ ~surface.current
  BY <1>1 DEF LockInv, Surfacing, PendingInv, PendingOK
<1>3. \A u \in Threads : pc[u] \in Surfacing => u = t
  BY <1>2 DEF LockInv
<1>4. surface.next_sync \notin Claims
  <2>1. \A u \in Threads : pc[u] \notin {"transition", "recover", "present"} \cup Configured
    BY <1>1, <1>3 DEF Surfacing, Presenting, Configured
  <2>. QED BY <1>1, <1>2, <2>1 DEF Claims, PendingInv
<1>. QED BY <1>1, <1>4 DEF SyncInv, WillSignal, Owed

LEMMA HeldResources ==
  ASSUME Base, WorkInv, PoolInv, RingInv
  PROVE  ResourcesHeld
<1>. TypeOK
  BY DEF Base
<1>1. ASSUME NEW k \in Running, gpu[k].index # 0
      PROVE  /\ gpu[k].pool \in live_pools \ ToSet(free_pools)
             /\ [index |-> gpu[k].index, fence |-> gpu[k].fence, pool |-> gpu[k].pool]
                  \in Retaining
  <2>1. Resources(gpu[k]) \in Retaining
    BY <1>1, RunningRetained
  <2>2. Resources(gpu[k]).pool \in live_pools \ ToSet(free_pools)
    BY <2>1, RetainedPool
  <2>. QED BY <2>1, <2>2 DEF Resources
<1>2. \A k \in Running : gpu[k].signals # {} /\ gpu[k].index = 0 =>
        \/ \E r \in 0 .. RingSize - 1 : surface.ring[r] = gpu[k].sync
        \/ \E t \in Threads : pc[t] = "ring" /\ call[t].acquire.sync = gpu[k].sync
  BY DEF RingInv, InRing
<1>. QED BY <1>1, <1>2 DEF ResourcesHeld

-----------------------------------------------------------------------------
(* Semaphores                                                              *)

LEMMA SemNames ==
  /\ \A i \in Images : /\ Acquired(i) \in Semaphores /\ Finished(i) \in Semaphores
                       /\ Ready(i) \in Semaphores
  /\ \A i, j : /\ Acquired(i) = Acquired(j) => i = j
               /\ Finished(i) = Finished(j) => i = j
               /\ Ready(i) = Ready(j) => i = j
               /\ Acquired(i) # Finished(j) /\ Acquired(i) # Ready(j) /\ Finished(i) # Ready(j)
  /\ \A x \in Semaphores : \E i \in Images : x \in {Acquired(i), Finished(i), Ready(i)}
  BY DEF Acquired, Finished, Ready, Semaphores

\* What vkQueueSubmit and vkQueuePresentKHR do to the semaphores of one frame.
LEMMA SemMoves ==
  ASSUME sems \in [Semaphores -> {0, 1}], NEW w \in SUBSET Semaphores, NEW g \in SUBSET Semaphores,
         SemaphoreOps(w, g),
         \A x \in w : sems[x] = 1 /\ x \notin g, \A x \in g : sems[x] = 0
  PROVE  /\ sems' \in [Semaphores -> {0, 1}]
         /\ \A x \in Semaphores : sems'[x] = IF x \in g THEN 1 ELSE IF x \in w THEN 0 ELSE sems[x]
<1>1. ASSUME NEW x \in Semaphores
      PROVE  sems'[x] = IF x \in g THEN 1 ELSE IF x \in w THEN 0 ELSE sems[x]
  <2>1. sems'[x] = sems[x] + (IF x \in g THEN 1 ELSE 0) - (IF x \in w THEN 1 ELSE 0)
    BY DEF SemaphoreOps
  <2>2. sems[x] \in {0, 1}
    OBVIOUS
  <2>. QED BY <2>1, <2>2
<1>2. ASSUME NEW x \in Semaphores PROVE sems'[x] \in {0, 1}
  BY <1>1
<1>. QED BY <1>1, <1>2 DEF SemaphoreOps

\* A submission consumes the acquire at most once.
LEMMA SemSubmit ==
  ASSUME TypeOK, PcInv, PendingInv, WorkSync, SyncInv, SemInv, NEW t \in Threads, Submit(t)
  PROVE  SemInv'
<1>. /\ CallsType /\ surface \in SurfaceType /\ surface.pending \in AcquireType
  BY DEF TypeOK, SurfacesType, SurfaceType
<1>1. /\ SurfaceCalls /\ Consume /\ frame_fence' = frame_fence /\ Owed' = Owed
      /\ SemaphoreOps(AcquireWaits, AcquireSignals)
  <2>1. SurfaceCalls /\ Consume /\ frame_fence' = frame_fence /\ Owed' = Owed
    BY SubmitCalls, SubmitOwes DEF Submit
  <2>2. SemaphoreOps(AcquireWaits, AcquireSignals)
    BY DEF Submit, Accept, Work
  <2>. QED BY <2>1, <2>2
<1>2. /\ surface'.next_sync = surface.next_sync
      /\ surface'.pending = NoAcquire <=> surface.pending = NoAcquire
      /\ surface'.pending.sync = surface.pending.sync
      /\ surface.pending # NoAcquire => surface'.pending.consumed
  BY <1>1, ConsumeFacts
<1>3. /\ \A u \in Threads : pc[u] \in Valuing \/ pc'[u] \in Valuing =>
           pc'[u] = pc[u] /\ call'[u].acquire = call[u].acquire
      /\ \A i : Showing(i)' <=> Showing(i)
  BY <1>1 DEF SurfaceCalls, Surfacing, Presenting, Valuing, Showing
<1>4. CASE ~Unconsumed
  <2>1. AcquireWaits = {} /\ AcquireSignals = {}
    BY <1>4 DEF AcquireWaits, AcquireSignals
  <2>2. sems' = sems
    <3>1. sems \in [Semaphores -> {0, 1}] /\ {} \in SUBSET Semaphores
      BY DEF SemInv
    <3>2. sems' \in [Semaphores -> {0, 1}] /\ \A x \in Semaphores : sems'[x] = sems[x]
      BY <1>1, <2>1, <3>1, SemMoves
    <3>. QED BY <3>1, <3>2
  <2>3. surface.pending # NoAcquire => surface.pending.consumed
    BY <1>4 DEF Unconsumed
  <2>4. surface.pending # NoAcquire => Valued(surface.pending)'
    BY <1>2, <2>2, <2>3 DEF SemInv, Valued
  <2>5. \A u \in Threads : pc'[u] \in Valuing => Valued(call[u].acquire)'
    BY <1>3, <2>2 DEF SemInv, Valued
  <2>6. \A s \in Images : Rested(s) => Rested(s)'
    BY <1>2, <1>3, <2>2 DEF Rested, Valuing
  <2>. QED BY <1>1, <1>2, <1>3, <2>2, <2>4, <2>5, <2>6 DEF SemInv
<1>5. CASE Unconsumed
  <2>1. PICK s \in Images : s = surface.pending.sync
    BY <1>5 DEF Unconsumed, PendingInv
  <2>2. /\ AcquireWaits = {Acquired(s)} /\ AcquireSignals = {Finished(s)}
        /\ ~surface.pending.consumed /\ surface.pending # NoAcquire
    BY <1>5, <2>1 DEF AcquireWaits, AcquireSignals, Unconsumed
  <2>3. sems[Acquired(s)] = 1 /\ sems[Finished(s)] = 0
    BY <2>1, <2>2 DEF SemInv, Valued
  <2>4. /\ sems' \in [Semaphores -> {0, 1}]
        /\ \A x \in Semaphores : sems'[x] = IF x = Finished(s) THEN 1
                                            ELSE IF x = Acquired(s) THEN 0 ELSE sems[x]
    <3>1. PICK w \in SUBSET Semaphores, g \in SUBSET Semaphores :
            w = {Acquired(s)} /\ g = {Finished(s)}
      BY SemNames
    <3>2. SemaphoreOps(w, g) /\ sems \in [Semaphores -> {0, 1}]
      BY <1>1, <2>2, <3>1 DEF SemInv
    <3>3. /\ \A x \in w : sems[x] = 1 /\ x \notin g
          /\ \A x \in g : sems[x] = 0
      BY <2>3, <3>1, SemNames
    <3>4. /\ sems' \in [Semaphores -> {0, 1}]
          /\ \A x \in Semaphores :
               sems'[x] = IF x \in g THEN 1 ELSE IF x \in w THEN 0 ELSE sems[x]
      BY <3>2, <3>3, SemMoves
    <3>. QED BY <3>1, <3>4
  <2>5. s \in Claims /\ s \notin Owed /\ frame_fence[s] = "unsignaled"
    BY <2>1, <2>2 DEF Claims, SyncInv
  <2>6. /\ \A i \in Images \ {s} : /\ sems'[Acquired(i)] = sems[Acquired(i)]
                                   /\ sems'[Finished(i)] = sems[Finished(i)]
        /\ \A i \in Images : sems'[Ready(i)] = sems[Ready(i)]
        /\ sems'[Acquired(s)] = 0 /\ sems'[Finished(s)] = 1
    BY <2>4, SemNames
  <2>7. Valued(surface.pending)'
    BY <1>2, <2>1, <2>2, <2>6 DEF Valued
  <2>8. ASSUME NEW u \in Threads, pc'[u] \in Valuing PROVE Valued(call[u].acquire)'
    <3>1. /\ pc[u] \in Valuing /\ call'[u].acquire = call[u].acquire
          /\ Valued(call[u].acquire)
      BY <1>3, <2>8 DEF SemInv
    <3>2. pc[u] = "acquired"
      BY <2>2, <3>1 DEF PendingInv, PendingOK, Presenting, Valuing
    <3>3. call[u].acquire.sync \in Images \ {s}
      <4>1. call[u].acquire.sync = surface.next_sync /\ frame_fence[surface.next_sync] = "signaled"
            /\ surface.next_sync \in Images
        BY <3>2 DEF PendingInv, PendingOK, SurfaceType
      <4>. QED BY <2>5, <4>1
    <3>. QED BY <2>6, <3>1, <3>3 DEF Valued
  <2>9. ASSUME NEW i \in Images, frame_fence[i] = "signaled" \/ i \in Owed PROVE Rested(i)'
    <3>1. i # s /\ Rested(i)
      BY <2>5, <2>9 DEF SemInv
    <3>. QED BY <1>2, <1>3, <2>6, <3>1 DEF Rested, Valuing
  <2>. QED BY <1>1, <1>2, <1>3, <2>2, <2>4, <2>6, <2>7, <2>8, <2>9 DEF SemInv
<1>. QED BY <1>4, <1>5

\* Only the thread in a call on the surface matters to the semaphores.
LEMMA SemOne ==
  ASSUME CallsType, LockInv, NEW t \in Threads, SurfaceAct(t)
  PROVE  (SemInv => SemAt(t)) /\ (SemAt(t)' => SemInv')
<1>1. \A u \in Threads \ {t} : pc[u] \notin Surfacing /\ pc'[u] \notin Surfacing
  BY Solo
<1>2. Valuing \cup {"ring", "queue_present"} \subseteq Surfacing
  BY DEF Valuing, Surfacing, Presenting
<1>3. ASSUME SemInv PROVE SemAt(t)
  <2>1. \A i \in Images : Showing(i) <=> pc[t] \in {"ring", "queue_present"} /\ call[t].acquire.image = i
    BY <1>1, <1>2 DEF Showing
  <2>2. ASSUME NEW s \in Images, Rested(s)
        PROVE  /\ sems[Finished(s)] = 0
               /\ (sems[Acquired(s)] = 0 \/ (pc[t] = "acquired" /\ surface.next_sync = s))
    <3>1. \A u \in Threads : pc[u] = "acquired" => u = t
      BY <1>1, <1>2 DEF Valuing
    <3>. QED BY <2>2, <3>1 DEF Rested
  <2>. QED BY <1>3, <2>1, <2>2 DEF SemInv, SemAt
<1>4. ASSUME SemAt(t)' PROVE SemInv'
  <2>1. \A i \in Images : Showing(i)' <=> pc'[t] \in {"ring", "queue_present"} /\ call'[t].acquire.image = i
    BY <1>1, <1>2 DEF Showing
  <2>2. \A s \in Images : sems'[Finished(s)] = 0
                          /\ (sems'[Acquired(s)] = 0 \/ (pc'[t] = "acquired" /\ surface'.next_sync = s)) => Rested(s)'
    BY DEF Rested
  <2>3. \A u \in Threads : pc'[u] \in Valuing => u = t
    BY <1>1, <1>2
  <2>4. \A u \in Threads : pc'[u] \in Valuing => Valued(call[u].acquire)'
    BY <1>4, <2>3 DEF SemAt
  <2>5. \A i \in Images : sems'[Ready(i)] = IF Showing(i)' THEN 1 ELSE 0
    BY <1>4, <2>1 DEF SemAt
  <2>. QED BY <1>4, <2>2, <2>4, <2>5 DEF SemInv, SemAt
<1>. QED BY <1>3, <1>4

\* A step that uses no semaphore.
LEMMA SemQuiet ==
  ASSUME NEW t \in Threads, SemAt(t), UNCHANGED <<gpu, done, sems, frame_fence>>,
         surface'.pending = surface.pending, pc[t] # "acquired",
         pc'[t] \in Valuing => pc[t] \in Valuing /\ call'[t].acquire = call[t].acquire,
         \/ pc[t] \notin {"ring", "queue_present"} /\ pc'[t] \notin {"ring", "queue_present"}
         \/ /\ pc[t] \in {"ring", "queue_present"} /\ pc'[t] \in {"ring", "queue_present"}
            /\ call'[t].acquire = call[t].acquire
  PROVE  SemAt(t)'
<1>1. Owed' = Owed
  BY DEF Owed, Running
<1>2. \A a : Valued(a)' <=> Valued(a)
  BY DEF Valued
<1>3. surface'.pending # NoAcquire => Valued(surface.pending)'
  <2>1. surface'.pending # NoAcquire => Valued(surface.pending)
    BY DEF SemAt
  <2>. QED BY <2>1 DEF Valued
<1>4. pc'[t] \in Valuing => Valued(call[t].acquire)'
  <2>1. pc'[t] \in Valuing => Valued(call[t].acquire) /\ call'[t].acquire = call[t].acquire
    BY DEF SemAt
  <2>. QED BY <2>1 DEF Valued
<1>5. \A s \in Images : frame_fence'[s] = "signaled" \/ s \in Owed' =>
        sems'[Finished(s)] = 0 /\ sems'[Acquired(s)] = 0
  BY <1>1 DEF SemAt
<1>6. \A i \in Images :
        sems'[Ready(i)] = IF pc'[t] \in {"ring", "queue_present"} /\ call'[t].acquire.image = i
                            THEN 1 ELSE 0
  BY DEF SemAt
<1>7. sems' \in [Semaphores -> {0, 1}]
  BY DEF SemAt
<1>8. pc'[t] \in Valuing => Valued(call[t].acquire)'
  BY <1>4
<1>. QED
  <2>1. SUFFICES /\ sems' \in [Semaphores -> {0, 1}]
                 /\ \A s \in Images : frame_fence'[s] = "signaled" \/ s \in Owed' =>
                      /\ sems'[Finished(s)] = 0
                      /\ (sems'[Acquired(s)] = 0 \/ (pc'[t] = "acquired" /\ surface'.next_sync = s))
                 /\ surface'.pending # NoAcquire => Valued(surface.pending)'
                 /\ pc'[t] \in Valuing => Valued(call[t].acquire)'
                 /\ \A i \in Images :
                      sems'[Ready(i)] = IF pc'[t] \in {"ring", "queue_present"} /\ call'[t].acquire.image = i
                                          THEN 1 ELSE 0
    BY DEF SemAt
  <2>. QED BY <1>3, <1>4, <1>5, <1>6, <1>7

LEMMA SemAcquire ==
  ASSUME TypeOK, PendingInv, SyncInv, NEW t \in Threads, SemAt(t), AcquireImage(t)
  PROVE  SemAt(t)'
<1>. CallsType /\ surface \in SurfaceType
  BY DEF TypeOK, SurfacesType
<1>1. PICK s \in Images : s = surface.next_sync
  BY DEF SurfaceType
<1>2. /\ pc[t] = "acquire" /\ pc'[t] = "acquired" /\ frame_fence[s] = "signaled"
      /\ UNCHANGED <<gpu, done, surface, frame_fence>>
      /\ SemaphoreOps({}, {Acquired(s)})
  BY <1>1 DEF AcquireImage, Goto, CallsType
<1>3. call'[t].acquire.sync = s /\ call'[t].acquire.consumed = FALSE
  <2>1. PICK i \in Images : call' = [call EXCEPT ![t].acquire =
                                       [image |-> i, sync |-> s, consumed |-> FALSE]]
    BY <1>1 DEF AcquireImage
  <2>2. call'[t].acquire = [image |-> i, sync |-> s, consumed |-> FALSE]
    BY <2>1 DEF CallsType, CallType
  <2>. QED BY <2>2
<1>4. sems[Acquired(s)] = 0 /\ sems[Finished(s)] = 0 /\ sems \in [Semaphores -> {0, 1}]
  BY <1>2 DEF SemAt
<1>5. PICK w \in SUBSET Semaphores, g \in SUBSET Semaphores : w = {} /\ g = {Acquired(s)}
  BY SemNames
<1>6. SemaphoreOps(w, g)
  BY <1>2, <1>5
<1>7. (\A x \in w : sems[x] = 1 /\ x \notin g) /\ (\A x \in g : sems[x] = 0)
  BY <1>4, <1>5
<1>8. /\ sems' \in [Semaphores -> {0, 1}]
      /\ \A x \in Semaphores :
           sems'[x] = IF x \in g THEN 1 ELSE IF x \in w THEN 0 ELSE sems[x]
  BY <1>4, <1>6, <1>7, SemMoves
<1>9. /\ sems'[Acquired(s)] = 1
      /\ \A i \in Images : /\ sems'[Finished(i)] = sems[Finished(i)]
                           /\ sems'[Ready(i)] = sems[Ready(i)]
                           /\ i # s => sems'[Acquired(i)] = sems[Acquired(i)]
  BY <1>5, <1>8, SemNames
<1>10. surface.pending # NoAcquire => surface.pending.sync \in Images \ {s}
  <2>1. CASE surface.pending # NoAcquire
    <3>1. surface.pending.sync \in Images /\ surface.pending.sync \in Claims
      BY <2>1 DEF PendingInv, Claims
    <3>. QED BY <1>2, <3>1 DEF SyncInv
  <2>. QED BY <2>1
<1>11. Valued(call[t].acquire)'
  BY <1>3, <1>4, <1>9 DEF Valued
<1>12. surface'.pending # NoAcquire => Valued(surface.pending)'
  <2>1. surface.pending # NoAcquire => Valued(surface.pending)
    BY DEF SemAt
  <2>. QED BY <1>2, <1>9, <1>10, <2>1 DEF Valued
<1>13. Owed' = Owed
  BY <1>2 DEF Owed, Running
<1>14. ASSUME NEW i \in Images, frame_fence'[i] = "signaled" \/ i \in Owed'
       PROVE  /\ sems'[Finished(i)] = 0
              /\ (sems'[Acquired(i)] = 0 \/ (pc'[t] = "acquired" /\ surface'.next_sync = i))
  <2>1. sems[Finished(i)] = 0 /\ sems[Acquired(i)] = 0
    BY <1>2, <1>13, <1>14 DEF SemAt
  <2>. QED BY <1>1, <1>2, <1>9, <2>1
<1>15. \A i \in Images :
         sems'[Ready(i)] = IF pc'[t] \in {"ring", "queue_present"} /\ call'[t].acquire.image = i
                             THEN 1 ELSE 0
  <2>1. \A i \in Images : sems[Ready(i)] = 0
    BY <1>2 DEF SemAt
  <2>. QED BY <1>2, <1>9, <2>1
<1>. QED BY <1>8, <1>11, <1>12, <1>14, <1>15 DEF SemAt

LEMMA SemPublish ==
  ASSUME TypeOK, PendingInv, SyncInv, NEW t \in Threads, SemAt(t), PublishAcquire(t)
  PROVE  SemAt(t)'
<1>. CallsType /\ surface \in SurfaceType /\ frame_fence \in [Images -> States]
  BY DEF TypeOK, SurfacesType
<1>0. PendingOK(pc[t], call[t].acquire) /\ pc[t] = "acquired" /\ pc'[t] = "idle"
      /\ UNCHANGED <<gpu, done, sems>>
  BY DEF PendingInv, PublishAcquire, Return, CallsType
<1>1. PICK s \in Images : s = surface.next_sync /\ s = call[t].acquire.sync
  BY <1>0 DEF PendingOK, SurfaceType
<1>2. frame_fence[s] = "signaled" /\ \A i \in Images \ {s} : frame_fence'[i] = frame_fence[i]
  BY <1>0, <1>1 DEF PendingOK, PublishAcquire
<1>3. frame_fence'[s] = "unsignaled"
  BY <1>1 DEF PublishAcquire
<1>4. surface'.pending = call[t].acquire
  BY DEF PublishAcquire, SurfaceType
<1>5. Owed' = Owed /\ s \notin Owed
  BY <1>0, <1>2 DEF Owed, Running, SyncInv
<1>6. Valued(surface.pending)'
  <2>1. Valued(call[t].acquire)
    BY <1>0 DEF SemAt, Valuing
  <2>. QED BY <1>0, <1>4, <2>1 DEF Valued
<1>7. \A i \in Images : frame_fence'[i] = "signaled" \/ i \in Owed' =>
        sems'[Finished(i)] = 0 /\ sems'[Acquired(i)] = 0
  BY <1>0, <1>1, <1>2, <1>3, <1>5 DEF SemAt
<1>8. sems' \in [Semaphores -> {0, 1}] /\ \A i \in Images : sems'[Ready(i)] = 0
  BY <1>0 DEF SemAt
<1>. QED BY <1>0, <1>6, <1>7, <1>8 DEF SemAt, Valuing

LEMMA SemTake ==
  ASSUME TypeOK, PendingInv, NEW t \in Threads, SemAt(t), TakePending(t)
  PROVE  SemAt(t)'
<1>. CallsType /\ surface \in SurfaceType
  BY DEF TypeOK, SurfacesType
<1>1. /\ pc[t] = "present" /\ pc'[t] = "transition" /\ UNCHANGED <<gpu, done, sems, frame_fence>>
      /\ PendingOK(pc[t], call[t].acquire)
  BY DEF TakePending, Goto, CallsType, PendingInv
<1>2. call'[t].acquire = surface.pending /\ surface'.pending = NoAcquire
  BY DEF TakePending, CallsType, CallType, SurfaceType
<1>3. Valued(surface.pending)
  BY <1>1 DEF PendingInv, PendingOK, SemAt
<1>4. Valued(call[t].acquire)'
  BY <1>1, <1>2, <1>3 DEF Valued
<1>5. Owed' = Owed
  BY <1>1 DEF Owed, Running
<1>6. \A i \in Images : frame_fence'[i] = "signaled" \/ i \in Owed' =>
        sems'[Finished(i)] = 0 /\ sems'[Acquired(i)] = 0
  BY <1>1, <1>5 DEF SemAt
<1>7. sems' \in [Semaphores -> {0, 1}] /\ \A i \in Images : sems'[Ready(i)] = 0
  BY <1>1 DEF SemAt
<1>. QED BY <1>1, <1>2, <1>4, <1>6, <1>7 DEF SemAt

\* The present waits for the semaphore that the acquire, or the submission that
\* consumed it, signals.
LEMMA SemAwait ==
  ASSUME sems \in [Semaphores -> {0, 1}], NEW a \in AcquireType, NEW s \in Images, a.sync = s,
         Valued(a), NEW g \in SUBSET {Ready(i) : i \in Images}, \A x \in g : sems[x] = 0,
         SemaphoreOps(PresentWaits(a), g)
  PROVE  /\ sems' \in [Semaphores -> {0, 1}]
         /\ sems'[Acquired(s)] = 0 /\ sems'[Finished(s)] = 0
         /\ \A j \in Images \ {s} : /\ sems'[Finished(j)] = sems[Finished(j)]
                                    /\ sems'[Acquired(j)] = sems[Acquired(j)]
         /\ \A j \in Images : sems'[Ready(j)] = IF Ready(j) \in g THEN 1 ELSE sems[Ready(j)]
<1>1. PICK y : /\ PresentWaits(a) = {y} /\ y \in {Finished(s), Acquired(s)} /\ sems[y] = 1
               /\ \/ y = Finished(s) /\ sems[Acquired(s)] = 0
                  \/ y = Acquired(s) /\ sems[Finished(s)] = 0
  <2>1. CASE a.consumed
    BY <2>1 DEF PresentWaits, Valued
  <2>2. CASE ~a.consumed
    BY <2>2 DEF PresentWaits, Valued
  <2>. QED BY <2>1, <2>2
<1>2. PICK w \in SUBSET Semaphores : w = {y}
  BY <1>1, SemNames
<1>3. g \in SUBSET Semaphores
  BY SemNames
<1>4. SemaphoreOps(w, g)
  BY <1>1, <1>2
<1>5. \A x \in w : sems[x] = 1 /\ x \notin g
  BY <1>1, <1>2, SemNames
<1>6. /\ sems' \in [Semaphores -> {0, 1}]
      /\ \A x \in Semaphores :
           sems'[x] = IF x \in g THEN 1 ELSE IF x \in w THEN 0 ELSE sems[x]
  BY <1>3, <1>4, <1>5, SemMoves
<1>7. \A j \in Images : Acquired(j) \notin g /\ Finished(j) \notin g
  BY SemNames
<1>8. \A j \in Images \ {s} : Acquired(j) \notin w /\ Finished(j) \notin w
  BY <1>1, <1>2, SemNames
<1>9. \A j \in Images : Ready(j) \notin w
  BY <1>1, <1>2, SemNames
<1>10. sems'[Acquired(s)] = 0 /\ sems'[Finished(s)] = 0
  BY <1>1, <1>2, <1>6, <1>7, SemNames
<1>. QED BY <1>6, <1>7, <1>8, <1>9, <1>10, SemNames

LEMMA SemPresent ==
  ASSUME TypeOK, PendingInv, WorkSync, SyncInv, NEW t \in Threads, SemAt(t),
         Transition(t) \/ Recover(t)
  PROVE  SemAt(t)'
<1>. CallsType /\ surface \in SurfaceType
  BY DEF TypeOK, SurfacesType
<1>1. /\ pc[t] \in {"transition", "recover"} /\ frame_fence' = frame_fence
      /\ PendingOK(pc[t], call[t].acquire) /\ call[t].acquire \in AcquireType
  BY DEF Transition, Recover, PendingInv, CallsType, CallType
<1>2. PICK a \in AcquireType : a = call[t].acquire
  BY <1>1
<1>3. PICK s \in Images, i \in Images : s = a.sync /\ i = a.image
  BY <1>1, <1>2 DEF PendingOK, Presenting
<1>4. surface.pending = NoAcquire /\ surface'.pending = NoAcquire
  BY <1>1 DEF PendingOK, Presenting, Transition, Recover, SurfaceType
<1>5. \/ pc'[t] = "ring" /\ call'[t].acquire = a
      \/ pc'[t] = "idle"
  BY <1>2 DEF Transition, Recover, Goto, Return, CallsType
<1>6. PICK g \in SUBSET {Ready(j) : j \in Images} :
        /\ SemaphoreOps(PresentWaits(a), g)
        /\ g = IF pc'[t] = "ring" THEN {Ready(i)} ELSE {}
  <2>1. CASE Transition(t)
    <3>1. SemaphoreOps(PresentWaits(a), {Ready(i)}) /\ pc'[t] = "ring"
      BY <2>1, <1>2, <1>3 DEF Transition, Accept, PresentWork, Work, Goto, CallsType
    <3>. QED BY <3>1
  <2>2. CASE Recover(t)
    <3>1. SemaphoreOps(PresentWaits(a), {}) /\ pc'[t] = "idle"
      BY <2>2, <1>2, <1>3 DEF Recover, Accept, PresentWork, Work, Return, CallsType
    <3>. QED BY <3>1
  <2>. QED BY <2>1, <2>2
<1>7. /\ Valued(a) /\ sems \in [Semaphores -> {0, 1}]
      /\ \A j \in Images : sems[Ready(j)] = 0
  BY <1>1, <1>2 DEF SemAt, Valuing
<1>8. \A x \in g : sems[x] = 0
  BY <1>7
<1>9. /\ sems' \in [Semaphores -> {0, 1}]
      /\ sems'[Acquired(s)] = 0 /\ sems'[Finished(s)] = 0
      /\ \A j \in Images \ {s} : /\ sems'[Finished(j)] = sems[Finished(j)]
                                 /\ sems'[Acquired(j)] = sems[Acquired(j)]
      /\ \A j \in Images : sems'[Ready(j)] = IF Ready(j) \in g THEN 1 ELSE sems[Ready(j)]
  BY <1>3, <1>6, <1>7, <1>8, SemAwait
<1>10. Owed' = Owed \cup {s}
  <2>1. s \in Claims
    BY <1>1, <1>2, <1>3 DEF Claims
  <2>2. s \notin Owed
    BY <2>1 DEF SyncInv
  <2>. QED BY <1>2, <1>3, <2>2, PresentOwes
<1>11. \A j \in Images : frame_fence'[j] = "signaled" \/ j \in Owed' =>
         sems'[Finished(j)] = 0 /\ sems'[Acquired(j)] = 0
  <2>1. \A j \in Images : frame_fence[j] = "signaled" \/ j \in Owed =>
          sems[Finished(j)] = 0 /\ sems[Acquired(j)] = 0
    BY <1>1 DEF SemAt
  <2>. QED BY <1>1, <1>9, <1>10, <2>1
<1>12. \A j \in Images :
         sems'[Ready(j)] = IF pc'[t] \in {"ring", "queue_present"} /\ call'[t].acquire.image = j
                             THEN 1 ELSE 0
  <2>1. \A j \in Images : Ready(j) \in g <=> pc'[t] = "ring" /\ i = j
    BY <1>6, SemNames
  <2>. QED BY <1>2, <1>3, <1>5, <1>7, <1>9, <2>1
<1>. QED BY <1>4, <1>5, <1>9, <1>11, <1>12 DEF SemAt, Valuing

LEMMA SemShow ==
  ASSUME TypeOK, PendingInv, NEW t \in Threads, SemAt(t), QueuePresent(t)
  PROVE  SemAt(t)'
<1>. CallsType /\ surface \in SurfaceType
  BY DEF TypeOK, SurfacesType
<1>1. /\ pc[t] = "queue_present" /\ pc'[t] = "idle" /\ PendingOK(pc[t], call[t].acquire)
      /\ UNCHANGED <<gpu, done, frame_fence>>
  BY DEF QueuePresent, Return, CallsType, PendingInv
<1>2. PICK i \in Images : i = call[t].acquire.image
  BY <1>1 DEF PendingOK, Presenting
<1>3. SemaphoreOps({Ready(i)}, {})
  BY <1>2 DEF QueuePresent
<1>4. /\ sems \in [Semaphores -> {0, 1}]
      /\ sems[Ready(i)] = 1 /\ \A j \in Images \ {i} : sems[Ready(j)] = 0
  BY <1>1, <1>2 DEF SemAt
<1>5. PICK w \in SUBSET Semaphores, g \in SUBSET Semaphores : w = {Ready(i)} /\ g = {}
  BY SemNames
<1>6. SemaphoreOps(w, g)
  BY <1>3, <1>5
<1>7. (\A x \in w : sems[x] = 1 /\ x \notin g) /\ (\A x \in g : sems[x] = 0)
  BY <1>4, <1>5
<1>8. /\ sems' \in [Semaphores -> {0, 1}]
      /\ \A x \in Semaphores :
           sems'[x] = IF x \in g THEN 1 ELSE IF x \in w THEN 0 ELSE sems[x]
  BY <1>4, <1>6, <1>7, SemMoves
<1>9. \A j \in Images : /\ sems'[Finished(j)] = sems[Finished(j)]
                        /\ sems'[Acquired(j)] = sems[Acquired(j)]
                        /\ sems'[Ready(j)] = 0
  BY <1>4, <1>5, <1>8, SemNames
<1>10. surface'.pending = NoAcquire
  BY <1>1 DEF PendingOK, Presenting, QueuePresent, SurfaceType
<1>11. Owed' = Owed
  BY <1>1 DEF Owed, Running
<1>12. \A j \in Images : frame_fence'[j] = "signaled" \/ j \in Owed' =>
         sems'[Finished(j)] = 0 /\ sems'[Acquired(j)] = 0
  BY <1>1, <1>9, <1>11 DEF SemAt
<1>. QED BY <1>1, <1>8, <1>9, <1>10, <1>12 DEF SemAt, Valuing

LEMMA SemReset ==
  ASSUME CallsType, NEW t \in Threads, ResetPending(t)
  PROVE  SemAt(t)'
<1>1. /\ pc'[t] = "idle" /\ surface'.pending = NoAcquire
      /\ sems' = [s \in Semaphores |-> 0]
  BY DEF ResetPending, Return, CallsType, NewSurface
<1>2. /\ sems' \in [Semaphores -> {0, 1}]
      /\ \A i \in Images : /\ sems'[Acquired(i)] = 0 /\ sems'[Finished(i)] = 0
                           /\ sems'[Ready(i)] = 0
  BY <1>1, SemNames
<1>. QED BY <1>1, <1>2 DEF SemAt, Valuing

\* The steps on the surface that use no semaphore.
LEMMA SemCalm ==
  ASSUME TypeOK, PendingInv, NEW t \in Threads, SemAt(t),
         \/ GetCurrentTexture(t) \/ AcquireFails(t) \/ Present(t) \/ PresentFlushFails(t)
         \/ TransitionFails(t) \/ Ring(t) \/ Configure(t) \/ TeardownIdle(t) \/ DestroySync(t)
  PROVE  SemAt(t)'
<1>. CallsType /\ surface \in SurfaceType
  BY DEF TypeOK, SurfacesType
<1> USE DEF CallsType, SurfaceType, Goto, Return, Valuing
<1>1. CASE GetCurrentTexture(t)
  BY <1>1, SemQuiet DEF GetCurrentTexture, MaySurface
<1>2. CASE AcquireFails(t)
  BY <1>2, SemQuiet DEF AcquireFails
<1>3. CASE Present(t)
  BY <1>3, SemQuiet DEF Present, MaySurface
<1>4. CASE PresentFlushFails(t)
  BY <1>4, SemQuiet DEF PresentFlushFails, MaySurface
<1>5. CASE TransitionFails(t)
  BY <1>5, SemQuiet DEF TransitionFails
<1>6. CASE Ring(t)
  BY <1>6, SemQuiet DEF Ring
<1>7. CASE Configure(t)
  BY <1>7, SemQuiet DEF Configure, MaySurface
<1>8. CASE TeardownIdle(t)
  BY <1>8, SemQuiet DEF TeardownIdle
<1>9. CASE DestroySync(t)
  BY <1>9, SemQuiet DEF DestroySync
<1>. QED BY <1>1, <1>2, <1>3, <1>4, <1>5, <1>6, <1>7, <1>8, <1>9

LEMMA SemFinish ==
  ASSUME TypeOK, SemInv, GpuFinish
  PROVE  SemInv'
<1>1. UNCHANGED <<surface, sems, pc, call>>
  BY DEF GpuFinish
<1>2. ASSUME NEW s \in Images, frame_fence'[s] = "signaled" \/ s \in Owed'
      PROVE  frame_fence[s] = "signaled" \/ s \in Owed
  <2>1. /\ gpu' = gpu /\ done + 1 \in Running /\ Running' \subseteq Running
        /\ frame_fence \in [Images -> States]
    BY RunningEnds DEF TypeOK, SurfacesType
  <2>2. Owed' \subseteq Owed
    BY <2>1 DEF Owed
  <2>3. CASE gpu[done + 1].index = 0
    <3>1. gpu[done + 1].sync \in Owed
      BY <2>1, <2>3 DEF Owed
    <3>2. \A r \in Images : r # gpu[done + 1].sync => frame_fence'[r] = frame_fence[r]
      BY <2>1, <2>3 DEF GpuFinish
    <3>. QED BY <1>2, <2>2, <3>1, <3>2
  <2>4. CASE gpu[done + 1].index # 0
    BY <1>2, <2>2, <2>4 DEF GpuFinish
  <2>. QED BY <2>3, <2>4
<1>3. \A s \in Images : Rested(s) => Rested(s)'
  BY <1>1 DEF Rested
<1>4. \A i : Showing(i)' <=> Showing(i)
  BY <1>1 DEF Showing
<1>. QED BY <1>1, <1>2, <1>3, <1>4 DEF SemInv, Valued

LEMMA SemStep ==
  ASSUME TypeOK, PcInv, LockInv, PendingInv, WorkSync, SyncInv, SemInv, [Next]_vars
  PROVE  SemInv'
<1>. CallsType
  BY DEF TypeOK
<1>1. CASE SurfaceStill
  <2>1. /\ UNCHANGED <<gpu, done, surface, sems, frame_fence>>
        /\ \A u \in Threads : pc[u] \in Surfacing \/ pc'[u] \in Surfacing =>
             pc'[u] = pc[u] /\ call'[u].acquire = call[u].acquire
    BY <1>1 DEF SurfaceStill, SurfaceCalls
  <2>2. Owed' = Owed
    BY <2>1 DEF Owed, Running
  <2>3. \A u \in Threads : pc[u] \in Valuing \/ pc'[u] \in Valuing =>
             pc'[u] = pc[u] /\ call'[u].acquire = call[u].acquire
    BY <2>1 DEF Surfacing, Presenting, Valuing
  <2>4. \A i : Showing(i)' <=> Showing(i)
    BY <2>1 DEF Surfacing, Presenting, Showing
  <2>5. \A s : Rested(s) => Rested(s)'
    BY <2>1, <2>3 DEF Rested, Valuing
  <2>6. \A a : Valued(a)' <=> Valued(a)
    BY <2>1 DEF Valued
  <2>7. \A u \in Threads : pc'[u] \in Valuing => Valued(call[u].acquire)'
    BY <2>1, <2>3 DEF SemInv, Valued
  <2>8. surface'.pending # NoAcquire => Valued(surface.pending)'
    BY <2>1 DEF SemInv, Valued
  <2>. QED BY <2>1, <2>2, <2>4, <2>5, <2>7, <2>8 DEF SemInv
<1>2. ASSUME NEW t \in Threads, Submit(t) PROVE SemInv'
  BY <1>2, SemSubmit
<1>3. ASSUME NEW t \in Threads, SurfaceAct(t) PROVE SemInv'
  <2>1. SemAt(t) /\ (SemAt(t)' => SemInv')
    BY <1>3, SemOne
  <2>2. SemAt(t)'
    BY <1>3, <2>1, SemCalm, SemAcquire, SemPublish, SemTake, SemPresent, SemShow, SemReset
       DEF SurfaceAct
  <2>. QED BY <2>1, <2>2
<1>4. CASE GpuFinish
  BY <1>4, SemFinish
<1>5. ASSUME NEW i \in Images, ImageFree(i) PROVE SemInv'
  <2>1. UNCHANGED <<gpu, done, surface, sems, pc, call, frame_fence>>
    BY <1>5 DEF ImageFree
  <2>2. Owed' = Owed
    BY <2>1 DEF Owed, Running
  <2>3. \A s \in Images : Rested(s) => Rested(s)'
    BY <2>1 DEF Rested
  <2>4. \A j : Showing(j)' <=> Showing(j)
    BY <2>1 DEF Showing
  <2>. QED BY <2>1, <2>2, <2>3, <2>4 DEF SemInv, Valued
<1>. QED BY <1>1, <1>2, <1>3, <1>4, <1>5, SurfaceCases DEF SurfaceCase

LEMMA SplitCases ==
  ASSUME CallsType, [Next]_vars
  PROVE  Splits
<1>s. (\A u \in Threads : pc'[u] \in {"record", "submit"} => pc[u] \in {"record", "submit"}) => Splits
  BY DEF Splits, Submitting
<1>b. ASSUME NEW u \in Threads, NEW op \in Ops, BeginSubmit(u, op),
             \A v \in Threads \ {u} : pc'[v] = pc[v]
      PROVE  Splits
  BY <1>b DEF Splits, Submitting
<1>r. /\ pc \in [Threads -> Labels] /\ \A u \in Threads : call[u].resume \in {"harvest", "limit"}
  BY DEF CallsType, CallType
<1>1. ASSUME NEW t \in Threads, SubmitStep(t) PROVE Splits
  <2>1. ASSUME NEW op \in Ops, BeginSubmit(t, op) PROVE Splits
    <3>1. \A v \in Threads \ {t} : pc'[v] = pc[v]
      BY <1>r, <2>1 DEF BeginSubmit, Begin, Goto, TakePool
    <3>. QED BY <1>b, <3>1, <2>1
  <2>2. CASE Record(t)
    BY <1>s, <1>r, <2>2 DEF Record, Goto
  <2>3. CASE RecordFails(t)
    BY <1>s, <1>r, <2>3 DEF RecordFails, Goto
  <2>4. CASE Submit(t)
    BY <1>s, <1>r, <2>4 DEF Submit, Goto, TakeFence
  <2>5. CASE SubmitFails(t)
    BY <1>s, <1>r, <2>5 DEF SubmitFails, Goto, TakeFence, Fails
  <2>6. CASE Cleanup(t)
    BY <1>s, <1>r, <2>6 DEF Cleanup, Return
  <2>. QED BY <1>1, <2>1, <2>2, <2>3, <2>4, <2>5, <2>6 DEF SubmitStep
<1>2. ASSUME NEW t \in Threads, RetireStep(t) PROVE Splits
  <2>1. CASE LockRetire(t)
    BY <1>s, <1>r, <2>1 DEF LockRetire, Goto
  <2>2. CASE TryHarvest(t)
    BY <1>s, <1>r, <2>2 DEF TryHarvest, Goto, Return
  <2>3. CASE HarvestFrame(t)
    BY <1>s, <1>r, <2>3 DEF HarvestFrame, PopFrame, Goto, FrontFrame
  <2>4. CASE Track(t)
    BY <1>s, <1>r, <2>4 DEF Track, Goto, Resume
  <2>5. CASE RecycleOld(t)
    BY <1>s, <1>r, <2>5 DEF RecycleOld, Resume, Goto
  <2>6. CASE HarvestEnds(t)
    BY <1>s, <1>r, <2>6 DEF HarvestEnds, Goto, Return
  <2>7. CASE HarvestFails(t)
    BY <1>s, <1>r, <2>7 DEF HarvestFails, Return
  <2>8. CASE EvictFrame(t)
    BY <1>s, <1>r, <2>8 DEF EvictFrame, PopFrame, Goto, FrontFrame
  <2>9. CASE EvictFails(t)
    BY <1>s, <1>r, <2>9 DEF EvictFails, Return
  <2>10. CASE SubmitReturns(t)
    BY <1>s, <1>r, <2>10 DEF SubmitReturns, Return, Goto
  <2>. QED BY <1>2, <2>1, <2>2, <2>3, <2>4, <2>5, <2>6, <2>7, <2>8, <2>9, <2>10 DEF RetireStep
<1>3. ASSUME NEW t \in Threads, WaitStep(t) PROVE Splits
  <2>1. CASE BeginWait(t)
    BY <1>s, <1>r, <2>1 DEF BeginWait, Begin, Goto, MayCall
  <2>2. CASE WaitTest(t)
    BY <1>s, <1>r, <2>2 DEF WaitTest, Goto, Return
  <2>3. CASE Wait(t)
    BY <1>s, <1>r, <2>3 DEF Wait, Goto
  <2>4. CASE WaitFails(t)
    BY <1>s, <1>r, <2>4 DEF WaitFails, Goto
  <2>5. CASE Unpin(t)
    BY <1>s, <1>r, <2>5 DEF Unpin, Goto, Waited, Return
  <2>6. CASE RecycleWaited(t)
    BY <1>s, <1>r, <2>6 DEF RecycleWaited, Waited, Goto, Return
  <2>7. CASE Poll(t)
    BY <1>s, <1>r, <2>7 DEF Poll, Begin, Goto, MayCall
  <2>8. CASE PollFails(t)
    BY <1>s, <1>r, <2>8 DEF PollFails, MayCall
  <2>9. CASE BeginWaitIdle(t)
    BY <1>s, <1>r, <2>9 DEF BeginWaitIdle, Begin, Goto, MayCall
  <2>10. CASE WaitIdle(t)
    BY <1>s, <1>r, <2>10 DEF WaitIdle, Goto
  <2>11. CASE WaitIdleFails(t)
    BY <1>s, <1>r, <2>11 DEF WaitIdleFails, Return
  <2>. QED BY <1>3, <2>1, <2>2, <2>3, <2>4, <2>5, <2>6, <2>7, <2>8, <2>9, <2>10, <2>11 DEF WaitStep
<1>4. ASSUME NEW t \in Threads, AcquireStep(t) PROVE Splits
  <2>1. CASE GetCurrentTexture(t)
    BY <1>s, <1>r, <2>1 DEF GetCurrentTexture, Goto, MaySurface
  <2>2. CASE AcquireImage(t)
    BY <1>s, <1>r, <2>2 DEF AcquireImage, Goto
  <2>3. CASE AcquireFails(t)
    BY <1>s, <1>r, <2>3 DEF AcquireFails, Return
  <2>4. CASE PublishAcquire(t)
    BY <1>s, <1>r, <2>4 DEF PublishAcquire, Return
  <2>5. CASE AcquireBlocked(t)
    BY <1>s, <1>r, <2>5 DEF AcquireBlocked, vars
  <2>. QED BY <1>4, <2>1, <2>2, <2>3, <2>4, <2>5 DEF AcquireStep
<1>5. ASSUME NEW t \in Threads, PresentStep(t) PROVE Splits
  <2>1. CASE Present(t)
    BY <1>s, <1>r, <2>1 DEF Present, Goto, MaySurface
  <2>2. CASE PresentFlushFails(t)
    BY <1>s, <1>r, <2>2 DEF PresentFlushFails, MaySurface
  <2>3. CASE TakePending(t)
    BY <1>s, <1>r, <2>3 DEF TakePending, Goto
  <2>4. CASE Transition(t)
    BY <1>s, <1>r, <2>4 DEF Transition, Goto
  <2>5. CASE TransitionFails(t)
    BY <1>s, <1>r, <2>5 DEF TransitionFails, Goto
  <2>6. CASE Recover(t)
    BY <1>s, <1>r, <2>6 DEF Recover, Return
  <2>7. CASE Ring(t)
    BY <1>s, <1>r, <2>7 DEF Ring, Goto
  <2>8. CASE QueuePresent(t)
    BY <1>s, <1>r, <2>8 DEF QueuePresent, Return
  <2>. QED BY <1>5, <2>1, <2>2, <2>3, <2>4, <2>5, <2>6, <2>7, <2>8 DEF PresentStep
<1>6. ASSUME NEW t \in Threads, ConfigureStep(t) PROVE Splits
  <2>1. CASE Configure(t)
    BY <1>s, <1>r, <2>1 DEF Configure, Goto, MaySurface
  <2>2. CASE TeardownIdle(t)
    BY <1>s, <1>r, <2>2 DEF TeardownIdle, Goto
  <2>3. CASE DestroySync(t)
    BY <1>s, <1>r, <2>3 DEF DestroySync, Goto
  <2>4. CASE ResetPending(t)
    BY <1>s, <1>r, <2>4 DEF ResetPending, Return
  <2>. QED BY <1>6, <2>1, <2>2, <2>3, <2>4 DEF ConfigureStep
<1>7. CASE GpuFinish
  BY <1>s, <1>r, <1>7 DEF GpuFinish
<1>8. ASSUME NEW i \in Images, ImageFree(i) PROVE Splits
  BY <1>s, <1>r, <1>8 DEF ImageFree
<1>9. CASE Drop
  BY <1>s, <1>r, <1>9 DEF Drop
<1>10. CASE UNCHANGED vars
  BY <1>s, <1>r, <1>10 DEF vars
<1>. QED BY <1>1, <1>2, <1>3, <1>4, <1>5, <1>6, <1>7, <1>8, <1>9, <1>10 DEF Next, Ended

LEMMA SplitStep ==
  ASSUME TypeOK, LockInv, SplitInv, [Next]_vars, ~SubmitsDuringConfigure
  PROVE  SplitInv'
<1>. CallsType
  BY DEF TypeOK
<1>0. Configuring = {u \in Threads : pc[u] \in Configured} /\ Configured \subseteq Surfacing
  BY DEF Configuring, Configured, Surfacing
<1>1. ASSUME NEW t \in Threads, NEW op \in Ops, BeginSubmit(t, op)
      PROVE  Configuring' = {}
  <2>1. /\ Configuring = {} /\ pc'[t] = "record"
        /\ \A u \in Threads \ {t} : pc'[u] = pc[u]
    BY <1>1 DEF BeginSubmit, Begin, Goto, CallsType
  <2>. QED BY <2>1 DEF Configuring
<1>2. CASE Submitting' \subseteq Submitting
  <2>1. CASE SurfaceStill
    <3>1. Configuring' = Configuring
      BY <1>0, <2>1 DEF SurfaceStill, SurfaceCalls, Configuring, Configured, Surfacing
    <3>. QED BY <1>2, <3>1 DEF SplitInv
  <2>2. ASSUME NEW t \in Threads, Submit(t) PROVE SplitInv'
    <3>1. Configuring' = Configuring
      BY <2>2, SubmitCalls DEF SurfaceCalls, Configuring, Surfacing, Configured
    <3>. QED BY <1>2, <3>1 DEF SplitInv
  <2>3. ASSUME NEW t \in Threads, SurfaceAct(t) PROVE SplitInv'
    <3>1. \A u \in Threads \ {t} : pc'[u] \notin Surfacing
      BY <2>3, Solo
    <3>2. \/ pc'[t] \notin Configured
          \/ pc[t] \in Configured
          \/ Submitting = {}
      BY <2>3 DEF SurfaceAct, CallsType, GetCurrentTexture, AcquireImage, Configured,
           AcquireFails, PublishAcquire, Present, PresentFlushFails, TakePending, Transition,
           TransitionFails, Recover, Ring, QueuePresent, Configure, TeardownIdle, DestroySync,
           ResetPending, Goto, Return, MaySurface
    <3>. QED BY <1>0, <1>2, <3>1, <3>2 DEF SplitInv, Configuring, Configured, Surfacing
  <2>4. CASE GpuFinish \/ \E i \in Images : ImageFree(i)
    <3>1. Configuring' = Configuring
      BY <2>4 DEF GpuFinish, ImageFree, Configuring
    <3>. QED BY <1>2, <3>1 DEF SplitInv
  <2>. QED BY <2>1, <2>2, <2>3, <2>4, SurfaceCases DEF SurfaceCase
<1>. QED BY <1>1, <1>2, SplitCases DEF Splits, SplitInv

-----------------------------------------------------------------------------

\* One more submission: its own wait is unused, and it does not signal the fence
\* of a frame that another one waits for.
LEMMA WaitGrow ==
  ASSUME GpuType, WaitInv, NEW w \in WorkType, gpu' = Append(gpu, w), UNCHANGED <<done, frame_fence>>,
         \A s \in Images : sems[Acquired(s)] = 0 => sems'[Acquired(s)] = 0,
         \A s \in Images : Acquired(s) \in w.waits =>
           /\ sems'[Acquired(s)] = 0 /\ frame_fence[s] = "unsignaled" /\ s \notin Owed,
         WorkSync, ~Torn'
  PROVE  WaitInv'
<1>1. PICK n \in DOMAIN gpu' :
        /\ Running' = Running \cup {n} /\ n \notin DOMAIN gpu /\ gpu'[n] = w
        /\ DOMAIN gpu' = DOMAIN gpu \cup {n} /\ Running \subseteq DOMAIN gpu
        /\ \A k \in DOMAIN gpu : gpu'[k] = gpu[k]
  BY RunningGrows
<1>2. \A k \in Running : k <= n
  <2>1. DOMAIN gpu = 1 .. Len(gpu) /\ DOMAIN gpu' = 1 .. Len(gpu) + 1 /\ Len(gpu) \in Nat
    BY DEF GpuType
  <2>. QED BY <1>1, <2>1
<1>3. n <= n
  BY <1>1 DEF GpuType
<1>4. ASSUME NEW k \in Running', NEW s \in Images, Acquired(s) \in gpu'[k].waits
      PROVE  Unused(s, k)'
  <2>1. CASE k \in Running
    <3>1. Unused(s, k)
      BY <1>1, <1>4, <2>1 DEF WaitInv
    <3>2. \A l \in Running' : gpu'[l].sync = s => k <= l
      BY <1>1, <1>2, <2>1, <3>1 DEF Unused
    <3>. QED BY <3>1, <3>2 DEF Unused
  <2>2. CASE k = n
    <3>1. sems'[Acquired(s)] = 0 /\ frame_fence[s] = "unsignaled" /\ s \notin Owed
      BY <1>1, <1>4, <2>2
    <3>2. \A l \in Running : gpu[l].sync # s
      BY <1>1, <3>1, VulkanAssumption DEF WorkSync, Owed
    <3>3. \A l \in Running' : gpu'[l].sync = s => k <= l
      BY <1>1, <1>3, <2>2, <3>2
    <3>. QED BY <3>1, <3>3 DEF Unused
  <2>. QED BY <1>1, <2>1, <2>2
<1>. QED BY <1>4 DEF WaitInv

\* No submission is added and no acquire is signaled that one waits for.
LEMMA WaitStays ==
  ASSUME WaitInv, UNCHANGED <<gpu, done>>,
         \A s \in Images : sems[Acquired(s)] = 0 /\ frame_fence[s] = "unsignaled" =>
                             sems'[Acquired(s)] = 0 /\ frame_fence'[s] = "unsignaled",
         Torn' => Torn \/ Running = {}
  PROVE  WaitInv'
<1>1. Running' = Running
  BY DEF Running
<1>. QED BY <1>1 DEF WaitInv, Unused

\* A semaphore that is not signaled stays so, and one that is waited for is used up.
LEMMA WaitSems ==
  ASSUME sems \in [Semaphores -> {0, 1}], sems' \in [Semaphores -> {0, 1}],
         NEW w, NEW g, SemaphoreOps(w, g), NEW s \in Images, Acquired(s) \notin g
  PROVE  /\ sems[Acquired(s)] = 0 => sems'[Acquired(s)] = 0
         /\ Acquired(s) \in w => sems'[Acquired(s)] = 0
<1>1. PICK x \in Semaphores : x = Acquired(s)
  BY SemNames
<1>2. sems'[x] = sems[x] + 0 - (IF x \in w THEN 1 ELSE 0)
  BY <1>1 DEF SemaphoreOps
<1>3. sems[x] \in {0, 1} /\ sems'[x] \in {0, 1}
  BY <1>1
<1>. QED BY <1>1, <1>2, <1>3

LEMMA WaitSubmit ==
  ASSUME TypeOK, PcInv, PendingInv, WorkSync, SyncInv, SemInv, SemInv', SplitInv, WaitInv,
         NEW t \in Threads, Submit(t)
  PROVE  WaitInv'
<1>. CallsType /\ GpuType
  BY DEF TypeOK
<1>1. PICK w \in WorkType : gpu' = Append(gpu, w) /\ w.waits = AcquireWaits
  BY SubmitShape
<1>2. SemaphoreOps(AcquireWaits, AcquireSignals) /\ UNCHANGED <<done, frame_fence>>
  BY DEF Submit, Accept, Work
<1>3. \A s \in Images : Acquired(s) \notin AcquireSignals
  BY SemNames DEF AcquireSignals
<1>4. ASSUME NEW s \in Images
      PROVE  /\ sems[Acquired(s)] = 0 => sems'[Acquired(s)] = 0
             /\ Acquired(s) \in AcquireWaits => sems'[Acquired(s)] = 0
  BY <1>2, <1>3, WaitSems DEF SemInv
<1>5. ASSUME NEW s \in Images, Acquired(s) \in AcquireWaits
      PROVE  frame_fence[s] = "unsignaled" /\ s \notin Owed
  <2>1. surface.pending # NoAcquire /\ Acquired(s) = Acquired(surface.pending.sync)
    BY <1>5 DEF AcquireWaits, Unconsumed
  <2>2. s \in Claims
    BY <2>1, SemNames DEF Claims
  <2>. QED BY <2>2 DEF SyncInv
<1>6. ~Torn'
  <2>1. t \in Submitting
    BY DEF Submitting, Submit
  <2>2. ~Torn
    BY <2>1 DEF SplitInv, Configuring, Torn
  <2>. QED BY <2>2, SubmitCalls DEF SurfaceCalls, Torn, Surfacing, Configured
<1>. QED BY <1>1, <1>2, <1>4, <1>5, <1>6, WaitGrow

LEMMA WaitPresent ==
  ASSUME TypeOK, LockInv, PendingInv, WorkSync, SyncInv, SemInv, SemInv', WaitInv,
         NEW t \in Threads, Transition(t) \/ Recover(t)
  PROVE  WaitInv'
<1>. CallsType /\ GpuType
  BY DEF TypeOK
<1>1. PICK a : a = call[t].acquire
  OBVIOUS
<1>2. pc[t] \in {"transition", "recover"} /\ a.sync \in Images /\ UNCHANGED <<done, frame_fence>>
  BY <1>1 DEF PendingInv, PendingOK, Presenting, Transition, Recover, Accept
<1>3. PICK w \in WorkType : gpu' = Append(gpu, w) /\ w.waits = PresentWaits(a)
  BY <1>1, PresentShape
<1>4. PICK g : SemaphoreOps(PresentWaits(a), g) /\ g \subseteq {Ready(a.image)}
  BY <1>1 DEF Transition, Recover, Accept, PresentWork, Work
<1>5. \A s \in Images : Acquired(s) \notin g
  BY <1>4, SemNames
<1>6. ASSUME NEW s \in Images
      PROVE  /\ sems[Acquired(s)] = 0 => sems'[Acquired(s)] = 0
             /\ Acquired(s) \in PresentWaits(a) => sems'[Acquired(s)] = 0
  BY <1>4, <1>5, WaitSems DEF SemInv
<1>7. ASSUME NEW s \in Images, Acquired(s) \in PresentWaits(a)
      PROVE  frame_fence[s] = "unsignaled" /\ s \notin Owed
  <2>1. s = a.sync
    BY <1>7, SemNames DEF PresentWaits
  <2>2. s \in Claims
    BY <1>1, <1>2, <2>1 DEF Claims
  <2>. QED BY <2>2 DEF SyncInv
<1>8. ~Torn'
  <2>1. \A u \in Threads \ {t} : pc'[u] \notin Surfacing
    BY Solo DEF SurfaceAct
  <2>2. pc'[t] \in {"ring", "idle"}
    BY DEF Transition, Recover, Goto, Return, CallsType
  <2>. QED BY <2>1, <2>2 DEF Torn, Surfacing, Configured
<1>. QED BY <1>2, <1>3, <1>6, <1>7, <1>8, WaitGrow

LEMMA WaitFinish ==
  ASSUME TypeOK, WaitInv, GpuFinish
  PROVE  WaitInv'
<1>. GpuType /\ frame_fence \in [Images -> States]
  BY DEF TypeOK, SurfacesType
<1>1. /\ gpu' = gpu /\ done + 1 \in Running /\ Running' = Running \ {done + 1}
      /\ \A k \in Running' : k \in Nat /\ k > done + 1
  BY RunningEnds DEF GpuType, Running
<1>2. UNCHANGED <<sems, pc>>
  BY DEF GpuFinish
<1>3. ASSUME NEW k \in Running', NEW s \in Images, Acquired(s) \in gpu'[k].waits
      PROVE  Unused(s, k)'
  <2>1. Unused(s, k)
    BY <1>1, <1>3 DEF WaitInv
  <2>2. gpu[done + 1].sync # s
    <3>1. ~(k <= done + 1)
      BY <1>1 DEF GpuType
    <3>. QED BY <1>1, <2>1, <3>1 DEF Unused
  <2>3. frame_fence'[s] = frame_fence[s]
    BY <2>2 DEF GpuFinish
  <2>. QED BY <1>1, <1>2, <2>1, <2>3 DEF Unused
<1>4. Torn' => Running' = {}
  BY <1>1, <1>2 DEF WaitInv, Torn
<1>. QED BY <1>3, <1>4 DEF WaitInv

LEMMA WaitAct ==
  ASSUME TypeOK, LockInv, PendingInv, WorkSync, SyncInv, SemInv, SemInv', WaitInv,
         NEW t \in Threads, SurfaceAct(t)
  PROVE  WaitInv'
<1>. CallsType /\ GpuType /\ surface \in SurfaceType /\ frame_fence \in [Images -> States]
  BY DEF TypeOK, SurfacesType
<1>1. Torn' => pc'[t] \in {"destroy_sync", "reset_pending"}
  BY Solo DEF Torn, Surfacing, Configured
<1>s. ASSUME UNCHANGED <<gpu, done, sems, frame_fence>>, Torn' => Torn \/ Running = {}
      PROVE  WaitInv'
  BY <1>s, WaitStays
<1> USE DEF Goto, Return, CallsType
<1>2. CASE GetCurrentTexture(t)
  BY <1>1, <1>2, <1>s DEF GetCurrentTexture
<1>3. CASE AcquireImage(t)
  <2>1. PICK s \in Images : s = surface.next_sync
    BY DEF SurfaceType
  <2>2. /\ frame_fence[s] = "signaled" /\ UNCHANGED <<gpu, done, frame_fence>>
        /\ SemaphoreOps({}, {Acquired(s)}) /\ pc'[t] = "acquired"
    BY <1>3, <2>1 DEF AcquireImage
  <2>3. ASSUME NEW i \in Images, sems[Acquired(i)] = 0, frame_fence[i] = "unsignaled"
        PROVE  sems'[Acquired(i)] = 0 /\ frame_fence'[i] = "unsignaled"
    <3>1. Acquired(i) \notin {Acquired(s)}
      BY <2>2, <2>3, SemNames
    <3>. QED BY <2>2, <2>3, <3>1, WaitSems DEF SemInv
  <2>. QED BY <1>1, <2>2, <2>3, WaitStays
<1>4. CASE AcquireFails(t)
  BY <1>1, <1>4, <1>s DEF AcquireFails
<1>5. CASE PublishAcquire(t)
  <2>1. /\ UNCHANGED <<gpu, done, sems>> /\ pc'[t] = "idle"
        /\ frame_fence' = [frame_fence EXCEPT ![call[t].acquire.sync] = "unsignaled"]
    BY <1>5 DEF PublishAcquire
  <2>. QED BY <1>1, <2>1, WaitStays
<1>6. CASE Present(t)
  BY <1>1, <1>6, <1>s DEF Present
<1>7. CASE PresentFlushFails(t)
  BY <1>1, <1>7, <1>s DEF PresentFlushFails, MaySurface
<1>8. CASE TakePending(t)
  BY <1>1, <1>8, <1>s DEF TakePending
<1>9. CASE Transition(t) \/ Recover(t)
  BY <1>9, WaitPresent
<1>10. CASE TransitionFails(t)
  BY <1>1, <1>10, <1>s DEF TransitionFails
<1>11. CASE Ring(t)
  BY <1>1, <1>11, <1>s DEF Ring
<1>12. CASE QueuePresent(t)
  <2>1. PICK i : SemaphoreOps({Ready(i)}, {})
    BY <1>12 DEF QueuePresent
  <2>2. UNCHANGED <<gpu, done, frame_fence>> /\ pc'[t] = "idle"
    BY <1>12 DEF QueuePresent
  <2>3. \A s \in Images : sems[Acquired(s)] = 0 => sems'[Acquired(s)] = 0
    BY <2>1, WaitSems DEF SemInv
  <2>. QED BY <1>1, <2>2, <2>3, WaitStays
<1>13. CASE Configure(t)
  BY <1>1, <1>13, <1>s DEF Configure
<1>14. CASE TeardownIdle(t)
  <2>1. UNCHANGED <<gpu, done, sems, frame_fence>> /\ done = Len(gpu)
    BY <1>14 DEF TeardownIdle
  <2>2. Running = {}
    BY <2>1 DEF Running, GpuType
  <2>. QED BY <1>s, <2>1, <2>2
<1>15. CASE DestroySync(t)
  <2>1. UNCHANGED <<gpu, done, sems, frame_fence>> /\ Torn
    BY <1>15 DEF DestroySync, Torn
  <2>. QED BY <1>s, <2>1
<1>16. CASE ResetPending(t)
  <2>1. Torn /\ UNCHANGED <<gpu, done>>
    BY <1>16 DEF ResetPending, Torn
  <2>2. Running' = {}
    BY <2>1 DEF WaitInv, Running
  <2>. QED BY <2>2 DEF WaitInv
<1>. QED
  BY <1>2, <1>3, <1>4, <1>5, <1>6, <1>7, <1>8, <1>9, <1>10, <1>11, <1>12, <1>13, <1>14, <1>15,
     <1>16 DEF SurfaceAct

LEMMA WaitsStep ==
  ASSUME TypeOK, PcInv, LockInv, PendingInv, WorkSync, SyncInv, SemInv, SemInv', SplitInv,
         WaitInv, [Next]_vars
  PROVE  WaitInv'
<1>1. CASE SurfaceStill
  <2>1. UNCHANGED <<gpu, done, sems, frame_fence>> /\ (Torn' => Torn)
    BY <1>1 DEF SurfaceStill, SurfaceCalls, Torn, Surfacing, Configured
  <2>. QED BY <2>1, WaitStays
<1>2. ASSUME NEW i \in Images, ImageFree(i) PROVE WaitInv'
  <2>1. UNCHANGED <<gpu, done, sems, frame_fence>> /\ (Torn' => Torn)
    BY <1>2 DEF ImageFree, Torn
  <2>. QED BY <2>1, WaitStays
<1>. QED BY <1>1, <1>2, WaitSubmit, WaitAct, WaitFinish, SurfaceCases DEF SurfaceCase

LEMMA SemsAlternate ==
  ASSUME SemInv, WaitInv
  PROVE  SemaphoresAlternate
  BY DEF SemInv, WaitInv, SemaphoresAlternate, Unused

-----------------------------------------------------------------------------
(* The invariant and the theorems                                          *)

LEMMA SafeInit == Init => SafeInv
<1>1. SUFFICES ASSUME Init PROVE SafeInv
  OBVIOUS
<1>2. /\ gpu = <<>> /\ done = 0 /\ frames = <<>> /\ free_fences = <<>> /\ free_pools = <<>>
      /\ DOMAIN gpu = {} /\ DOMAIN frames = {} /\ DOMAIN free_fences = {} /\ DOMAIN free_pools = {}
      /\ Len(gpu) = 0 /\ live_pools = {} /\ layout = "undefined" /\ dropped = FALSE
      /\ fence_state = [f \in Fences |-> "absent"]
      /\ surface = NewSurface /\ sems = [s \in Semaphores |-> 0]
      /\ frame_fence = [i \in Images |-> "signaled"]
      /\ \A t \in Threads : pc[t] = "idle" /\ call[t] = NoCall
  BY <1>1 DEF Init
<1>3. Running = {} /\ Owed = {}
  BY <1>2 DEF Running, Owed
<1>4. ChainInv
  BY <1>2 DEF ChainInv, LayoutsChain, Excluding
<1>5. HomeInv
  BY <1>2 DEF HomeInv
<1>6. PoolInv
  <2>1. FreePools = {} /\ Stored = {} /\ StoredPools = {}
    BY <1>2 DEF FreePools, Stored, StoredPools
  <2>2. \A t \in Threads, p \in Pools : ~HasPool(pc[t], call[t], p)
    BY <1>2 DEF HasPool, NoCall
  <2>. QED BY <1>2, <2>1, <2>2 DEF PoolInv
<1>7. WorkInv
  <2>1. Retaining = {}
    BY <1>2 DEF Retaining, NoCall
  <2>. QED BY <2>1 DEF WorkInv
<1>8. EmptyInv /\ LockInv
  BY <1>2 DEF EmptyInv, LockInv, Surfacing, Presenting, Configured
<1>9. surface.pending = NoAcquire /\ surface.image_index = None
  BY <1>2 DEF NewSurface
<1>10. PendingInv
  BY <1>2, <1>9 DEF PendingInv, PendingOK, Presenting
<1>11. WorkSync /\ SyncInv
  <2>1. Claims = {} /\ ~Torn
    BY <1>2, <1>9 DEF Claims, Torn
  <2>. QED BY <1>2, <1>3, <2>1 DEF WorkSync, SyncInv
<1>12. RingInv
  BY <1>3 DEF RingInv
<1>13. SemInv
  <2>1. /\ sems \in [Semaphores -> {0, 1}]
        /\ \A i \in Images : sems[Acquired(i)] = 0 /\ sems[Finished(i)] = 0 /\ sems[Ready(i)] = 0
    BY <1>2, SemNames
  <2>. QED BY <1>2, <1>9, <2>1 DEF SemInv, Rested, Showing, Valuing
<1>. QED BY <1>1, <1>4, <1>5, <1>6, <1>7, <1>8, <1>10, <1>11, <1>12, <1>13, InitHolds DEF SafeInv

LEMMA SafeStep == SafeInv /\ [Next]_vars => SafeInv'
<1>1. SUFFICES ASSUME SafeInv, [Next]_vars PROVE SafeInv'
  OBVIOUS
<1>2. IInv /\ IInv' /\ Base /\ CallInv /\ DropInv
  BY <1>1, StepKeeps DEF SafeInv, IInv, Base, LifeInv
<1>3. TypeOK /\ TypeOK' /\ PcInv /\ FrameInv
  BY <1>2 DEF IInv, LifeInv
<1>4. ChainInv' /\ HomeInv' /\ PoolInv' /\ WorkInv' /\ EmptyInv'
  BY <1>1, <1>2, <1>3, ChainStep, HomeStep, PoolStep, WorkStep, EmptyStep DEF SafeInv
<1>5. LockInv' /\ PendingInv' /\ WorkSync' /\ SyncInv' /\ RingInv' /\ SemInv'
  BY <1>1, <1>3, LockStep, PendingStep, SyncStep, RingStep, SemStep DEF SafeInv
<1>. QED BY <1>2, <1>4, <1>5 DEF SafeInv

LEMMA SafeInvariance == Spec => []SafeInv
  BY SafeInit, SafeStep, PTL DEF Spec

\* Every submission is recorded with the layout that the one before it leaves: the
\* layouts are read and committed under queue_access, errors between them included.
\* (vulkan/queue.rs: record_and_submit_copies, LayoutOverlay)
THEOREM LayoutsChained == Spec => []LayoutsChain
<1>1. SafeInv => LayoutsChain
  BY DEF SafeInv, ChainInv
<1>. QED BY <1>1, SafeInvariance, PTL

\* While the GPU runs a submission, its frame retains its pool and fence, and the
\* ring has the command buffer of a present.
\* (vulkan/queue.rs: SubmissionRetireQueue, VulkanFrameResources; vulkan/surface.rs: RetireRing)
THEOREM ResourcesRetained == Spec => []ResourcesHeld
<1>1. SafeInv => ResourcesHeld
  BY HeldResources DEF SafeInv, IInv, Base, LifeInv
<1>. QED BY <1>1, SafeInvariance, PTL

\* Every fence and pool is in the recycler, in a frame or in a call, so dropping the
\* queue destroys them all. (vulkan/queue.rs: Drop for VulkanQueueInner, recycle)
THEOREM NothingLeaked == Spec => []NothingLeaks
<1>1. SafeInv => NothingLeaks
  <2>1. SafeInv => TypeOK /\ PcInv /\ PinInv /\ HomeInv /\ PoolInv /\ DropInv /\ EmptyInv
    BY DEF SafeInv, IInv, LifeInv
  <2>. QED BY <2>1, NothingLeft DEF NothingLeaks
<1>. QED BY <1>1, SafeInvariance, PTL

\* The fence that the next acquire waits for without a timeout is signaled or a
\* submission of the GPU signals it, unless its frame's present did not reach the
\* HAL. (vulkan/surface.rs: acquire_texture, present, recover_failed_present)
THEOREM PresentsReturn == Spec => []PresentedReturns
<1>1. SafeInv => PresentedReturns
  <2>1. SafeInv => LockInv /\ PendingInv /\ SyncInv /\ surface.next_sync \in Images
    BY DEF SafeInv, IInv, TypeOK, SurfacesType, SurfaceType
  <2>. QED BY <2>1, AcquireSignaled
<1>. QED BY <1>1, SafeInvariance, PTL

\* When no thread submits while another configures the surface, each acquire is
\* waited for exactly once, by the submission that consumes it or by the present,
\* before its semaphore is used again.
\* (vulkan/queue.rs: pending_surface_syncs; vulkan/surface.rs: present, unconfigure)
THEOREM SemaphoresInTurn ==
  ASSUME ~SubmitsDuringConfigure
  PROVE  Spec => []SemaphoresAlternate
<1> DEFINE TurnInv == SafeInv /\ SplitInv /\ WaitInv
<1>1. Init => TurnInv
  <2>1. Init => \A t \in Threads : pc[t] = "idle"
    BY DEF Init
  <2>2. Init => SplitInv
    BY <2>1 DEF SplitInv, Configuring
  <2>3. Init => Running = {}
    BY DEF Init, Running
  <2>4. Init => WaitInv
    BY <2>3 DEF WaitInv
  <2>. QED BY <2>2, <2>4, SafeInit
<1>2. TurnInv /\ [Next]_vars => TurnInv'
  <2>1. SUFFICES ASSUME SafeInv, SplitInv, WaitInv, [Next]_vars PROVE TurnInv'
    OBVIOUS
  <2>2. SafeInv'
    BY <2>1, SafeStep
  <2>3. /\ TypeOK /\ PcInv /\ LockInv /\ PendingInv /\ WorkSync /\ SyncInv /\ SemInv
        /\ SemInv'
    BY <2>1, <2>2 DEF SafeInv, IInv
  <2>4. SplitInv' /\ WaitInv'
    BY <2>1, <2>3, SplitStep, WaitsStep
  <2>. QED BY <2>2, <2>4
<1>3. TurnInv => SemaphoresAlternate
  BY SemsAlternate DEF SafeInv
<1>. HIDE DEF TurnInv
<1>. QED BY <1>1, <1>2, <1>3, PTL DEF Spec
=============================================================================
