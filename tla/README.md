# Verification of yawgpu

yawgpu implements the C API of WebGPU (`webgpu.h`) in Rust. This directory holds
TLA+ models of the parts of it that keep state across calls and threads, the TLC
configurations that check them on small instances, and proofs for TLAPS.

Everything is translated from the Rust source; `PROJECT.json` maps each
definition to the lines it stands for. The documents under `specs/blocks/` are
used for one thing only: to name the rule a property states.

## 1. The system

| Component | State it keeps | Operations | Hard behaviour |
|---|---|---|---|
| **Queue** (`yawgpu-core/src/queue.rs`) | `PendingWriteBatch` (copies, staging chunks, retired chunks, pool), latest submission index, the `submission` and `pending_writes` mutexes, `lost` | `write_buffer`, `write_texture`, `submit`, `flush_pending_writes`, `wait_idle`, `submission_complete`, `wait_for_submission`, `mark_lost`, drop | recycling staging memory against a completed index read outside the lock; order of writes and submits of several threads; errors in the middle of a submit |
| **Futures and callbacks** (`yawgpu-core/src/future.rs`, `yawgpu/src/ffi/mod.rs`) | future registry, map of pending callbacks with submission gates | registration, polling, `ProcessEvents`, `WaitAny`, cancellation | two locks taken one after the other by racing paths; callbacks that call back |
| **Instance in use** (`ffi/{mod,instance,adapter,device}.rs`) | `in_use_refs`, external reference counts | AddRef/Release of instance, adapter, device; delivery of a request result | the last release races with registrations and deliveries |
| **Buffer mapping** (`yawgpu-core/src/buffer.rs`, `ffi/buffer.rs`) | map state, serial, active range, host storage | `mapAsync`, resolve, `unmap`, `destroy`, abort | the lock is released during the GPU wait; order against submit |
| **Device loss and errors** (`yawgpu-core/src/device.rs`) | `lost`, error scopes per thread, uncaptured-error callback and who is in it | `lose`, push/pop scope, dispatch, clear callback | waits for other threads inside callbacks; lock order with the queue; who tells the lost future |
| **Vulkan queue** (`yawgpu-hal/src/vulkan/{queue,encode,layout,surface}.rs`) | fences, retired submissions (FIFO), submission tracker, pins, recycled pools, committed image layouts | submit, harvest, wait, poll, recycle | fences reused while another thread waits on them; errors after the GPU accepted work; hand-over to retirement out of order |
| **Vulkan barriers** (`yawgpu-hal/src/vulkan/{encode,texture,layout}.rs`) | tracked layout of every subresource, staged per submission; nothing of what was last done to a buffer | barriers, layout transitions and render pass dependencies of every command | each command's barrier must cover all that may follow or precede it, of any kind and in any submission; final layouts are set apart from the pass that makes them |
| **Encoder and passes** (`yawgpu-core/src/{command_encoder,pass,render_pass,compute_pass,render_bundle}.rs`) | open/locked/ended state, bound groups with memo flags, usage scopes, references, debug groups, deferred errors | begin/end pass, commands, bundles, finish | validation skipped when nothing relevant changed; references collected along other paths than uses |
| **Texture initialization** (`queue.rs`, `texture.rs`) | per-subresource flags, overlay of a submit | lazy clear, discard, commit | a failed submit must not commit; a queue write marks before it runs |
| **Object caches** (`ffi/mod.rs`) | weak entries by descriptor | lookup, insert, drop | lookup racing with the last release |
| **Surface** (`ffi/surface.rs`, HAL surfaces) | configuration, acquired texture, frames in flight, their fences and semaphores | configure, acquire, present | errors between acquire and present; reconfiguration with frames in flight |

How they interact: the application calls the C layer from any thread; the C layer
owns reference counts, futures and callbacks and calls the core; the core
validates, keeps the queue, and calls one HAL (Noop, Metal, Vulkan, GLES). The
queue gives every submission an index; `mapAsync` and `onSubmittedWorkDone`
capture the latest index as a gate, and polls compare it with what the HAL says is
complete. Losing the device marks the queue lost, discards deferred writes and
resolves every gate. Validation of immutable descriptors (pipelines, bind groups,
formats, limits), the conversion of C structures and the Tint compiler are
functions of their inputs and keep no state between calls; they are not modelled.

What makes each correct, in one line each: the queue keeps the order of calls,
loses no accepted write, and never lets staging memory be overwritten while the
GPU may read it; a callback is called once, in a call its mode allows, not before
its work is complete or its device lost, and never left behind; an instance that is no longer in use
stays so; a mapped buffer is never used by the GPU; a lost device submits nothing,
and its loss is told once; an error reaches the scope that is open for it; a fence, a
pool or a semaphore is used again only when nobody looks at it; what a pass draws is
valid and names only live resources; no command reads memory that holds nothing;
accesses that conflict are ordered on the GPU.

## 2. Modules

| Module | Contents |
|---|---|
| `Queue` | the device queue: variables, one action per critical section, properties, the inductive invariant `IInv`, mutants |
| `MCQueue` + `MCQueue.cfg` | its instance for TLC |
| `QueueProofs` | the helpers' lemmas and `Typing`; the lock, hand-over and index invariants, `LossStopsQueue`, `GateCovers`; ownership, batch, GPU and staging invariants, `Invariance`, `StagingSafety`, `Ownership`; the order of the timeline and what may not get lost, `Bookkeeping`, `TimelineInOrder`, `WritesAreKept`, `SubmittedOnce`, `DropWaits` |
| `Futures` | the abstract promise of a future: none, pending, ready, then delivered or cancelled once |
| `Callbacks` | registry, callback map, gates, references, nested calls; refines `Futures` |
| `MCCallbacks` + `MCCallbacksReenter.cfg`, `MCCallbacksLive.cfg` | its instances |
| `CallbacksProofs` | what each step does to the stacks of calls, to the places of an id and to the registry: `CallbackInvariance`, `CalledOnce`, `NoneLeft`, `GatesHold`, `Observable`, `EndOfUseIsFinal`; for one thread the order of the callbacks, `NoneOvertaken`; and the refinement `PromisesKept` |
| `MapGate` | one buffer, its map requests, and the submissions that use it |
| `MCMapGate` + `MCMapGate.cfg`, `MCMapGateLive.cfg` | its instances |
| `MapGateProofs` | `MapInvariance`, `StatesAgree`, `MappedBufferIsIdle`, `CallbackIsHonest`, `OthersLeaveItPending`, `MappingIsBacked`, `MappingIsUpToDate` |
| `Device` | loss and its future, error scopes, the uncaptured-error callback, with callbacks that call back |
| `MCDevice` + `MCDevice.cfg` | its instance |
| `DeviceProofs` | what each step does to the stacks of calls; `Types`, `LossIsSettled`, `CallbackSilenced`; the reference for error scopes as operators of a history and what one more event does to them, `ScopesReport` |
| `HalTimeline` | what a HAL queue promises: indices issued, finished, reported, waited for |
| `VulkanQueue` | the Vulkan queue and surface; refines `HalTimeline` |
| `MCVulkanQueue` + `MCVulkan.cfg`, `MCSurfaceFlush.cfg` | its instances |
| `VulkanQueueInvariants` | the inductive invariants `IInv` and `SafeInv` of the Vulkan queue, and the kinds of steps their proofs tell apart |
| `VulkanQueueProofs` | what a step on the surface leaves alone (`SurfaceMove`); the types, and where a fence may be and what its state says (`LifeStep`); pins, indices and calls: `FenceInvariance`, `FenceSafety`, `TimelineImplemented`; owners of fences and pools, layouts, frames in flight and semaphores: `LayoutsChained`, `ResourcesRetained`, `NothingLeaked`, `PresentsReturn`, `SemaphoresInTurn` |
| `VulkanSync` | Vulkan's own rules: what a barrier or a subpass dependency orders and makes visible |
| `VulkanBarriers` | the barriers, layouts and dependencies the Vulkan backend records, judged by `VulkanSync` |
| `MCVulkanBarriers` + `MCVulkanBarriers.cfg`, `MCVulkanIndependent.cfg` | its instances |
| `VulkanBarriersProofs` | what each operator of `VulkanSync` and `VulkanBarriers` does to past accesses, layouts and races; transitions of many subresources, shaders, subpasses, render passes, streams; `InvHolds`, `LayoutsAlwaysHold`, `HostAlwaysSees`, `BuffersNeverRace`, `NeverRaces` |
| `Encoder` | encoders, passes, bundles and command buffers |
| `TextureInit` | marks, clears, copies and what texture memory holds |
| `Commands` | composes the two with queue writes and submission |
| `MCCommands` + `MCCommands.cfg`, `MCTextureSlices.cfg` | its instances |
| `CommandsProofs` | `Recording`, `Validity`, `Aliveness`; the folds of the lowering, `LazyInvariance`, `ReadsAreDefined`, `DataIsKept` |
| `Folding` | what `FoldLeft` of any operator does: its intermediate results, what it preserves, over two sequences one after the other |

Definitions whose name has a suffix after an underscore and whose comment starts
with *Mutant* are plausible bugs of the definition that follows them. They are not
used by `Next`; replacing the definition by its mutant must violate the property
`PROJECT.json` pairs it with.

### 2.1 Queue

A thread's call is a sequence of critical sections; `pc[t]` is the next one and
`kind[t]` the call. Everything except the pollers holds `submission` from `Enter`
to `Leave`. `batch_lock` is held across steps only by the lowering walk of
`submit` (`LowerTake` to `LowerDone`/`LowerAbort`); other uses of `pending_writes`
are single actions, enabled when it is free.

| Call | Actions |
|---|---|
| `write_buffer`, `write_texture` | `Enter`, `PollHal`, `Recycle`, `StageWrite` or `StageWriteFails`, `CheckThreshold`, and the flush |
| flush | `Enter`, `Take`, `HalSubmit` or `HalSubmitFails`, `RecordSubmission`, `RetireChunks` |
| `submit` | `Enter`, `Validate`, `PollHal`, `Recycle`, `LowerTake`, `LowerWrite`*, `LowerDone` or `LowerError` `LowerAbort`, then as a flush; `RetireUnread` if nothing was queued |
| `wait_idle` | flush, `Snapshot`, `WaitBegin`, `Wait` or `WaitFails`, `Recycle` |
| `submission_complete`, `wait_for_submission` | `PollHal`/`Wait`, `Recycle` |
| `mark_lost`, drop | `MarkLost`; `Drop`, `DropWait` |

A copy is a record of its number, staging buffer, offset and size; a chunk records
its cursor; `content` says which copy last wrote each unit of a staging buffer, so
that an overlap or an early reuse is visible as a wrong number. Sizes are in units
of the smallest write. What is abstracted: the destination of a copy, the commands
a command buffer lowers to other than staged writes, the reasons for a validation
error and texture initialization (`Commands` has those).

The HAL is the contract of `SubmissionIndex`: indices in submission order,
completed in order (`GpuComplete`). `HalSubmitFails` covers both a refusal and the
Vulkan path that reports an error after `vkQueueSubmit` accepted the work.

### 2.2 Callbacks

`callback[id]` is the `PendingCallback` wherever it is by now; `futures`,
`complete` are the registry, `pending`, `gated` the map and the gates still set,
`use_refs` is `in_use_refs`. A thread has a stack of calls, because callbacks run
without locks and may call back. A frame is at one of the critical sections
`register`, `insert`, `poll`, `complete`, `finish`, `take_ready`, `take_waited`,
`take`, `fire`, or in a callback. The three paths that deliver (`Finish`,
`TakeReady`+`Take`, `TakeWaited`+`Take`) and the one that cancels (`CancelTake`)
take the two locks in the order and number of the code.

A poll is one action, since it holds the map's lock, but its HAL queries are not
made at one instant: `seen` gives each entry the completed index of its own query,
growing along the walk, `alive` the entries visited before the device is lost and
`erred` those whose query fails.

The kinds of callbacks are `ready` (complete at registration), `request` (a ready
one that hands over an adapter or device), `map` and `work_done` (which wait for a
submission) and `refused` (a MapAsync that fails validation, complete when it
registers). One device with one queue is modelled.

`BeginLose`, `Lose` and `Abort` are the loss of the device up to the callbacks it
ends; `schedule_device_lost` and `observe_device_loss` share them. What is in the map
gets its last outcome there (`Ended`), or from a poll that meets the loss, even
if its gate has passed: a map is aborted, an OnSubmittedWorkDone succeeds, which
Block 113 C9 asks for. `Fire` asks once more whether a map's device is lost (`Shown`).
So after a loss the success of an OnSubmittedWorkDone says nothing about the GPU,
and `GateHonored` says so: a callback that succeeds has completed work behind it,
except an OnSubmittedWorkDone whose device is lost.

The application is assumed to release only references it owns and to keep a handle
alive while another thread is in a call on it; a callback may release the last
reference from inside `ProcessEvents`, as `try_add_use_ref`'s comment provides for.
Device-lost callbacks are in `Device`.

`Futures` is the promise: a future is resolved, then settled exactly once, by
delivery or, only after the end of use, by cancellation; after the end of use
everything is settled. `ImplementsFutures` is the refinement of its safety part,
`KeepsFutures` of the whole.

### 2.3 MapGate

`MapGate` composes the three parts that together keep the GPU away from a mapped
buffer: the map state machine of `BufferInner`, `wgpuBufferMapAsync` with its
callback, and the queue's validation, flush and gate. `map_state`, `pending_map`,
`next_map_serial`, `active_map` and `mapped_ranges` are the fields of
`BufferState`; a thread's call is a sequence of critical sections as in `Queue`.

| Call | Actions |
|---|---|
| `mapAsync` | `BeginMapAsync`, `BeginMap`, then the flush: `Enter`, `HalSubmit`, `Record`; `Abort` if it failed; `Gate` reads the latest index; `Register` |
| the map callback | `Poll` (gate passed, poll failed, device lost, end of use), `Take`, `Fire`, `ResolveTest`, `ResolveMap` |
| `unmap`, `destroy`, drop of the handle | `Unmap` (write-back included) and `FreeHost`; `Destroy`; `Release` |
| `getMappedRange`, a store through it | `MappedRange`, `WriteMapped` |
| `write_buffer` | `BeginWrite`, `Enter`, `Stage`, and the flush at the threshold |
| `submit`, `wait_idle` | `BeginQueueCall`, `Enter` (validation), `Lower`, `HalSubmit`, `Record` |
| `Device::lose`, the HAL | `Lose`; `Complete` |

The bytes of the buffer are the number of the write they come from: `mem` in GPU
memory, `host` in the `HostBuffer`, `newest` the last accepted write. What is
abstracted, since `Queue` or `Callbacks` has it in detail: the batch is the last
write pending for this buffer, a callback in the map is a request that any idle
thread may take once it is ready. What is not modelled: the checks of offsets,
sizes and descriptors; requests rejected at once (they touch no state); the
allocation at creation; the HAL's own mapping call when a buffer has a direct
pointer. `map_state()` and `is_destroyed()` of one validation are read at once, and
so are the test of `lost` and the validation in `Enter`. The wait in `Device::lose`
that precedes `mark_lost` is a `flush` call followed by `Complete`. A poll walks the map without waiting for other locks, and each of
its entries is one step. Cancellation at the end of use is one step per callback, which allows more orders than the code.

`usage` and `direct` are chosen at creation, so that a run covers read and write
maps, with host copies and with direct pointers. `Events` names what may happen
besides maps, writes and submits, so that each run pays for the events its question
is about.

### 2.4 Device

A thread has a stack of calls, as in `Callbacks`, because both callbacks of a device
run without locks and may call back. The locks that are held across steps are
variables: `lost_lock` (held over `mark_lost`), `submission`, `future_lock` (held
while `GetLostFuture` asks whether the device is lost). The error sink's lock never
is, so its uses are single actions.

| Call | Actions |
|---|---|
| `wgpuDevicePushErrorScope`, `PopErrorScope` | `PushErrorScope`; `PopErrorScope` (a lost device answers without popping), `PopScope` |
| any call that fails | `DispatchError` (lost devices say nothing), `RouteError`, `EnterErrorCallback`, the callback, `LeaveErrorCallback`, `ErrorDone` |
| `wgpuDeviceDestroy`, last `Release` | `WaitIdle` (whose error is dispatched), `TakeLost`, `MarkLost`, `ReadFuture`, `CompleteDeviceLost`, `FireLost` and the callback, `ClearErrorCallback`, `ClearWaited` |
| `wgpuQueueSubmit` | `SubmitTest`, `TakeSubmission`, `SubmitDone`, `ObserveLoss` |
| `wgpuInstanceProcessEvents` | `ProcessEvents`, `FireWaited` |
| `wgpuDeviceGetLostFuture`, `AddRef` | `GetLostFuture`, `GotLostFuture`; `AddRef` |

A scope belongs to the thread that pushed it. `log` is the history of what each
thread pushed, raised and popped, from which `ScopesTrue` computes anew which scope
an error belongs to. The application keeps a reference while it calls, or is inside a
callback: a callback is handed a device that lives as long as it runs (`HasDevice`), and
may destroy it with no reference left. Without one a device-lost callback is shown a
null device (`null_cb`) and makes no call that needs one. Callbacks make all the calls that
the application makes outside of them, `wgpuInstanceProcessEvents` included.

### 2.5 VulkanQueue and HalTimeline

`VulkanQueue` has one action per critical section of `queue_access`, `retire`,
`submissions`, `recycler` and the surface's pending state. `queue_access` and
`retire` are held over several steps and are variables.

| Call | Actions |
|---|---|
| `submit_copies`, `submit_empty` | `Record` (pool, recording from the committed layouts) or `RecordFails`; `Submit` (fence, index, semaphores, commit) or `SubmitFails`, `Cleanup`; `LockRetire`, `HarvestFrame`..., `HarvestEnds` or `HarvestFails`, `EvictFrame` or `EvictFails`, `SubmitReturns` |
| harvesting one frame (`cleanup_frame`) | `PopFrame`, `Track`, `RecycleOld`, `Resume` |
| `wait_for_submission` | `BeginWait`, `WaitTest` (pins the fence), `Wait` or `WaitFails`, `Unpin`, `RecycleWaited`; `TryHarvest` |
| `completed_submission_index`, `wait_idle` | `Poll`, `PollFails`; `BeginWaitIdle`, `WaitIdle`, `WaitIdleFails` |
| `wgpuSurfaceGetCurrentTexture` | `GetCurrentTexture`, `AcquireImage` or `AcquireFails`, `PublishAcquire` |
| `wgpuSurfacePresent` | `Present` or `PresentFlushFails`; `TakePending`, `Transition` or `TransitionFails`, `Recover`; `Ring`, `QueuePresent` |
| `wgpuSurfaceConfigure` | `Configure`, `TeardownIdle`, `DestroySync`, `ResetPending` |
| drop of the queue; the GPU | `Drop`; `GpuFinish` |

`gpu` is the work in submission order with the fence, pool, semaphores and image
layouts each piece uses, and `done` how much has finished: the rules of Vulkan
(a fence is reset only when nobody waits for it and no submission signals it, a
binary semaphore alternates, an image is in the layout a barrier starts from) are
what the invariants state, they are not assumed by the actions. What is abstracted:
the copies and their encoding, one image stands for those whose layouts are
tracked, one swapchain. What is not modelled: the overflow of the retirement ring,
a failing recovery submission, the blit path, swapchain creation, a failed
`vkWaitForFences` on a frame's fence.

`HalTimeline` is the contract between the core and any HAL: indices are issued in
order, an index is reported complete only when all accepted work up to it has
finished, reports never go back, a wait succeeds only for finished work. It is what
`Queue` takes for granted of `gpu`, `done` and `completed`; `ImplementsTimeline`
shows that the Vulkan tracker keeps it, failed waits and out-of-order retirement
included.

### 2.6 Encoder, TextureInit and Commands

`Encoder` is one command encoder at a time (`enc`), the passes it begins (`passes`),
one bundle encoder at a time (`bundler`) and the command buffer of the last `finish`
(`cb`). Encoders are not promised to be safe for threads, so a call is one step.
A call on a pass or encoder that is not allowed puts the encoder in error, as in
`record_first_error`. A pass keeps what is bound, the flags of the memoized
validation (`pipeline_bind_group_compatibility_dirty`, the one for aliasing), its
usage scope and, of the recorded stream, what its replay binds (`replay`), what it
drew (`drawn`) and touched (`touched`). A bind group is a set of bindings, each with
a resource, an access, an offset and whether it takes the dynamic offset.

`TextureInit` has the marks (`marked`), the copies the queue holds (`pending`), and
beside them what memory really holds, part by part: `garbage`, `zero` or `data`.
The parts of a subresource are the halves that a copy may cover, or the depth
slices of a 3D mip level, which share one mark. `CleanRead`, `CleanWrite`, `LoadOf`
and `LowerTargets` are the planning functions of `queue.rs`; `Run` plays the copies.

`Commands` composes them: `WriteTexture`, `Flush`, `FlushFails`, and a submission,
which is refused (`SubmitRefused`), fails while it is lowered (`SubmitLowerFails`) or
at the HAL (`SubmitHalFails`), or runs (`SubmitRuns`). A submission is one step, from
validation to commit, because the queue serializes submissions (`Queue`).

Not modelled: query sets, timestamps and occlusion, immediates, index buffers,
viewport, scissor and vertex limits, required buffer sizes, tiled subpasses, copies
between two buffers or two textures, debug groups of bundles, the command that
validates an indirect dispatch, resolve targets, depth and stencil as separate
aspects.

### 2.7 VulkanSync and VulkanBarriers

A submission is recorded command by command (`Record`), under `queue_access`, so that
recordings never interleave; it is then submitted (`Submit`, which commits the
`LayoutOverlay`) or dropped (`Fail`). `recorded` is the device after what has been
recorded so far and `committed` the device after what was submitted: of every
buffer and subresource the accesses that something may still have to wait for
(`past`), of every subresource the layout it is in (`layout`) and the one yawgpu
tracks (`states`).

An operator per `encode_*` function makes the command's barriers, transitions and
accesses in the code's order (`Encode` is the loop over the copies, `Record` adds the
barrier that `command_writes_buffer` asks for). `Walk` follows a render stream for
two purposes, as the code does twice: what a draw really binds, and which writes
`render_stream_needs_shader_write_barrier` sees. `AroundPass` has the transitions
before a pass, the pass, the barrier for what its shaders wrote and the layouts it
leaves; `RunRenderPass` plays the render pass object subpass by subpass, with the
layout of every attachment reference and the dependencies of `RenderPassDependencies`
or `SubpassDependencies`.

`VulkanSync` is external. Of every access it keeps the stages that wait for it
(`after`), those that wait until it is available (`avail`) and the accesses that see it
(`visible`); a barrier extends them for what is in its first scope, directly or by a
chain. Inside a render pass, an access is seen along the dependencies between the
subpasses (`Seen`). A write needs what came before it to be in its past, a read needs
to see the last write (`Races`); a layout transition is a write of its own between the
two scopes of its barrier. The accesses themselves are what shaders, copies and
attachments may do: a draw is taken to access what it binds in both shader stages.

Not modelled: timestamps and query pools, swapchain images (acquire and present have
semaphores of their own, `VulkanQueue`), a read-only depth attachment that is
sampled in the same pass (Block 105 lists it as a limitation), depth as an input
attachment, reads of the own attachment inside a subpass, descriptors, framebuffers
and everything about the extent of copies. Units are single subresources, so that
the coalescing of runs in `layout.rs` is the set of them.

## 3. Runs

| Run | Instance | Shows |
|---|---|---|
| `queue` | 2 threads, 2 staging buffers, 3 writes, 3 calls | order of the timeline, no lost write, single execution, index coverage, drop, loss, intact staging |
| `callbacks_reenter` | 1 thread, 3 futures, calls nested once, 1 reference besides those of requests | delivery order, observable futures, no resurrection, refinement of `Futures` |
| `callbacks_live` | 2 threads, 2 futures, 1 submission, 2 references, fair | once, not early, never stranded; eventual settlement, fair refinement |
| `map_gate` | 2 threads, 2 maps, 1 write, 3 submissions, HAL errors | a mapped buffer is not used by the GPU; a mapping shows the last write and GPU memory gets it back; true outcomes and no abort by a stale request when flushes fail |
| `map_live` | 2 threads, 1 map, fair; destroy, release, loss, end of use, failing polls and flushes, error buffers | storage behind pointers, a pending map ends |
| `device` | 2 threads, 4 calls, calls nested twice, scopes of two kinds | the silenced error callback, one settled loss, true scopes, no deadlock but the one of section 5 |
| `vulkan` | 2 threads, 3 fences and pools, 4 calls and acquires, one error anywhere | fences, resources, leaks, layouts, semaphores, present failures, refinement of `HalTimeline` |
| `surface_flush` | 2 images, a failing flush in present | finding of section 5 |
| `commands` | 1 buffer, 2 textures, 2 encoders, 1 bundle, 1 queue write, failing submissions | valid draws, live resources, no undefined read, no lost data |
| `texture_slices` | one 3D mip with two slices attached | finding of section 5 |
| `barriers` | 2 buffers, an image of 2 mip levels, a transient and a depth attachment; 20 commands, any 3 of them, submitted or dropped in between | no race, true layouts in commands and in the tracker, what the host sees |
| `late_attachments` | the same and a subpass pass whose second subpass is the first to use depth | finding of section 5 |

### 3.1 Bounds

The queue's hazards need a chunk that is filled, retired, recycled and filled again
while an older submission runs: writes of one and two units with alignment 2 in a
chunk of 3 fill it, overlap if the cursor is wrong and find it full, one of 4 units
takes the path of large writes, and with three calls and two buffers a recycled
chunk is used again. A race needs two threads; a third adds no new pair of critical
sections that is not already between two.

For callbacks, order needs two gated futures, and with callbacks that call back a third,
which one of them registers; beyond two, `Reentrant` of `MCCallbacks` leaves only gated
callbacks of one kind and mode on a device that is not lost (`FewModes`). The release
race and a loss against a poll, a registration or a delivery need one future and two
threads; re-entrancy appears at depth 2. Ids and gates that are inverted, and a gate
that blocks a later one, need two futures: in `callbacks_live` the second waits for the
same queue, and the GPU may complete the one submission before, between or after the
registrations and the queries (`FewGates`; with two futures that run leaves out the loss
and WaitAny, which `callbacks_reenter` has). Threads are alike, so `First` names the one that
registers first. A stale map request needs a second map
of the same buffer while the first one's callback is still under way, hence two
maps and two threads; a submit that races with the map's flush needs one write and
one command besides the flush itself, hence three submissions.

In `device`, a destroy, a release, a call that raises an error and one that observes
the loss are four calls; a callback that destroys needs depth 2, and an error inside
the wait of that destroy depth 3. In `vulkan`, a fence is retired, recycled and
given away again within three submissions; `MAX_IN_FLIGHT_SUBMISSIONS`,
`MAX_RECYCLED_SUBMIT_OBJECTS` and `RETIRE_RING_SIZE` are 1, so that eviction, the cap
and the ring's turn happen; one error is enough, since each is followed by its own
clean-up. One swapchain image makes every acquire come round to the same frame;
two tell images and frames apart in `surface_flush`.

In `commands`, memoization needs two draws with a changed binding between them, a
bundle one draw behind another state; two units tell a sampled texture from an
attached one. `MaxWrites`, `MaxOps`, `MaxMaps`, `MaxFutures`, `MaxSubmits`, `MaxRefs`,
`MaxDepth`, `MaxCalls`, `MaxScopes`, `MaxAcquires`, `MaxTotal`, `MaxFaults`,
`MaxEncoders`, `MaxPasses`, `MaxBundles`, `MaxRecorded`, `MaxDestroyed`, `MaxShort`,
`MaxCommands` bound calls, not the code's own limits.

In `barriers`, two commands conflict and a third may come between them, whose barriers
must not be needed and must not hide what is missing; longer chains repeat these,
since a write supersedes what came before it. The 20 commands have every kind of
`HalCopy` and, of buffers and images, every use that has a mask of its own.

`MCSpec` of `MCCommands` leaves out interleavings that cannot matter and recordings
that are too long to combine:

* `RecordingFirst`: recording neither reads nor writes what the queue and the
  application change meanwhile, so queue writes, destroys and submissions happen
  only between two recordings; bundles come first; queue writes come before
  destroys; an encoder in error has only `finish` left.
* `LongInPass`: recordings of more than `MaxShort` calls are one pass of the first
  encoder. Long sequences matter to the memoized validation, which is per pass.
* `FewBundles`: behaviours with a bundle neither copy nor queue writes.

`CommandsProofs` does not need these reductions: what it proves holds of `Spec`.

Symmetry of threads and buffers is used in `queue`, `map_gate` and `vulkan` only,
which check no liveness. Nothing orders those values.

### 3.2 Fairness and deadlock

In `Callbacks`, threads inside a call go on and callbacks return (strong, because
nested calls interrupt them), the GPU completes, and the application calls `ProcessEvents` again and again: that is the
contract of `AllowProcessEvents`. No fairness is put on starting any other call. In
`MapGate`, the GPU completes, the application polls (weak, and only the polls the HAL
answers: a poll it fails is never relied on), calls go on (strong, for the wait at
`submission`) and delivery is strong, because a thread that delivers must be idle
and the other calls of the application may keep each thread busy now and then.

Deadlock is checked everywhere except in `commands`, `texture_slices` and the two
runs of `VulkanBarriers`, where an application that has used up its bounds has nothing
left to call. Elsewhere the only
final states are the explicit stutter steps `Finished`, `Quiet` and `Ended`: in
`queue`, no call waits for ever for a lock that its own thread or another one keeps,
the flush inside `write_buffer` included. That calls of `Device` cannot block each
other is the property `NoDeadlock`, since the application could otherwise always make
another call. It excepts one case, `Crossed`: two threads that clear the error callback
from inside it do wait for each other for ever (section 5).

## 4. Proofs

Proved for every value of the constants that satisfies `QueueAssumption` (sizes
are natural numbers, a chunk and a write are not empty, buffers are finitely many,
`NoThread` and `NoBuffer` are not threads or buffers):

| Theorem | States |
|---|---|
| `Typing` | `Spec => []TypeOK` |
| `GateCovers` | `Spec => []LatestCovers` |
| `LossStopsQueue` | `Spec => NothingAfterLoss` |
| `Invariance` | `Spec => []IInv` |
| `StagingSafety` | `Spec => []StagingIntact` |
| `Ownership` | `Spec => []OneOwner` |
| `Bookkeeping` | `Spec => []BookInv` |
| `TimelineInOrder` | `Spec => []QueueOrder` |
| `WritesAreKept` | `Spec => []NoWriteLost` |
| `SubmittedOnce` | `Spec => []CommandsRunOnce` |
| `DropWaits` | `Spec => []DropDrains` |

`StagingIntact` alone is not inductive. A recycled chunk is safe because its
retirement index is complete (`GpuInv`: a running submission reads nothing that is
retired with an earlier index, nothing in the pool and nothing in the batch) and
because the index a thread recycles with was proven complete when it was read
(`IndexInv`), which in `wait_idle` depends on the snapshot being taken before the
wait. A chunk being filled is safe because its copies end below its cursor
(`BatchInv`). Both need that a buffer has one owner (`OneOwner`), that the chunks
in the hands of a call are those of the thread inside `submission` (`HandInv`), and
mutual exclusion (`LockInv`). `IInv` is the conjunction. Each part has a lemma that
every action preserves it, one step per action.

The other four need `OrderInv`, with the invariants above. `QueueOrder` is about the
moment a submission with command buffers is appended. All accepted writes have a
smaller number than its `after` (`CommandInv`: whoever carries command buffers holds
`submission` since they were validated, so no write was accepted since); the batch
has been taken and the queue is not lost, so by `NoWriteLost` each of them is in the
submission or before it. A write accepted later gets a number that nothing on the
timeline has or counts (`NumberInv`). `CommandsRunOnce` follows from the marks: what
is on the timeline is marked, and what is validated was not (`MarkInv`).
`DropDrains`: without a failure all of the timeline was accepted, so `latest`, which
the drop waits for, is its end (`CoverInv`, `DrainInv`).

`NothingAfterLoss` follows from `LockInv` and a small invariant: when the queue is
lost, no call is past the test under the lock (`MarkLost` needs the lock free) and
nothing is pending. `LatestCovers` follows from the index invariant: only the
thread inside `submission` is between the HAL submit and the recording.

Proved of `MapGate`, for every value of the constants that satisfies
`MapGateAssumption` (`NoThread` is not a thread; the usages, events and ranges are
those the model knows; the bounds are natural numbers):

| Theorem | States |
|---|---|
| `MapInvariance` | `Spec => []IInv` |
| `StatesAgree` | `Spec => []StateAgrees` |
| `MappedBufferIsIdle` | `Spec => []MappedIsIdle` |
| `CallbackIsHonest` | `Spec => []OutcomeTrue` |
| `OthersLeaveItPending` | `Spec => []OnlyOwnAbort` |
| `MappingIsBacked` | `Spec => []Backed` |
| `MappingIsUpToDate` | `Spec => []UpToDate` |

`MappedIsIdle` speaks of the moment a buffer is mapped; what makes it true happened
earlier, in the flush of `mapAsync`. `GateInv` carries it along: while the map is
pending, validation refuses new uses, so once the flush has left the lock nothing on
the way to the GPU uses the buffer (`Quiet`) and every submission that does is at
most the latest index (`UsesUpTo`). That index becomes the call's, the request's
gate, and, when the gate has passed, the number of completed submissions, which is
what `ResolveMap` starts from. It needs that `latest` covers every submission but
the one being recorded (`LockInv`), that no older call or request has the serial of
the pending map (`SerialInv`: serials given out are never given out again), and that
a callback has one thread that fires it (`FireInv`). The exception `misreported` is
a HAL that reports an error for work it did accept: its index is not recorded and no
gate can cover it.

The other four rest on two more invariants that hold along with `IInv`. `MapInv`
keeps the books of the requests. A serial belongs to one call and then to one request
(`CarryInv`, `OwnerInv`), is never above the last one given out (`PastInv`), and is
granted just when its request has reported success; a request that failed or gave up
its buffer is not the pending one any more (`GrantInv`). So `ResolveMap`, which finds
its serial pending under the lock, settles its own map, and `Abort` can end no other.
`HostInv` says which buffers keep host storage: what `FreeHost` frees, after `Unmap`
has released the lock, cannot be mapped again. The proof sorts the thirty actions by
what they do to the slots (`SlotStep`): nothing, start, end, settle or report a map.

`DataInv` says where the newest write is. While the buffer is not mapped, it is the
pending write of the batch, or in the submission under way, or the last write left on
the GPU timeline, or in memory with none left (`ChainInv`). `ShownInv` follows it
through a map: when the gate passes, nothing that uses the buffer is left on the
timeline (`GateInv`), so memory holds the newest write already while the map is still
pending, and `ResolveMap` copies that to the host. `WriterInv` is needed for buffers
the queue does not write, whose host copy is the newest. The hypothesis of `UpToDate`
excludes errors of the HAL, after which a write may be gone.

Proved of `Commands`, for any resources, bind groups, pipelines, attachment lists,
bounds and failures that satisfy the assumptions `ConstantsOK`, `BoundsOK`,
`UnitsTracked`, `UnitsFinite` and `TrackedOK`, and of the whole `Spec`, without the reductions of
section 3.1:

| Theorem | States |
|---|---|
| `Recording` | `Spec => []CommandsInv` |
| `Validity` | `Spec => []DrawsValid` |
| `Aliveness` | `Spec => AcceptedAlive` |
| `LazyInvariance` | `AttachmentsWhole` implies `Spec => []LazyInv` |
| `ReadsAreDefined` | `AttachmentsWhole` implies `Spec => []ReadsDefined` |
| `DataIsKept` | `AttachmentsWhole` implies `Spec => []DataKept` |

`DrawsValid` says that each recorded draw was valid; validation is skipped when the
flags are clean, so what must be invariant is what a clean flag remembers
(`Remembers`): the groups that are bound still fit the pipeline, the writable
bindings still do not alias at the offsets in force, and the replay of the recorded
stream binds what the pass thinks is bound. A pass that executes a bundle clears all
of it. `AcceptedAlive` needs that whatever was drawn, copied or attached has gone
into the references or is found again in the operations (`RefsInv`), along separate
paths for groups, vertex and indirect buffers, copies, attachments and bundles;
an ended pass keeps nothing, its operation having taken over its references.
`CommandsInv` is `TypesInv`, `PassesInv` and `RefsInv`; each kind of call has a lemma
that it preserves them.

`ReadsDefined` and `DataKept` speak of what has happened on the GPU, while marks run
ahead of it: `write_texture` marks when it queues its copy. So `LazyInv` compares the
marks with the memory as it will be after the copies that wait (`After(Current,
pending)`): what is marked holds no garbage there, unless its queued writes were
dropped; what is not marked holds no data; and that run has spoiled no read and wiped
no data (`Agrees`). A submission appends to these copies, one command after the
other, so each planning function is shown to keep the lowering state `Good`, that
is, to keep its overlay in agreement with the memory after its copies: `CleanRead`,
`CleanWrite`, `Sampled`, `LowerTargets`, `Lowered`. Dropping the queued writes takes
the memory back to before them, which only touches what is then in `dropped`
(`QueuedRuns`). The hypothesis `AttachmentsWhole` says that the attachments of a pass
cover their subresources and name different ones. The second half is what
`set_attachment_texture_uses` enforces (two attachment writes never agree in a usage
scope); the first half leaves out single depth slices of a 3D mip level, for which
neither property holds (section 5). The attachment lists of the run `commands`
satisfy it.

The lowering and the GPU are folds over sequences (`FoldLeft`), and what a fold
computes for a sequence of any length is a matter of induction. The induction
theorems of the library take an operator and cannot be cited here; `Folding` does
without: a set that has 0 and with each number the next has all of them, because a
well-founded relation has minimal elements (`NatLessThanWellFounded`, `WFMin`), and
the operator folded is the constant `Op` of the module, which `CommandsProofs`
instantiates once for each fold (`INSTANCE Folding WITH Op <- ...`).

Proved of `VulkanQueue`, for every value of the constants that satisfies
`VulkanAssumption` (threads are finitely many, swapchain images are numbered from 0,
`None` is no fence, pool or image; `MAX_IN_FLIGHT_SUBMISSIONS` and `RETIRE_RING_SIZE`
are positive; the bounds are natural numbers), and for any choice of errors:

| Theorem | States |
|---|---|
| `FenceInvariance` | `Spec => []IInv` |
| `FenceSafety` | `Spec => []FencesIntact` |
| `TimelineImplemented` | `Spec => ImplementsTimeline` |
| `LayoutsChained` | `Spec => []LayoutsChain` |
| `ResourcesRetained` | `Spec => []ResourcesHeld` |
| `NothingLeaked` | `Spec => []NothingLeaks` |
| `PresentsReturn` | `Spec => []PresentedReturns` |
| `SemaphoresInTurn` | `~SubmitsDuringConfigure` implies `Spec => []SemaphoresAlternate` |

A fence is named in many places at once: a retirement frame, a frame in the hands
of its submit or of a harvest, the tracker's map, a waiter's locals. `UsesInv` says
that all who name a fence with an index mean the last submission that was given it,
and that its state says whether that one has finished; so no one is ever misled by
a fence that has been reset. Why it holds is what the rest of `IInv` says: a
submission's resources are in one place (`FrameInv`), a free fence is named by
nobody (`FreeInv`), `pinned` counts the threads that look at a fence and the last of
them recycles it (`PinInv`), and what is not reported has its fence in the map
(`TrackInv`). `FencesIntact` follows, and so does the refinement: `IndexInv` says
that indices grow along the timeline and that what is reported has finished,
`CallInv` what a call may answer with. Under the mapping (what is issued, over,
reported, answered and awaited, read off `gpu`, `done`, the tracker and the calls'
labels) each action is a step of `HalTimeline` or changes none of these.

`SafeInv` adds what the other properties need. Pools and fences have one owner
(`PoolInv`, `HomeInv`), so dropping the queue, which empties recycler and frames
when no call is open, leaves none. Each frame is that of a submission and every
running submission has a frame (`WorkInv`, `FrameInv`), so what it uses is retained.
Layouts are read and committed by the holder of `queue_access` (`ChainInv`). For the
surface: its calls exclude each other (`LockInv`), and the fence of a frame is
signaled, claimed by an acquire, owed by a submission, or skipped by a present that
did not reach the HAL (`SyncInv`); `PresentedReturns` is what remains when the last
is excepted. Where a frame is in that cycle determines the values of its three
semaphores (`SemInv`).

`SemaphoresAlternate` also speaks of submissions that still run, which needs that
the semaphores are not destroyed under them (`WaitInv`): between the wait and
the destruction in `unconfigure` no submission may come. The code does not ensure
that (section 5), so the theorem has the hypothesis that no thread submits while
another configures, under which the run checks the property too.

Proved of `Device`, for every value of the constants that satisfies
`DeviceAssumption`, so for any number of threads, kinds of errors, calls inside
callbacks and open scopes:

| Theorem | States |
|---|---|
| `Types` | `Spec => []TypeOK` |
| `LossIsSettled` | `Spec => []LossSettled` |
| `CallbackSilenced` | `Spec => []ErrorCallbackSilenced` |
| `ScopesReport` | `Spec => []ScopesTrue` |

A step changes the top of one thread's stack, so what must be invariant is what an
open call, wherever it is in a stack, implies of the device (`FrameInv`): one that
completes the future has seen the loss, one that fires has found the future complete
and taken the entry, one that waits for callbacks has taken the callback out of the
sink. The loss, the completion and the removal are never undone (`Onward`), so the
calls below keep what they imply. `FireInv` adds that at most one open call fires and
none once the callback was called; `CallbackInv` that `active` counts exactly the
open calls that hold a clone of the callback, and is zero for every other thread once
one has seen it so with the callback gone.

`ScopesTrue` is about the whole history of a thread, and its reference counts pushes
and pops between two of its events. `ScopeInv` relates it to what the code keeps:
there are positions in the history, one for each open scope (`Nested`), such that
since that push there were more pushes than pops, by as many as there are scopes from
it to the innermost; every other push has been closed; and the scope keeps the first
of the errors that belong to it so far. A push, a pop and an error preserve this
(`PushKnown`, `PopKnown`, `ErrorKnown`), and what was said of earlier events stays
true because a closed scope stays closed where it was (`PastSame`).

Proved of `Callbacks`, for every value of the constants that satisfies
`CallbacksAssumption` (threads are finitely many, so that the borrowed references can
be counted; modes and kinds are those the code knows; the bounds are natural numbers):

| Theorem | States |
|---|---|
| `CallbackInvariance` | `Spec => []IInv` |
| `CalledOnce` | `Spec => []DeliveredOnce` |
| `NoneLeft` | `Spec => []NothingStranded` |
| `GatesHold` | `Spec => []GateHonored` |
| `Observable` | `Spec => []FutureObservable` |
| `EndOfUseIsFinal` | `Spec => NoResurrection` |
| `NoneOvertaken` | `OneThread`: `Spec => CallbackOrder` |
| `PromisesKept` | `Spec => ImplementsFutures` |

None of these speaks of the calls under way, and each depends on them. `CarryInv`
says where an id is: in the map, in the hands of one open call (`Carries`), or in the
history, never in two of these; whoever takes the map's lock first moves it.
`FrameInv` says what an open call, wherever it is in a stack, knows of its ids
(`Sound`): those it delivers have left the registry and their gates were passed, those
it cancels belong to an instance that is not in use. What it says stays true under
other threads' steps because a passed gate, a departure from the registry, a
completion and the end of use are never undone (`Onward`). `PendingInv` is the reason
why nothing is stranded: an id in the map has its gate, or is complete, or some call
is about to complete it, take it or finish its registration; and if the instance is
not in use, some call is about to take the whole map. `RegisterInv` keeps two calls
from registering the same future, and a registration from losing its future to a
call that completes or takes it before it is in the map.

`NoneOvertaken` is about the order, which only one thread keeps (section 5), so its
hypothesis is that no two threads make calls; callbacks nest calls to any depth. Then
a call that runs is on top of calls that wait for a callback to return (`NestInv`). A
closed gate keeps the later ones closed (`GateInv`): a poll that passes one has passed
all before it, and a loss opens all. So ProcessEvents and a registration that collect
a callback collect everything before it that is still in the map (`InOrder`). They
call what they collected in the order of the ids (`IsNext`): when a callback is called,
what comes before it is neither in the map nor in the hands of the call that calls it, and
no other call is open but those below it in the stack (`DeliversNext`).

The refinement goes by what a step does (`Outcome`): nothing to the promises, the end
of use, or one future starts, is resolved, or is settled. Each is a step of `Futures`,
or, for an id above `MaxFutures`, none.

Proved of `VulkanBarriers`, for every value of the constants that satisfies
`BarriersAssumption` and `CommandsAssumption`: any buffers, images and subresources, and
any set of commands of any length, in the sense of `HalCopy`, that core lets through.
`CommandsAssumption` spells out what that means: a buffer is bound where the pipeline
has a buffer (`BindGroupsMatch`, from the validation of bind groups against the
pipeline's layouts); what is attached is not bound (`AttachmentsMatch`, from usage
scopes; the read-only depth attachment of section 2.7 is left out by it); a subpass
names slots that exist (`SubpassesMatch`). Core makes no usage scopes of subpass passes and
does not look at the direction of their dependencies, so for those passes the
assumption is one on the application.

| Theorem | States |
|---|---|
| `InvHolds` | `Spec => []BarriersInv` |
| `LayoutsAlwaysHold` | `Spec => []LayoutsHold` |
| `HostAlwaysSees` | `Spec => []HostSees` |
| `BuffersNeverRace` | `Apart(c)` for every command: `Spec => []BuffersOrdered`, the part of `NoRace` that is about buffers |
| `NeverRaces` | `Plain(c)` for every command: `Spec => []NoRace` |

`LayoutsHold` says nothing of buffers and `HostSees` nothing of what is still being
recorded; `BarriersInv` has both, of `recorded` and of `committed`. A device that is
`Fine` has only accesses from outside render passes; it is `Told`, that is, tracked and
real layouts agree; and it is `Settled`: what has been written to a buffer is already
visible to everything a command can do to a buffer (`BufferScope`). That is a claim
about the barriers yawgpu puts *after* its writes. The barrier before a write,
`BufferReadToWrite`, makes the device `Prepared`, and between the two a command is
`Nearly` fine: unsettled are the writes it has just made, to the buffers its last
barrier covers. The proof follows each `encode_*` function through these
three (`Keeps`), and each transition, bind group and subpass through a fold: the
theorems of `Folding` give the intermediate states, and `MovesKeep` says that any
sequence of transitions which agree on what each subresource is to be in ends there.
`SampledLayout` has to agree with the transitions of storage textures for that, which is
why a sampled view of an image that is bound for storage is in `GENERAL`. In render passes `SeenExtends` says
that accesses from before keep the order they had, and `BuffersNeverRace` needs that
no subpass uses a buffer that another subpass of its pass writes (`Apart`): the
dependencies of a pass are about attachments, and nothing orders its subpasses'
buffers. Every pass of the runs satisfies it. `LayoutsAlwaysHold` and `HostAlwaysSees`
do without.

Images need more, for a barrier before a use has to be enough: nothing comes after a
use until the next transition. `NeverRaces` adds `OrderInv` to `BarriersInv`. Of both
devices it says that `races` is empty, that the temporary buffer of a copy between
textures is not in use, and that every access to a subresource is `Held` in the layout
the subresource is in. `Held` is what makes `NoRace` inductive. In every layout the
access is `Covered`: the first scope of any transition out of that layout (`Source`,
from `stage_mask_for_layout` and `access_mask_for_layout`) awaits it, if need be by way of an earlier
dependency, and makes it available. In a layout for reading it is also `Usable`,
because reads there come without a transition. A transition turns what is `Covered`
in the old layout into what is `Usable` in the new one, and what a copy or shader does
in a layout is `Covered` there, since those masks contain what that
layout is used for (`LayoutScope`). Of a render pass, the
dependency from outside reaches what was done before it (`IncomingReaches`), the one
to the outside awaits what its draws, loads and stores do (`OutgoingAwaits`), and
`PassOrders` puts the two around the layout changes of its attachments.

`Plain` asks for three things:

* The command is no pass of several subpasses, whose dependencies come from the
  application.
* What a shader reads of its own attachments can be copied from (`FetchedCopied`).
  Without it the theorem is false: that is the disorder section 5 describes.
* No shader writes a binding that its layout declares as a sampled texture
  (`DrawsSample`). The code guarantees it: `spirv_writable_storage_bindings` finds only
  storage buffers and storage textures writable. `CommandsAssumption` does not say so,
  since no other theorem needs it.

Every command of the run `barriers` but its pass of two subpasses is plain.

The types of `Queue`, `MapGate`, `Commands`, `Device`, `Callbacks` and `VulkanQueue` are proved and not given to TLC, whose
every other invariant would fail to evaluate on an ill-typed state.

Only model-checked: `NoRace` of `VulkanBarriers` for passes of several subpasses (their
layouts, what the host sees and their buffers are proved); `NoDeadlock` of `Device`
(it uses ENABLED); and all liveness, `EventuallySettled` and the fairness part of
`KeepsFutures` included (fairness is out of the prover's reach).

## 5. Findings

Three runs end in a violation of what a comment or a block document says.

* `surface_flush`: `wgpuSurfacePresent` flushes deferred writes first, and returns
  when that fails. The texture is gone, but the HAL's `present` was not called, which
  is where a failed present would "consume the pending signal and restore the fence
  reset by acquire". The acquire that comes round to the frame waits without a
  timeout. `PresentedReturns`, which `vulkan` checks, says that this is the only way.
* `texture_slices`: the planning of a pass rests on its attachments being "distinct
  subresource aspects", but two attachments may be distinct depth slices of one mip
  level and share its mark. A pass that discards the first and stores the second
  leaves the mip marked, and a later read finds the discarded slice undefined. For
  the same reason a pass that discards one slice of a mip un-marks all of it, and
  the clear before a later read zeroes slices that still held data.
* `late_attachments`: Block 109 R9 gave passes an incoming dependency so that "a pass
  following a pass on the same attachment (color or depth, tracked layout unchanged)
  has a memory dependency", and Block 114 S4 mirrors it for subpasses. It leads to
  subpass 0 only: a depth attachment that subpass 1 is the first to use keeps its
  layout between the passes, so no transition orders them, and unless the
  application happens to declare a dependency from subpass 0 to 1 nothing does.
  An attachment whose layout changes is safe, its barrier precedes the pass.

Met while modelling, without a run of their own:

* Block 96 Q21 says a future registered after another for the same queue may not
  fire before it. Two threads in `ProcessEvents` fire what they collected after all
  locks are released, in either order; `CallbackOrder` is checked and proved for one
  thread.
* `clear_uncaptured_error_callback` waits until all other threads have left the
  callback, and excepts the calling thread because "reentrant release from the
  callback itself cannot wait for itself". Two threads that are both in the callback
  can reach it together: the device is destroyed, one of them processes the
  device-lost callback, before which the error callback is cleared, and the other
  releases the last reference. They wait for each other for ever. The run `device`
  lets callbacks make every call and reaches these states: they are `Crossed`, the only
  ones that `NoDeadlock` excepts and, besides the idle ones, the only ones where `Quiet` lets a
  behaviour stop.
* An image that is no copy source (a transient attachment, or a swapchain image
  without `CopySrc`) ends a pass in the color attachment layout, and Block 109 R7
  expects that "later transitions already start from the tracked layout, so no other
  barrier changes are expected". When the pass read the attachment it was in
  `GENERAL`, so its end makes a transition, behind a dependency whose second scope is
  `TRANSFER` only. The transition of the next pass starts from the color output
  stage, which is not in a chain from there: two transitions of one image without
  order. A tiled pass that uses the same transient input every frame does this, and
  so does framebuffer fetch on such an image. The commands of `barriers` read no
  transient attachment; with one that does, run twice, `NoRace` is violated. The theorem
  `NeverRaces` excludes exactly these passes (`FetchedCopied`).
* Block 137 R4 says a registration first fires every older spontaneous callback that
  is ready and undelivered. Callbacks that an outer call has collected but not fired
  are no longer in the map, so a registration from a callback overtakes them, and
  with it Q21 fails in one thread too: it takes three futures. `CallbackOrder`
  excepts what an outer call has collected (`CollectedOutside`) and nothing else: what the
  delivering call itself collected must be called in order.
* The comment in `poll_submission_callbacks` says a later gate holds an equal or
  newer index. The index is read before the id is allocated, so two threads can
  invert them. The consequence is only that a poll may skip a gate that has passed
  until the next poll; `GateHonored` and `EventuallySettled` hold all the same.
* `InitOverlay` says that marks made early would leave a texture believed
  initialized after a failure. `write_texture` makes its marks when it queues the
  copy, and a failed HAL submission drops the copy. `dropped` names those
  subresources, and `ReadsDefined` excepts them.
* A surface is reconfigured in three steps (wait, destroy semaphores, reset the
  pending acquire); a submission of another thread between them would wait on
  destroyed semaphores. `SubmitsDuringConfigure` allows that; both runs keep it out.
* A buffer destroyed by another thread between a submit's validation and its
  lowering is missing when the copy is built; `Commands` takes both in one step.

## 6. Plan

1. **Done**: `Queue` with proofs; `Callbacks` and `Futures` with proofs; `MapGate` with proofs;
   `Device` with proofs; `HalTimeline` and `VulkanQueue` with proofs; `VulkanSync` and
   `VulkanBarriers` with proofs; `Encoder`, `TextureInit` and `Commands` with proofs.
2. `NoRace` of passes of several subpasses, from a condition on their dependencies.
3. Copies between textures, resolve targets and separate depth and stencil marks in
   `TextureInit`; query sets and index buffers in `Encoder`.
4. An abstract specification for `MapGate`: a buffer is owned by the CPU or by the
   GPU, and `MapGate` hands it over.
5. Retirement in the Metal queue, whose completion handlers run on the platform's
   threads, as a second implementation of `HalTimeline`.

## 7. Not modelled

Validation of immutable descriptors (pipelines, bind groups, formats, limits,
samplers, query sets), the conversion of C structures and the Tint compiler are
functions of their inputs and keep no state between calls. The object caches
return an equal object or a new one; no property of the modelled parts tells the
two apart. Metal and GLES queues are bindings of platform services behind the same
interface. Of the encoding of HAL commands, the barriers of `vulkan/encode.rs` are modelled; the
rest of it, like `gles/queue.rs` and `metal/`, is a translation of data. Metal and the
GL driver order most accesses themselves; the memory barriers of `gles/queue.rs` are
not modelled. Within the modelled parts, section 2 and the notes of
`PROJECT.json` name what is left out.
