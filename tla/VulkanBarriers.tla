--------------------------- MODULE VulkanBarriers ---------------------------
(***************************************************************************)
(* The memory barriers, image layouts and render pass dependencies that    *)
(* the Vulkan backend records with the commands of a submission.           *)
(*                                                                         *)
(* `recorded` is the device as the command buffer will leave it, with the  *)
(* layouts of the LayoutOverlay; `committed` as submitted work leaves it,  *)
(* with the layouts the textures' SubresourceLayouts hold. VulkanSync says *)
(* what a recorded barrier orders; the invariants say that it orders all   *)
(* that needs it. Units are the subresources of images, one mip level of   *)
(* one array layer each.                                                   *)
(***************************************************************************)
EXTENDS VulkanSync, SequencesExt

CONSTANTS
  Buffers,     \* buffers; all are host visible
  Units,       \* subresources
  ImageOf,     \* the image of each
  CopySources, \* images created with TRANSFER_SRC usage
  Temporary,   \* a buffer that a command makes for itself
  Commands,    \* HalCopy commands, see Encode
  MaxCommands  \* bound: commands in a behaviour

ASSUME BarriersAssumption ==
  /\ Buffers \cap Units = {} /\ Temporary \notin Buffers \cup Units
  /\ DOMAIN ImageOf = Units
  /\ MaxCommands \in Nat

VARIABLES recorded, committed, calls
vars == <<recorded, committed, calls>>

Resources == Buffers \cup Units \cup {Temporary}

\* past: accesses of each resource; layout: of each subresource on the device;
\* states: the same as SubresourceLayouts has it; races, mislaid: resources that
\* were accessed without order, or in a layout other than the one named.
Empty == [past |-> [r \in Resources |-> {}], layout |-> [u \in Units |-> "undefined"],
          states |-> [u \in Units |-> "undefined"], races |-> {}, mislaid |-> {}]

-----------------------------------------------------------------------------
(* What commands do on the device                                          *)

\* A use names resource, stage, access and, of a subresource, the layout.
Buffer(b, stage, access) == [on |-> b, stage |-> stage, access |-> access, layout |-> "none"]
Image(u, stage, access, layout) ==
  [on |-> u, stage |-> stage, access |-> access, layout |-> layout]

UseIn(d, uses, deps, k) ==
  [d EXCEPT
    !.races = @ \cup {u.on : u \in {u \in uses :
                 \E p \in d.past[u.on] : Races(Seen(p, deps, k), u.stage, u.access)}},
    !.mislaid = @ \cup {u.on : u \in {u \in uses :
                 u.on \in Units /\ u.layout # d.layout[u.on]}},
    !.past = [r \in Resources |->
                LET new == {Accessed(u.stage, u.access, k) : u \in {u \in uses : u.on = r}}
                IN IF new = {} THEN @[r] ELSE Superseded(@[r], new)]]

Use(d, uses) == UseIn(d, uses, {}, External)

\* vkCmdPipelineBarrier with a barrier for the memory of `on`.
Barrier(d, b, on) ==
  [d EXCEPT !.past = [r \in Resources |-> {Barriered(p, b, r \in on) : p \in @[r]}]]

RecordMemoryBarrier(d, b) == Barrier(d, b, Resources)

-----------------------------------------------------------------------------
(* Images                                                                  *)

StageMaskForLayout ==
  [undefined |-> {"top"}, transfer_dst |-> {"transfer"}, transfer_src |-> {"transfer"},
   color |-> {"color"}, depth |-> {"early", "late"},
   general |-> {"vertex", "fragment", "compute", "transfer"},
   shader_read |-> {"vertex", "fragment", "compute"}]

AccessMaskForLayout ==
  [undefined |-> {}, transfer_dst |-> {"transfer_write"}, transfer_src |-> {"transfer_read"},
   color |-> {"color_read", "color_write"}, depth |-> {"depth_read", "depth_write"},
   general |-> {"shader_read", "shader_write", "transfer_read", "transfer_write"},
   shader_read |-> {"shader_read"}]

NeedsBarrier(old, new) == old # new \/ new \in {"transfer_dst", "general"}

\* One vkCmdPipelineBarrier with an image barrier for each run; one with equal
\* layouts orders memory, the others are writes of their own.
TransitionImageRange(d, units, new) ==
  LET runs == {u \in units : NeedsBarrier(d.states[u], new)}
      src  == UNION {StageMaskForLayout[d.states[u]] : u \in runs}
      barrier(old) == Dependency(src, AccessMaskForLayout[old],
                                 StageMaskForLayout[new], AccessMaskForLayout[new])
      order   == Dependency(src, {}, StageMaskForLayout[new], {})
      changed == {u \in runs : d.states[u] # new}
      Waits(p, b) == Awaited(p, {b}, [e \in {b} |-> p], [e \in {b} |-> TRUE])
  IN [d EXCEPT
       !.races = @ \cup {u \in changed : \E p \in d.past[u] :
                            ~Waits(p, barrier(d.states[u]))},
       !.mislaid = @ \cup {u \in runs : d.states[u] \notin {"undefined", d.layout[u]}},
       !.past = [r \in Resources |->
                  IF r \in changed THEN {Transitioned({barrier(d.states[r])}, External)}
                  ELSE IF r \in runs THEN {Barriered(p, barrier(new), TRUE) : p \in @[r]}
                  ELSE {Barriered(p, order, FALSE) : p \in @[r]}],
       !.layout = [u \in Units |-> IF u \in runs THEN new ELSE @[u]],
       !.states = [u \in Units |-> IF u \in units THEN new ELSE @[u]]]

\* LayoutOverlay::set
SetLayouts(d, layouts) ==
  FoldLeft(LAMBDA e, a : [e EXCEPT !.states[a.on] = a.final], d, layouts)

FinalLayout(u) == IF ImageOf[u] \in CopySources THEN "transfer_src" ELSE "color"

-----------------------------------------------------------------------------
(* Bind groups                                                             *)

\* A binding: its key <<group, binding>>, what it binds and as what: a buffer as
\* "uniform" or "storage", a subresource as "sampled" or "storage_texture". A view of
\* several subresources is several bindings with one key. `bound` is all that a pass
\* binds, in order; of a sequence of bindings, only the textures are transitioned.
SharesStorage(b, bound) ==
  \E i \in DOMAIN bound : bound[i].as = "storage_texture"
                        /\ ImageOf[bound[i].on] = ImageOf[b.on]

\* Mutant: whatever else of the image is bound.
SampledLayout_Alone(b, bound) == "shader_read"

SampledLayout(b, bound) == IF SharesStorage(b, bound) THEN "general" ELSE "shader_read"

\* attached: subresources of the pass's attachments, which stay as they are.
TransitionSampled(d, bound, attached) ==
  FoldLeft(LAMBDA e, b : IF b.as # "sampled" THEN e
             ELSE TransitionImageRange(e, {b.on} \ attached, SampledLayout(b, bound)),
           d, bound)

TransitionStorage(d, bound, attached) ==
  FoldLeft(LAMBDA e, b : IF b.as # "storage_texture" THEN e
             ELSE TransitionImageRange(e, {b.on} \ attached, "general"),
           d, bound)

WritableIsBound(writable, binds) == \E b \in binds : b.key \in writable

\* What a pipeline's shaders in `stages` do to what is bound. A pipeline has the
\* keys its layout declares, those of storage buffers, and those its SPIR-V
\* writes, which vertex shaders may not.
ShaderUses(pipeline, binds, bound, stages) ==
  UNION {LET layout == CASE b.as = "sampled" -> SampledLayout(b, bound)
                         [] b.as = "storage_texture" -> "general"
                         [] OTHER -> "none"
             read == IF b.as = "uniform" THEN "uniform_read" ELSE "shader_read"
         IN {Image(b.on, s, read, layout) : s \in stages}
              \cup {Image(b.on, s, "shader_write", layout) :
                      s \in IF b.key \in pipeline.writable THEN stages \ {"vertex"} ELSE {}} :
         b \in {b \in binds : b.key \in pipeline.declared}}

BufferWritable(pipeline) == pipeline.writable \cap pipeline.buffers

-----------------------------------------------------------------------------
(* Barriers of buffers                                                     *)

BufferReaders == {"compute", "vertex", "fragment", "transfer", "indirect", "vertex_input"}
BufferAccesses == {"uniform_read", "shader_read", "shader_write", "transfer_read",
                   "transfer_write", "indirect_read", "index_read", "vertex_read"}

TransferToCompute == Dependency({"transfer"}, {"transfer_write"}, BufferReaders, BufferAccesses)

BufferReadToWrite ==
  Dependency(BufferReaders, {}, {"transfer", "vertex", "fragment", "compute"},
             {"transfer_write", "shader_write"})

GpuWriteToHostRead == Dependency(AllCommands, MemoryWrite, {"host"}, {"host_read"})

QueryResolveOutgoing ==
  Dependency({"transfer"}, {"transfer_write"}, BufferReaders, BufferAccesses)

RenderPassShaderWrite ==
  Dependency({"vertex", "fragment"}, {"shader_write"}, BufferReaders, BufferAccesses)

ComputePreDispatch ==
  Dependency({"transfer", "compute"}, MemoryWrite, {"compute"} \cup BufferReaders,
             {"shader_read", "shader_write"} \cup BufferAccesses)

ComputePostDispatch ==
  Dependency({"compute"}, {"shader_write"}, {"transfer", "compute", "host"} \cup BufferReaders,
             MemoryRead \cup MemoryWrite \cup BufferAccesses)

\* Between the writes of one command and what follows in it.
TransferThen(access) == Dependency({"transfer"}, {"transfer_write"}, {"transfer"}, access)

-----------------------------------------------------------------------------
(* Copies                                                                  *)

TransferIn(b)  == {Buffer(b, "transfer", "transfer_read")}
TransferOut(b) == {Buffer(b, "transfer", "transfer_write")}
ImagesIn(us, layout)  == {Image(u, "transfer", "transfer_read", layout) : u \in us}
ImagesOut(us, layout) == {Image(u, "transfer", "transfer_write", layout) : u \in us}

BufferCopy(d, c) ==
  RecordMemoryBarrier(Use(d, TransferIn(c.from) \cup TransferOut(c.to)), TransferToCompute)

BufferClear(d, c) == RecordMemoryBarrier(Use(d, TransferOut(c.to)), TransferToCompute)

\* The queries' own order is the query pool's.
ResolveQuerySet(d, c) ==
  LET filled == Barrier(Use(d, TransferOut(c.to)), TransferThen({"transfer_write"}), {c.to})
  IN Barrier(Use(filled, TransferOut(c.to)), QueryResolveOutgoing, {c.to})

\* A copy by way of a temporary buffer filled by `uses`.
ByTemporary(d, uses) ==
  Barrier(Use(d, uses \cup TransferOut(Temporary)), TransferThen({"transfer_read"}), {Temporary})

\* The temporary buffer is dropped with the submission.
Dropped(d) == [d EXCEPT !.past[Temporary] = {}]

ClearTexture(d, c) ==
  LET ready == TransitionImageRange(d, c.units, "transfer_dst")
      write == ImagesOut(c.units, "transfer_dst")
      cleared == IF c.compressed
                   THEN Dropped(Use(ByTemporary(ready, {}), TransferIn(Temporary) \cup write))
                   ELSE Use(ready, write)
  IN Barrier(cleared, TransferThen({"transfer_write", "transfer_read"}), c.units)

BufferToTexture(d, c) ==
  Use(TransitionImageRange(d, c.units, "transfer_dst"),
      TransferIn(c.from) \cup ImagesOut(c.units, "transfer_dst"))

TextureToBuffer(d, c) ==
  RecordMemoryBarrier(
    Use(TransitionImageRange(d, c.units, "transfer_src"),
        ImagesIn(c.units, "transfer_src") \cup TransferOut(c.to)),
    TransferToCompute)

\* Ranges of one image overlap when the copy is between slices of a 3D mip.
TextureToTexture(d, c) ==
  IF c.compressed
    THEN LET read == ByTemporary(TransitionImageRange(d, c.from, "transfer_src"),
                                 ImagesIn(c.from, "transfer_src"))
         IN Dropped(Use(TransitionImageRange(read, c.to, "transfer_dst"),
                        TransferIn(Temporary) \cup ImagesOut(c.to, "transfer_dst")))
  ELSE IF c.from \cap c.to # {}
    THEN Use(TransitionImageRange(d, c.from \cup c.to, "general"),
             ImagesIn(c.from, "general") \cup ImagesOut(c.to, "general"))
  ELSE Use(TransitionImageRange(TransitionImageRange(d, c.from, "transfer_src"),
                                c.to, "transfer_dst"),
           ImagesIn(c.from, "transfer_src") \cup ImagesOut(c.to, "transfer_dst"))

-----------------------------------------------------------------------------
(* Compute passes                                                          *)

\* One dispatch, with its arguments in c.indirect.
ComputePass(d, c) ==
  LET ready == TransitionStorage(TransitionSampled(d, c.binds, {}), c.binds, {})
      uses  == ShaderUses(c.pipeline, ToSet(c.binds), c.binds, {"compute"})
                 \cup {Buffer(b, "indirect", "indirect_read") : b \in c.indirect}
  IN RecordMemoryBarrier(Use(RecordMemoryBarrier(ready, ComputePreDispatch), uses),
                         ComputePostDispatch)
-----------------------------------------------------------------------------
(* Render pass objects                                                     *)

AttachmentStages == {"color", "early", "late"}
AttachmentAccesses == {"color_read", "color_write", "depth_read", "depth_write"}

\* A dependency of a render pass, from and to a subpass, External, or the end.
SubpassDependency(from, to, src, src_access, dst, dst_access) ==
  [from |-> from, to |-> to, src |-> src, src_access |-> src_access, dst |-> dst,
   dst_access |-> dst_access]

\* Mutant: earlier attachment writes are not made available.
Incoming_NoSource(k) == SubpassDependency(External, k, AttachmentStages, {},
                                          AttachmentStages, AttachmentAccesses)

Incoming(k) == SubpassDependency(External, k, AttachmentStages, AttachmentAccesses,
                                 AttachmentStages, AttachmentAccesses)
Outgoing(k, end) == SubpassDependency(k, end, AttachmentStages, AttachmentAccesses,
                                      {"transfer"}, {"transfer_read"})

RenderPassDependencies == {Incoming(0), Outgoing(0, 1)}

\* Those of the pass layout, by type.
Produced == [color |-> {"color_write"}, depth |-> {"depth_write"},
             color_depth |-> {"color_write", "depth_write"}]
Producers == [color |-> {"color"}, depth |-> {"early", "late"},
              color_depth |-> AttachmentStages]

SubpassDependencies(c) ==
  LET end == Len(c.subpasses)
  IN {Incoming(0)}
       \cup {SubpassDependency(e.from, e.to, Producers[e.type], Produced[e.type],
                               {"fragment"} \cup AttachmentStages,
                               {"input_read"} \cup AttachmentAccesses) : e \in c.dependencies}
       \cup {Outgoing(k, end) : k \in 0 .. end - 1}

Attachment(u, initial, final) == [on |-> u, initial |-> initial, final |-> final]
ColorAttachment(u, initial) == Attachment(u, initial, FinalLayout(u))
DepthAttachment(u) == Attachment(u, "depth", "depth")

ColorUses(u, layout) ==
  {Image(u, "color", a, layout) : a \in {"color_read", "color_write"}}
DepthUses(u) ==
  {Image(u, s, a, "depth") : s \in {"early", "late"}, a \in {"depth_read", "depth_write"}}

\* Units whose layout a subpass changes, on the way in.
Changed(d, uses, attached) ==
  {u.on : u \in {u \in uses : u.on \in attached /\ u.layout # d.layout[u.on]}}

Unordered(d, u, deps) ==
  \E p \in d.past[u] :
     LET into == {e \in deps.into : e.from >= p.at}
     IN ~Awaited(p, into, [e \in into |-> Seen(p, deps.all, e.from)],
                 [e \in into |-> e.from = p.at])

\* Subpass k: the device brings each attachment into the layout of its
\* reference, then the draws and attachment accesses of `uses` are made.
Subpass(d, uses, attached, deps, k) ==
  LET into == {e \in deps : e.to = k}
      changed == Changed(d, uses, attached)
      ready == [d EXCEPT
        !.races = @ \cup {u \in changed : Unordered(d, u, [all |-> deps, into |-> into])},
        !.past = [r \in Resources |-> IF r \in changed THEN {Transitioned(into, k)} ELSE @[r]],
        !.layout = [u \in Units |->
                      IF u \in changed
                        THEN (CHOOSE x \in uses : x.on = u).layout ELSE @[u]]]
  IN UseIn(ready, uses, deps, k)

\* The device adds a dependency of its own where an attachment changes its
\* layout at its first use and the pass declares none from outside.
Implicit(d, attachments, uses, deps) ==
  LET first(u) == CHOOSE k \in DOMAIN uses : /\ \E x \in uses[k] : x.on = u
                                            /\ \A j \in 1 .. k - 1 : \A x \in uses[j] : x.on # u
      changes(u) == \E x \in uses[first(u)] : x.on = u /\ x.layout # d.layout[u]
      at == {first(a.on) - 1 : a \in {a \in ToSet(attachments) : changes(a.on)}}
  IN {SubpassDependency(External, k, {"top"}, {}, AllCommands, {"input_read"} \cup AttachmentAccesses) :
        k \in {k \in at : ~\E e \in deps : e.from = External /\ e.to = k}}

\* vkCmdBeginRenderPass to vkCmdEndRenderPass; uses[k + 1] are those of subpass k.
RunRenderPass(d, attachments, declared, uses) ==
  LET end  == Len(uses)
      deps == declared \cup Implicit(d, attachments, uses, declared)
      attached == {a.on : a \in ToSet(attachments)}
      begun == [d EXCEPT !.mislaid = @ \cup
                  {a.on : a \in {a \in ToSet(attachments) : a.initial # d.layout[a.on]}}]
      run[k \in 0 .. end] ==
        IF k = 0 THEN begun ELSE Subpass(run[k - 1], uses[k], attached, deps, k - 1)
      done  == run[end]
      out   == {e \in deps : e.to = end}
      final == [a \in {a.on : a \in {a \in ToSet(attachments) : a.final # done.layout[a.on]}} |->
                  (CHOOSE x \in ToSet(attachments) : x.on = a).final]
  IN [done EXCEPT
       !.races = @ \cup {u \in DOMAIN final : Unordered(done, u, [all |-> deps, into |-> out])},
       !.past = [r \in Resources |->
                  IF r \in DOMAIN final THEN {Transitioned(out, External)}
                  ELSE {[Seen(p, deps, end) EXCEPT !.at = External] : p \in @[r]}],
       !.layout = [u \in Units |-> IF u \in DOMAIN final THEN final[u] ELSE @[u]]]
-----------------------------------------------------------------------------
(* Render passes                                                           *)

NoPipeline == [declared |-> {}, buffers |-> {}, writable |-> {}]

\* The walk over a stream of commands: what is bound; all bindings and draws met;
\* writes, writes_buffer: a pipeline and a binding it writes were bound together.
Start == [pipeline |-> NoPipeline, binds |-> {}, bound |-> <<>>, draws |-> {},
          writes |-> FALSE, writes_buffer |-> FALSE]

Checked(w) ==
  [w EXCEPT !.writes = @ \/ WritableIsBound(w.pipeline.writable, w.binds),
            !.writes_buffer = @ \/ WritableIsBound(BufferWritable(w.pipeline), w.binds)]

SetPipeline(w, pipeline) == Checked([w EXCEPT !.pipeline = pipeline])

SetBindGroup(w, index, binds) ==
  Checked([w EXCEPT !.binds = {b \in @ : b.key[1] # index} \cup ToSet(binds),
                    !.bound = @ \o binds])

\* c.fetches: vertices, indices and arguments that the draw reads.
Draw(w, fetches) ==
  [w EXCEPT !.draws = @ \cup {[pipeline |-> w.pipeline, binds |-> w.binds, fetches |-> fetches]}]

Visit(w, c) ==
  CASE c.op = "pipeline" -> SetPipeline(w, c.pipeline)
    [] c.op = "group"    -> SetBindGroup(w, c.index, c.binds)
    [] c.op = "draw"     -> Draw(w, c.fetches)

ExecuteRenderBundle(w, commands) ==
  [FoldLeft(Visit, w, commands) EXCEPT !.pipeline = NoPipeline, !.binds = {}]

VisitAll(w, c) == IF c.op = "bundle" THEN ExecuteRenderBundle(w, c.commands) ELSE Visit(w, c)

Walk(stream) == FoldLeft(VisitAll, Start, stream)

\* draws: [pipeline, binds, fetches].
DrawUses(draws, bound) ==
  UNION {ShaderUses(w.pipeline, w.binds, bound, {"vertex", "fragment"}) \cup w.fetches : w \in draws}

TransitionAttachments(d, attachments) ==
  FoldLeft(LAMBDA e, a : TransitionImageRange(e, {a.on}, a.initial), d, attachments)

\* The attachments' and bound textures' transitions, the pass, the barrier for
\* what its shaders write, and the layouts the pass leaves.
AroundPass(d, attachments, colors, bound, deps, uses, writes) ==
  LET attached == {a.on : a \in ToSet(attachments)}
      ready == TransitionStorage(
                 TransitionSampled(TransitionAttachments(d, attachments), bound, attached),
                 bound, attached)
      done  == RunRenderPass(ready, attachments, deps, uses)
  IN SetLayouts(IF writes THEN RecordMemoryBarrier(done, RenderPassShaderWrite) ELSE done, colors)

\* c.colors: [on, fetch, resolve], resolve and c.depth sequences of at most one
\* subresource; fetch: the shader reads the attachment itself. c.subpasses: [writes,
\* inputs, depth], the slots of colors that a subpass writes and reads.
ReadInPass(c, slot) ==
  CASE c.kind = "render"  -> c.colors[slot].fetch
    [] c.kind = "subpass" -> \E k \in DOMAIN c.subpasses : slot \in c.subpasses[k].inputs

ColorAttachments(c) ==
  [i \in DOMAIN c.colors |-> ColorAttachment(c.colors[i].on,
                                             IF ReadInPass(c, i) THEN "general" ELSE "color")]
    \o FlattenSeq([i \in DOMAIN c.colors |->
          [j \in DOMAIN c.colors[i].resolve |-> ColorAttachment(c.colors[i].resolve[j], "color")]])

Attachments(c) ==
  ColorAttachments(c) \o [i \in DOMAIN c.depth |-> DepthAttachment(c.depth[i])]

RenderPass(d, c) ==
  LET walk == Walk(c.stream)
      uses == (UNION {ColorUses(a.on, a.initial) : a \in ToSet(ColorAttachments(c))})
                \cup (UNION {DepthUses(u) : u \in ToSet(c.depth)})
                \cup DrawUses(walk.draws, walk.bound)
  IN AroundPass(d, Attachments(c), ColorAttachments(c), walk.bound, RenderPassDependencies,
                <<uses>>, walk.writes)

\* The draws of all subpasses, c.draws: [subpass, pipeline, binds, fetches].
SubpassDraws(c) == {[w EXCEPT !.binds = ToSet(@)] : w \in ToSet(c.draws)}

SubpassUses(c, k, bound) ==
  LET pass == c.subpasses[k]
      layout(slot) == IF slot \in pass.inputs THEN "general" ELSE "color"
  IN (UNION {ColorUses(c.colors[slot].on, layout(slot))
               \cup UNION {ColorUses(u, "color") : u \in ToSet(c.colors[slot].resolve)} :
               slot \in pass.writes})
       \cup {Image(c.colors[slot].on, "fragment", "input_read", "general") : slot \in pass.inputs}
       \cup (IF pass.depth THEN UNION {DepthUses(u) : u \in ToSet(c.depth)} ELSE {})
       \cup DrawUses({w \in SubpassDraws(c) : w.subpass = k - 1}, bound)

SubpassRenderPass(d, c) ==
  LET bound == FlattenSeq([i \in DOMAIN c.draws |-> c.draws[i].binds])
  IN AroundPass(d, Attachments(c), ColorAttachments(c), bound, SubpassDependencies(c),
                [k \in DOMAIN c.subpasses |-> SubpassUses(c, k, bound)],
                \E w \in SubpassDraws(c) : WritableIsBound(w.pipeline.writable, w.binds))

-----------------------------------------------------------------------------
(* Commands                                                                *)

Keys == Nat \X Nat
Bindings == [key : Keys, on : Buffers, as : {"uniform", "storage"}]
              \cup [key : Keys, on : Units, as : {"sampled", "storage_texture"}]
Pipelines == [declared : SUBSET Keys, buffers : SUBSET Keys, writable : SUBSET Keys]
Fetches == {Buffer(b, a[1], a[2]) : b \in Buffers,
              a \in {<<"vertex_input", "vertex_read">>, <<"vertex_input", "index_read">>,
                     <<"indirect", "indirect_read">>}}

BundleCommand == [op : {"pipeline"}, pipeline : Pipelines]
                   \cup [op : {"group"}, index : Nat, binds : Seq(Bindings)]
                   \cup [op : {"draw"}, fetches : SUBSET Fetches]
StreamCommand == BundleCommand \cup [op : {"bundle"}, commands : Seq(BundleCommand)]

HalSubpassDraw == [subpass : Nat, pipeline : Pipelines, binds : Seq(Bindings), fetches : SUBSET Fetches]
HalSubpassLayout == [writes : SUBSET Nat, inputs : SUBSET Nat, depth : BOOLEAN]
HalSubpassDependency == [from : Nat, to : Nat, type : {"color", "depth", "color_depth"}]

HalCopy ==
  [kind : {"buffer_copy"}, from : Buffers, to : Buffers]
    \cup [kind : {"buffer_clear", "resolve"}, to : Buffers]
    \cup [kind : {"clear_texture"}, units : SUBSET Units, compressed : BOOLEAN]
    \cup [kind : {"buffer_to_texture"}, from : Buffers, units : SUBSET Units]
    \cup [kind : {"texture_to_buffer"}, units : SUBSET Units, to : Buffers]
    \cup [kind : {"texture_to_texture"}, from : SUBSET Units, to : SUBSET Units, compressed : BOOLEAN]
    \cup [kind : {"compute"}, pipeline : Pipelines, binds : Seq(Bindings), indirect : SUBSET Buffers]
    \cup [kind : {"render"}, colors : Seq([on : Units, fetch : BOOLEAN, resolve : Seq(Units)]),
           depth : Seq(Units), stream : Seq(StreamCommand)]
    \cup [kind : {"subpass"}, colors : Seq([on : Units, resolve : Seq(Units)]), depth : Seq(Units),
           subpasses : Seq(HalSubpassLayout), dependencies : SUBSET HalSubpassDependency,
           draws : Seq(HalSubpassDraw)]

DrawsOf(c) ==
  CASE c.kind = "render"  -> Walk(c.stream).draws
    [] c.kind = "subpass" -> SubpassDraws(c)
    [] c.kind = "compute" -> {[pipeline |-> c.pipeline, binds |-> ToSet(c.binds)]}
    [] OTHER -> {}

\* What core validates of a draw or dispatch: its bind groups have the layouts
\* its pipeline has, so a buffer is bound where the pipeline has a buffer.
BindGroupsMatch(w) ==
  \A b \in w.binds : b.on \in Buffers /\ b.key \in w.pipeline.declared \cap w.pipeline.writable
                       => b.key \in w.pipeline.buffers

\* And of a render pass: what is attached to it is not bound; a read-only depth
\* attachment that is also sampled, a limit the backend names, is left out. Two
\* attachments of one subresource, slices of a 3D image, are alike. In a subpass
\* pass this is left to the caller.
AttachmentsMatch(c) ==
  LET attached == {a.on : a \in ToSet(Attachments(c))}
  IN /\ \A w \in DrawsOf(c) : \A b \in w.binds :
            b.key \in w.pipeline.declared => b.on \notin attached
     /\ \A a, b \in ToSet(Attachments(c)) : a.on = b.on => a.initial = b.initial

\* The slots of subpasses exist, as core validates. That they are distinct
\* subresources and that dependencies lead forward is left to the caller.
SubpassesMatch(c) ==
  /\ c.subpasses # <<>>
  /\ \A k \in DOMAIN c.subpasses :
       c.subpasses[k].writes \cup c.subpasses[k].inputs \subseteq DOMAIN c.colors
  /\ \A i, j \in DOMAIN c.colors : c.colors[i].on = c.colors[j].on => i = j
  /\ \A e \in c.dependencies : e.from < e.to /\ e.to < Len(c.subpasses)
  /\ \A w \in ToSet(c.draws) : w.subpass < Len(c.subpasses)

ASSUME CommandsAssumption ==
  /\ Commands \subseteq HalCopy
  /\ \A c \in Commands : \A w \in DrawsOf(c) : BindGroupsMatch(w)
  /\ \A c \in Commands : c.kind \in {"render", "subpass"} => AttachmentsMatch(c)
  /\ \A c \in Commands : c.kind = "subpass" => SubpassesMatch(c)

-----------------------------------------------------------------------------
(* Submissions                                                             *)

CommandWritesBuffer(c) ==
  CASE c.kind \in {"buffer_copy", "buffer_clear", "texture_to_buffer", "resolve"} -> TRUE
    [] c.kind = "compute" -> WritableIsBound(BufferWritable(c.pipeline), ToSet(c.binds))
    [] c.kind = "render"  -> Walk(c.stream).writes_buffer
    [] c.kind = "subpass" -> \E w \in SubpassDraws(c) :
                                WritableIsBound(BufferWritable(w.pipeline), w.binds)
    [] OTHER -> FALSE

Encode(d, c) ==
  CASE c.kind = "buffer_copy"  -> BufferCopy(d, c)
    [] c.kind = "buffer_clear" -> BufferClear(d, c)
    [] c.kind = "resolve"      -> ResolveQuerySet(d, c)
    [] c.kind = "clear_texture" -> ClearTexture(d, c)
    [] c.kind = "buffer_to_texture" -> BufferToTexture(d, c)
    [] c.kind = "texture_to_buffer" -> TextureToBuffer(d, c)
    [] c.kind = "texture_to_texture" -> TextureToTexture(d, c)
    [] c.kind = "compute" -> ComputePass(d, c)
    [] c.kind = "render"  -> RenderPass(d, c)
    [] c.kind = "subpass" -> SubpassRenderPass(d, c)

Init == recorded = Empty /\ committed = Empty /\ calls = 0

\* The next command of a submission.
Record(c) ==
  /\ calls < MaxCommands
  /\ calls' = calls + 1
  /\ recorded' = Encode(IF CommandWritesBuffer(c)
                          THEN RecordMemoryBarrier(recorded, BufferReadToWrite) ELSE recorded, c)
  /\ UNCHANGED committed

\* Mutant: nothing for the host at the end.
Submit_DeviceOnly ==
  /\ recorded # committed
  /\ committed' = recorded
  /\ UNCHANGED <<recorded, calls>>

\* The end of the command buffer, vkQueueSubmit and LayoutOverlay::commit.
Submit ==
  /\ recorded # committed
  /\ committed' = RecordMemoryBarrier(recorded, GpuWriteToHostRead)
  /\ recorded' = committed'
  /\ UNCHANGED calls

\* An error of a command or of vkQueueSubmit: neither it nor the layouts count.
Fail ==
  /\ recorded # committed
  /\ recorded' = committed
  /\ UNCHANGED <<committed, calls>>

Next == (\E c \in Commands : Record(c)) \/ Submit \/ Fail

Spec == Init /\ [][Next]_vars

-----------------------------------------------------------------------------
(* Properties                                                              *)

\* Two accesses to a buffer or a subresource, one of them a write, are ordered by
\* the barriers between them, and the second sees what the first wrote.
NoRace == recorded.races = {}

\* Every access, barrier and attachment names the layout its image is in, and
\* SubresourceLayouts and its overlay tell the layout of each subresource, whatever
\* has been recorded, submitted or dropped.
LayoutsHold ==
  /\ recorded.mislaid = {}
  /\ recorded.states = recorded.layout /\ committed.states = committed.layout

\* When a submission has finished, the host sees what it wrote to buffers.
HostSees ==
  \A b \in Buffers : \A p \in committed.past[b] :
     IsWrite(p.access) => <<"host", "host_read">> \in p.visible
=============================================================================
