------------------------------ MODULE Encoder ------------------------------
(* The command encoder of yawgpu-core with its render and compute passes   *)
(* and the render bundles a pass executes: what a call validates, what it  *)
(* records, and what the finished command buffer holds.  An encoder is not *)
(* promised to be thread safe (src/specs/SPEC.md), so a call is one step.  *)
(*                                                                         *)
(* A bind group is a set of bindings on resources; a texture subresource   *)
(* is a resource with two parts, the depth slices of a 3D texture.  The    *)
(* list of render commands is kept as what its replay binds (replay), what *)
(* it draws (drawn) and what it touches (touched).                         *)
EXTENDS Naturals, Sequences, FiniteSets

CONSTANTS
  Buffers,      \* buffers
  Units,        \* texture subresources whose initialization is tracked
  Groups,       \* bind groups
  Layout,       \* [Groups -> layouts]
  Bindings,     \* [Groups -> sets of bindings]: resource, access, base, dynamic
  Slots,        \* bind group indices
  Offsets,      \* dynamic offsets; 0 for a group that takes none
  Pipelines,    \* pipelines
  Requires,     \* [Pipelines -> functions from slots to layouts]
  VertexOf,     \* the render pipelines that read a vertex buffer
  RenderOf,     \* the render pipelines
  Targets,      \* attachment lists a render pass may begin with
  MaxPasses,    \* bound: passes of one encoder
  MaxEncoders,  \* bound: encoders created one after the other
  MaxCalls,     \* bound: calls on the encoders and their passes, in all
  MaxBundles,   \* bound: render bundles
  MaxRecorded,  \* bound: calls on one bundle encoder
  NoResource    \* no pipeline, no buffer, no bound group

Parts == {1, 2}
Resources == Buffers \cup Units

\* A bound group: BoundBindGroup with its dynamic offset.
Bounds == [group : Groups, offset : Offsets]

Accesses == {"read", "write", "attach"}
Loads == {"load", "clear"}

ASSUME ConstantsOK ==
  /\ Buffers \cap Units = {}
  /\ Bindings \in [Groups -> SUBSET [res : Resources, access : {"read", "write"},
                                     base : Nat, dynamic : BOOLEAN]]
  /\ NoResource \notin Resources \cup Pipelines
  /\ NoResource \notin Bounds
  /\ \A pl \in Pipelines : DOMAIN Requires[pl] \subseteq Slots
  /\ VertexOf \subseteq RenderOf /\ RenderOf \subseteq Pipelines
  /\ Targets \subseteq Seq([unit : Units, parts : SUBSET Parts, load : Loads, store : BOOLEAN])

ASSUME BoundsOK ==
  /\ Slots \subseteq Nat /\ Offsets \subseteq Nat
  /\ MaxPasses \in Nat /\ MaxEncoders \in Nat /\ MaxCalls \in Nat
  /\ MaxBundles \in Nat /\ MaxRecorded \in Nat

VARIABLES
  enc,       \* the encoder: CommandEncoderState
  passes,    \* the pass encoders it has begun, in order
  bundler,   \* the render bundle encoder
  bundles,   \* the finished render bundles
  cb,        \* the command buffer of the last finish
  destroyed  \* the resources that are destroyed

encVars == <<enc, passes, bundler, bundles, cb, destroyed>>

-----------------------------------------------------------------------------
(* Usage scopes                                                            *)

\* A use of a resource: which parts of it, and how.
UseOf(r, a, parts) == [res |-> r, access |-> a, parts |-> parts]

\* The groups that take a dynamic offset.
Dynamic == {g \in Groups : \E x \in Bindings[g] : x.dynamic}

\* The uses of a bound group: the precomputed ones, for the whole resource.
GroupUses(b) == {UseOf(x.res, x.access, Parts) : x \in Bindings[b.group]}

\* Equal accesses agree, except that attachments must not meet.
Compatible(u, v) ==
  \/ u.res # v.res
  \/ u.parts \cap v.parts = {}
  \/ u.access = v.access /\ u.access # "attach"

\* validate_and_record: every new use against the recorded ones and against
\* the earlier ones of its own batch.
Admits(scope, batch) ==
  \A i \in 1..Len(batch) :
    /\ \A u \in scope : Compatible(batch[i], u)
    /\ \A j \in 1..(i - 1) : Compatible(batch[i], batch[j])

AsBatch(uses) ==
  CHOOSE s \in [1..Cardinality(uses) -> uses] :
    \A i, j \in 1..Cardinality(uses) : i # j => s[i] # s[j]

AdmitsSet(scope, uses) == Admits(scope, AsBatch(uses))

-----------------------------------------------------------------------------
(* The state of a pass                                                     *)

NoGroups == [s \in Slots |-> NoResource]
Unbound == [pipeline |-> NoResource, groups |-> NoGroups, vertex |-> NoResource]

\* PassEncoderState::new.  A bundle encoder keeps the same state.
NewPass(kind, targets) ==
  [kind |-> kind, ended |-> FALSE, depth |-> 0,
   bound |-> Unbound, compatDirty |-> TRUE, aliasDirty |-> TRUE,
   scope |-> {}, targets |-> targets,
   replay |-> Unbound, drawn |-> {}, touched |-> {}]

\* clear_render_state
ClearState(st) ==
  [st EXCEPT !.bound = Unbound, !.compatDirty = TRUE, !.aliasDirty = TRUE]

\* clear_ended_resources, which keeps the scalars only.
ClearEnded(st) ==
  [NewPass(st.kind, <<>>) EXCEPT !.ended = TRUE, !.depth = st.depth,
                                 !.compatDirty = st.compatDirty, !.aliasDirty = st.aliasDirty]

\* set_render_pipeline and set_compute_pipeline
BindPipeline(st, p) ==
  LET new == st.bound.pipeline # p IN
  [st EXCEPT !.bound.pipeline = p, !.replay.pipeline = p,
             !.compatDirty = @ \/ new, !.aliasDirty = @ \/ new]

\* Mutant: a new offset alone leaves the aliasing check settled.
BindGroup_IgnoresOffset(st, s, b) ==
  LET old == st.bound.groups[s]
      new == old = NoResource \/ (old # NoResource /\ old.group # b.group) IN
  [st EXCEPT !.bound.groups[s] = b, !.replay.groups[s] = b,
             !.touched = @ \cup {x.res : x \in Bindings[b.group]},
             !.compatDirty = @ \/ new, !.aliasDirty = @ \/ new]

\* set_bind_group: another group dirties both checks, another offset of the
\* same group the aliasing check only.
BindGroup(st, s, b) ==
  LET old == st.bound.groups[s]
      new == old = NoResource \/ (old # NoResource /\ old.group # b.group) IN
  [st EXCEPT !.bound.groups[s] = b, !.replay.groups[s] = b,
             !.touched = @ \cup {x.res : x \in Bindings[b.group]},
             !.compatDirty = @ \/ new, !.aliasDirty = @ \/ (old # b)]

\* clear_bind_group
UnbindGroup(st, s) ==
  LET new == st.bound.groups[s] # NoResource IN
  [st EXCEPT !.bound.groups[s] = NoResource, !.replay.groups[s] = NoResource,
             !.compatDirty = @ \/ new, !.aliasDirty = @ \/ new]

-----------------------------------------------------------------------------
(* What a draw or a dispatch validates                                     *)

Needed(p) == DOMAIN Requires[p]

GroupsFit(p, groups) ==
  \A s \in Needed(p) : /\ groups[s] # NoResource
                       /\ Layout[groups[s].group] = Requires[p][s]

\* validate_dynamic_offsets, for the groups the pipeline requires
OffsetsFit(p, groups) ==
  \A s \in Needed(p) : groups[s] # NoResource
    /\ (groups[s].group \notin Dynamic => groups[s].offset = 0)

\* The place a bound group's binding refers to.
PlaceOf(x, b) == x.base + (IF x.dynamic THEN b.offset ELSE 0)

\* The writable bindings of the required groups, with the place each writes.
Writes(p, groups) ==
  UNION {{[slot |-> s, binding |-> x, at |-> PlaceOf(x, groups[s])] :
            x \in {y \in Bindings[groups[s].group] : y.access = "write"}} : s \in Needed(p)}

\* validate_writable_binding_aliasing
NoAliasing(p, groups) ==
  \A x, y \in Writes(p, groups) : x # y => x.binding.res # y.binding.res \/ x.at # y.at

\* The checks of validate_pipeline_bind_groups without any memory.
GroupsValid(p, groups) ==
  GroupsFit(p, groups) /\ OffsetsFit(p, groups) /\ NoAliasing(p, groups)

\* validate_pipeline_bind_groups_memoized
MemoAccepts(st) ==
  LET p == st.bound.pipeline  g == st.bound.groups IN
  IF st.compatDirty
    THEN GroupsValid(p, g)
    ELSE OffsetsFit(p, g) /\ (st.aliasDirty => NoAliasing(p, g))

Settle(st) == [st EXCEPT !.compatDirty = FALSE, !.aliasDirty = FALSE]

\* The pipeline is there, its groups pass, its vertex buffer is set.
DrawReady(st) ==
  /\ st.bound.pipeline # NoResource
  /\ MemoAccepts(st)
  /\ st.bound.pipeline \in VertexOf => st.bound.vertex # NoResource

\* A compute dispatch is a usage scope of its own, over the required groups.
DispatchUses(st) ==
  UNION {GroupUses(st.bound.groups[s]) : s \in {t \in Needed(st.bound.pipeline) :
                                                  st.bound.groups[t] # NoResource}}

ReadOf(b) == IF b = NoResource THEN {} ELSE {UseOf(b, "read", Parts)}

\* record_render_draw, with the indirect buffer if there is one.
Draws(st, indirect) ==
  [Settle(st) EXCEPT !.scope = @ \cup ReadOf(indirect),
                     !.drawn = @ \cup {st.replay},
                     !.touched = @ \cup (IF indirect = NoResource THEN {} ELSE {indirect})]

\* Whether the rest of a draw succeeds: its scope and, in a pass, an attachment.
DrawAdmitted(st, indirect) == DrawReady(st) /\ AdmitsSet(st.scope, ReadOf(indirect))
-----------------------------------------------------------------------------
(* Command buffers and their commands                                      *)

NoCommandBuffer == [life |-> "none", error |-> FALSE, ops |-> <<>>, refs |-> {}]

TargetUnits(targets) == {targets[i].unit : i \in DOMAIN targets}
AttachUses(targets) ==
  {UseOf(targets[i].unit, "attach", targets[i].parts) : i \in DOMAIN targets}

\* set_attachment_texture_uses: the attachments of a pass must not meet.
AttachmentsAdmitted(targets) ==
  Admits({}, [i \in DOMAIN targets |-> UseOf(targets[i].unit, "attach", targets[i].parts)])

CopyOp(dir, b, u, full) == [op |-> dir, buffer |-> b, unit |-> u, full |-> full]
RenderOp(st) == [op |-> "render", targets |-> st.targets, drawn |-> st.drawn,
                 touched |-> st.touched]
DispatchOp(st, indirect) ==
  [op |-> "dispatch", drawn |-> {st.bound}, indirect |-> indirect]

\* command_buffer_referenced_textures: the textures found in the commands.
TexturesOf(ops) ==
  UNION {IF ops[i].op = "render" THEN TargetUnits(ops[i].targets)
         ELSE IF ops[i].op = "dispatch" THEN {} ELSE {ops[i].unit} : i \in DOMAIN ops}

\* What submit tests for destruction.
Checked(c) == c.refs \cup TexturesOf(c.ops)

-----------------------------------------------------------------------------
(* Calls on the encoder                                                    *)

Fresh(n) == [life |-> "recording", made |-> n, open |-> 0, error |-> FALSE,
             depth |-> 0, refs |-> {}, ops |-> <<>>, calls |-> 0]

NewBundler(life) ==
  [life |-> life, error |-> FALSE, calls |-> 0, st |-> NewPass("render", <<>>)]

Init ==
  /\ enc = [Fresh(0) EXCEPT !.life = "finished"]
  /\ bundler = NewBundler("finished")
  /\ passes = <<>> /\ bundles = <<>> /\ cb = NoCommandBuffer /\ destroyed = {}

\* The application drops a finished encoder and creates another one.
NewEncoder ==
  /\ enc.life = "finished" /\ enc.made < MaxEncoders
  /\ enc' = [Fresh(enc.made + 1) EXCEPT !.calls = enc.calls]
  /\ UNCHANGED <<passes, bundler, bundles, cb, destroyed>>

\* Calls on a finished encoder change nothing.  Once an error is recorded the
\* command buffer is lost, and the instance only ends, finishes and submits.
MayCall == enc.life = "recording" /\ ~enc.error /\ enc.calls < MaxCalls

Called(e) == [e EXCEPT !.calls = @ + 1]
Failed(e) == [Called(e) EXCEPT !.error = TRUE]

\* record_buffer_command: refused while a pass is open.
Record(op, refs) ==
  /\ MayCall
  /\ enc' = IF enc.open # 0 THEN Failed(enc)
            ELSE [Called(enc) EXCEPT !.ops = Append(@, op), !.refs = @ \cup refs]
  /\ UNCHANGED <<passes, bundler, bundles, cb, destroyed>>

CopyBufferToTexture(b, u, full) == Record(CopyOp("in", b, u, full), {b})
CopyTextureToBuffer(b, u) == Record(CopyOp("out", b, u, TRUE), {b})

PushDebugGroup ==
  /\ MayCall
  /\ enc' = IF enc.open # 0 THEN Failed(enc) ELSE [Called(enc) EXCEPT !.depth = @ + 1]
  /\ UNCHANGED <<passes, bundler, bundles, cb, destroyed>>

PopDebugGroup ==
  /\ MayCall
  /\ enc' = IF enc.open # 0 \/ enc.depth = 0 THEN Failed(enc)
            ELSE [Called(enc) EXCEPT !.depth = @ - 1]
  /\ UNCHANGED <<passes, bundler, bundles, cb, destroyed>>

\* begin_pass: a pass encoder is returned in any case, but its token opens
\* only when no other pass is open.  Attachments that are refused are an error
\* of the encoder, and the token opens all the same.
Begin(st, refs, admitted) ==
  /\ MayCall /\ Len(passes) < MaxPasses
  /\ passes' = Append(passes, st)
  /\ enc' = IF enc.open # 0 THEN Failed(enc)
            ELSE [(IF admitted THEN Called(enc) ELSE Failed(enc)) EXCEPT
                    !.open = Len(passes) + 1, !.refs = @ \cup refs]
  /\ UNCHANGED <<bundler, bundles, cb, destroyed>>

\* The scope of a pass whose attachments are refused stays empty.
BeginRenderPass(targets) ==
  LET admitted == AttachmentsAdmitted(targets) IN
  Begin([NewPass("render", targets) EXCEPT
           !.scope = IF admitted THEN AttachUses(targets) ELSE {}],
        TargetUnits(targets), admitted)

BeginComputePass == Begin(NewPass("compute", <<>>), {}, TRUE)

\* finish: an open pass, an open debug group or an earlier error makes an
\* error command buffer, which holds nothing.
Finish ==
  /\ enc.life = "recording"
  /\ LET bad == enc.error \/ enc.open # 0 \/ enc.depth # 0 IN
     cb' = [life |-> "ready", error |-> bad,
            ops |-> IF bad THEN <<>> ELSE enc.ops,
            refs |-> IF bad THEN {} ELSE enc.refs]
  /\ enc' = [enc EXCEPT !.life = "finished", !.refs = {}, !.ops = <<>>]
  /\ passes' = <<>>  \* they take no call any more
  /\ UNCHANGED <<bundler, bundles, destroyed>>

-----------------------------------------------------------------------------
(* Calls on a pass                                                         *)

\* record_pass_command: an ended pass records an error on its encoder.
PassCall(p, ok, st, refs) ==
  /\ MayCall
  /\ IF passes[p].ended \/ ~ok
       THEN /\ enc' = [Failed(enc) EXCEPT !.refs = @ \cup refs]
            /\ UNCHANGED passes
       ELSE /\ enc' = [Called(enc) EXCEPT !.refs = @ \cup refs]
            /\ passes' = [passes EXCEPT ![p] = st]
  /\ UNCHANGED <<bundler, bundles, cb, destroyed>>

SetPipeline(p, pl) ==
  /\ (pl \in RenderOf) = (passes[p].kind = "render")
  /\ PassCall(p, TRUE, BindPipeline(passes[p], pl), {})

SetBindGroup(p, s, b) ==
  LET st == passes[p]  scoped == st.kind = "render" IN
  PassCall(p, scoped => AdmitsSet(st.scope, GroupUses(b)),
           [BindGroup(st, s, b) EXCEPT !.scope = IF scoped THEN @ \cup GroupUses(b) ELSE @],
           IF st.ended THEN {} ELSE {x.res : x \in Bindings[b.group]})

ClearBindGroup(p, s) == PassCall(p, TRUE, UnbindGroup(passes[p], s), {})

BindVertex(st, b) ==
  [st EXCEPT !.bound.vertex = b, !.replay.vertex = b, !.touched = @ \cup {b},
             !.scope = @ \cup ReadOf(b)]

SetVertexBuffer(p, b) ==
  /\ passes[p].kind = "render"
  /\ PassCall(p, AdmitsSet(passes[p].scope, ReadOf(b)), BindVertex(passes[p], b),
              IF passes[p].ended THEN {} ELSE {b})

IndirectRefs(indirect) == IF indirect = NoResource THEN {} ELSE {indirect}

Draw(p, indirect) ==
  LET st == passes[p]  ok == ~st.ended /\ DrawAdmitted(st, indirect) IN
  /\ st.kind = "render"
  /\ PassCall(p, ok, Draws(st, indirect), IF ok THEN IndirectRefs(indirect) ELSE {})

\* A dispatch goes to the parent's commands at once.
Dispatch(p, indirect) ==
  LET st == passes[p]
      ok == /\ ~st.ended /\ DrawReady(st)
            /\ AdmitsSet({}, DispatchUses(st))
            /\ AdmitsSet(DispatchUses(st), ReadOf(indirect)) IN
  /\ MayCall /\ st.kind = "compute"
  /\ enc' = IF ok THEN [Called(enc) EXCEPT !.ops = Append(@, DispatchOp(st, indirect)),
                                           !.refs = @ \cup IndirectRefs(indirect)]
            ELSE Failed(enc)
  /\ passes' = IF ok THEN [passes EXCEPT ![p] = Settle(st)] ELSE passes
  /\ UNCHANGED <<bundler, bundles, cb, destroyed>>

\* What execute_bundles does to the pass: the bundle's uses join its scope,
\* its commands the stream, and every outer binding is gone.
Replayed(st, b) ==
  ClearState([st EXCEPT !.scope = @ \cup b.scope, !.drawn = @ \cup b.drawn,
                        !.touched = @ \cup b.touched, !.replay = Unbound])

ExecuteBundle(p, b) ==
  LET st == passes[p]  ok == ~b.error /\ AdmitsSet(st.scope, b.scope) IN
  /\ st.kind = "render"
  /\ PassCall(p, ok, Replayed(st, b), IF st.ended \/ b.error THEN {} ELSE b.refs)

PushPassDebugGroup(p) == PassCall(p, TRUE, [passes[p] EXCEPT !.depth = @ + 1], {})
PopPassDebugGroup(p) ==
  PassCall(p, passes[p].depth # 0, [passes[p] EXCEPT !.depth = @ - 1], {})

\* end: refused with an immediate error, which changes nothing, unless the
\* pass is the open one.
EndPass(p) ==
  LET st == passes[p] IN
  /\ enc.life = "recording" /\ ~st.ended /\ enc.open = p
  /\ passes' = [passes EXCEPT ![p] = ClearEnded(st)]
  /\ enc' = [enc EXCEPT !.open = 0, !.error = @ \/ st.depth # 0,
                        !.ops = IF st.targets = <<>> THEN @ ELSE Append(@, RenderOp(st))]
  /\ UNCHANGED <<bundler, bundles, cb, destroyed>>

-----------------------------------------------------------------------------
(* Render bundles                                                          *)

NewBundleEncoder ==
  /\ bundler.life = "finished" /\ Len(bundles) < MaxBundles
  /\ bundler' = NewBundler("recording")
  /\ UNCHANGED <<enc, passes, bundles, cb, destroyed>>

\* record_bundle_command: an error stays with the bundle, whose other commands
\* no longer matter.
BundleCall(ok, st) ==
  /\ bundler.life = "recording" /\ ~bundler.error /\ bundler.calls < MaxRecorded
  /\ bundler' = [bundler EXCEPT !.calls = @ + 1, !.error = ~ok, !.st = IF ok THEN st ELSE @]
  /\ UNCHANGED <<enc, passes, bundles, cb, destroyed>>

BundleSetPipeline(pl) == pl \in RenderOf /\ BundleCall(TRUE, BindPipeline(bundler.st, pl))

BundleSetBindGroup(s, b) ==
  BundleCall(AdmitsSet(bundler.st.scope, GroupUses(b)),
             [BindGroup(bundler.st, s, b) EXCEPT !.scope = @ \cup GroupUses(b)])

BundleClearBindGroup(s) == BundleCall(TRUE, UnbindGroup(bundler.st, s))

BundleSetVertexBuffer(b) ==
  BundleCall(AdmitsSet(bundler.st.scope, ReadOf(b)), BindVertex(bundler.st, b))

BundleDraw(indirect) ==
  BundleCall(DrawAdmitted(bundler.st, indirect), Draws(bundler.st, indirect))

\* Mutant: the indirect buffers of the bundle's draws are forgotten.
BundleRefs_NoIndirect(st) ==
  UNION {{x.res : x \in Bindings[st.bound.groups[s].group]} :
           s \in {t \in Slots : st.bound.groups[t] # NoResource}}

\* render_bundle_referenced_buffers and render_bundle_referenced_textures
BundleRefs(st) == st.touched

FinishBundle ==
  /\ bundler.life = "recording"
  /\ LET st == bundler.st IN
     bundles' = Append(bundles, [error |-> bundler.error, scope |-> st.scope, drawn |-> st.drawn,
                                 touched |-> st.touched, refs |-> BundleRefs(st)])
  /\ bundler' = NewBundler("finished")
  /\ UNCHANGED <<enc, passes, cb, destroyed>>

Destroy(r) ==
  /\ destroyed' = destroyed \cup {r} /\ r \notin destroyed
  /\ UNCHANGED <<enc, passes, bundler, bundles, cb>>

-----------------------------------------------------------------------------
PassNext(p) ==
  \/ \E pl \in Pipelines : SetPipeline(p, pl)
  \/ \E s \in Slots, b \in Bounds : (b.group \in Dynamic \/ b.offset = 0) /\ SetBindGroup(p, s, b)
  \/ \E s \in Slots : ClearBindGroup(p, s)
  \/ \E b \in Buffers : SetVertexBuffer(p, b)
  \/ \E b \in Buffers \cup {NoResource} : Draw(p, b) \/ Dispatch(p, b)
  \/ \E i \in DOMAIN bundles : ExecuteBundle(p, bundles[i])
  \/ PushPassDebugGroup(p) \/ PopPassDebugGroup(p)
  \/ EndPass(p)

BundleNext ==
  \/ NewBundleEncoder
  \/ \E pl \in Pipelines : BundleSetPipeline(pl)
  \/ \E s \in Slots, b \in Bounds : (b.group \in Dynamic \/ b.offset = 0) /\ BundleSetBindGroup(s, b)
  \/ \E s \in Slots : BundleClearBindGroup(s)
  \/ \E b \in Buffers : BundleSetVertexBuffer(b)
  \/ \E b \in Buffers \cup {NoResource} : BundleDraw(b)
  \/ FinishBundle

EncoderNext ==
  \/ NewEncoder
  \/ \E b \in Buffers, u \in Units, full \in BOOLEAN : CopyBufferToTexture(b, u, full)
  \/ \E b \in Buffers, u \in Units : CopyTextureToBuffer(b, u)
  \/ PushDebugGroup \/ PopDebugGroup
  \/ \E t \in Targets : BeginRenderPass(t)
  \/ BeginComputePass
  \/ \E p \in DOMAIN passes : PassNext(p)
  \/ BundleNext
  \/ \E r \in Resources : Destroy(r)
  \/ Finish

-----------------------------------------------------------------------------
(* Properties                                                              *)

\* Everything the recorded commands of an encoder, its passes and its bundles
\* draw or dispatch.
Drawn ==
  bundler.st.drawn \cup UNION ({bundles[i].drawn : i \in DOMAIN bundles}
    \cup {passes[p].drawn : p \in DOMAIN passes}
    \cup {enc.ops[i].drawn : i \in {j \in DOMAIN enc.ops : enc.ops[j].op \in {"render", "dispatch"}}})

\* Every draw and dispatch that was recorded would pass the whole validation,
\* made afresh on what the replay of the commands before it binds: neither a
\* remembered check nor a bundle lets one through.
\* (pass.rs: validate_pipeline_bind_groups_memoized, set_bind_group)
DrawsValid ==
  \A d \in Drawn :
    /\ d.pipeline # NoResource /\ GroupsValid(d.pipeline, d.groups)
    /\ d.pipeline \in VertexOf => d.vertex # NoResource
=============================================================================
