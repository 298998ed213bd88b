--------------------------- MODULE CommandsProofs ---------------------------
(* What the command encoder records is valid and alive, for every set of   *)
(* resources, groups, pipelines, attachments and bounds.  What the queue   *)
(* lowers from it reads nothing undefined and clears no data: the marks of *)
(* the textures agree with the memory as it will be once the queue writes  *)
(* that wait have run, copy by copy through the folds of the lowering.     *)
EXTENDS Commands, FiniteSetTheorems, TLAPS

\* The folds of the lowering and of the GPU, which are given nothing else (0).
RanFold == INSTANCE Folding WITH Op <- LAMBDA ctx, r, c : Ran(r, c)
LoweredFold == INSTANCE Folding WITH Op <- LAMBDA ctx, acc, op : Lowered(acc, op)
ReadFold == INSTANCE Folding WITH Op <- LAMBDA ctx, acc, u : ReadFirst(acc, u)
MipFold == INSTANCE Folding WITH Op <- LAMBDA ctx, acc, a : MipCleared(acc, a)
StoredFold == INSTANCE Folding WITH Op <- LAMBDA ctx, marks, a : Stored(marks, a)

-----------------------------------------------------------------------------
(* Types                                                                   *)

Uses == [res : Resources, access : Accesses, parts : SUBSET Parts]

\* What a pass has bound, and what a recorded draw was made with.
Binds == [pipeline : Pipelines \cup {NoResource},
          groups : [Slots -> Bounds \cup {NoResource}],
          vertex : Buffers \cup {NoResource}]

\* What DrawsValid asks of a draw.
DrawValid(d) ==
  /\ d.pipeline # NoResource /\ GroupsValid(d.pipeline, d.groups)
  /\ d.pipeline \in VertexOf => d.vertex # NoResource

\* The resources of the groups in S that are bound by d.
GroupResources(d) ==
  UNION {{x.res : x \in Bindings[d.groups[s].group]} : s \in {t \in Slots : d.groups[t] # NoResource}}

ValidDraws == {d \in Binds : DrawValid(d)}

RawPass ==
  [kind : {"render", "compute"}, ended : BOOLEAN, depth : Nat, bound : Binds,
   compatDirty : BOOLEAN, aliasDirty : BOOLEAN, scope : SUBSET Uses,
   targets : Targets \cup {<<>>}, replay : Binds, drawn : SUBSET ValidDraws,
   touched : SUBSET Resources]

\* A check that is not dirty still holds of what is bound, and the replay of
\* the recorded commands binds the same.
Remembers(st) ==
  /\ st.replay = st.bound
  /\ ~st.compatDirty => /\ st.bound.pipeline # NoResource
                        /\ GroupsFit(st.bound.pipeline, st.bound.groups)
  /\ ~st.aliasDirty => NoAliasing(st.bound.pipeline, st.bound.groups)

\* Whatever a pass has bound or drawn with, it has touched.
Touches(st) ==
  /\ GroupResources(st.bound) \subseteq st.touched
  /\ \A d \in st.drawn : GroupResources(d) \subseteq st.touched

PassStates == {st \in RawPass : st.ended \/ (Remembers(st) /\ Touches(st))}

BundleStates ==
  {b \in [error : BOOLEAN, scope : SUBSET Uses, drawn : SUBSET ValidDraws,
          touched : SUBSET Resources, refs : SUBSET Resources] :
     /\ b.touched = b.refs
     /\ \A d \in b.drawn : GroupResources(d) \subseteq b.touched}

CopyOps == [op : {"in", "out"}, buffer : Buffers, unit : Units, full : BOOLEAN]
RenderOps == [op : {"render"}, targets : Targets, drawn : SUBSET ValidDraws,
              touched : SUBSET Resources]
DispatchOps == [op : {"dispatch"}, drawn : SUBSET ValidDraws,
                indirect : Buffers \cup {NoResource}]
Op == CopyOps \cup RenderOps \cup DispatchOps
OpLists == Seq(Op)

EncTypes ==
  [life : {"recording", "finished"}, made : Nat, open : Nat, error : BOOLEAN,
   depth : Nat, refs : SUBSET Resources, ops : OpLists, calls : Nat]

BundlerTypes ==
  [life : {"recording", "finished"}, error : BOOLEAN, calls : Nat,
   st : {st \in PassStates : ~st.ended}]

CbTypes ==
  [life : {"none", "ready", "submitted"}, error : BOOLEAN, ops : OpLists,
   refs : SUBSET Resources]

-----------------------------------------------------------------------------
(* What each call does to the state of a pass                              *)

\* A pass that may still take calls.
Live == {st \in PassStates : ~st.ended}

\* Setting a pipeline dirties both checks, or binds the same one again.
LEMMA PipelineKept ==
  ASSUME NEW st \in Live, NEW p \in Pipelines
  PROVE  BindPipeline(st, p) \in Live
<1> DEFINE new == BindPipeline(st, p)
<1>1. new \in RawPass /\ ~new.ended
  BY DEF Live, PassStates, RawPass, Binds, BindPipeline
<1>2. Remembers(new)
  BY DEF Live, PassStates, RawPass, Binds, BindPipeline, Remembers
<1>3. Touches(new)
  BY DEF Live, PassStates, RawPass, Binds, BindPipeline, Touches, GroupResources
<1>4. QED
  BY <1>1, <1>2, <1>3 DEF Live, PassStates

\* Another group dirties both checks, another offset the one about aliasing.
LEMMA GroupKept ==
  ASSUME NEW st \in Live, NEW s \in Slots, NEW b \in Bounds
  PROVE  BindGroup(st, s, b) \in Live
<1> DEFINE new == BindGroup(st, s, b)
<1> DEFINE old == st.bound.groups[s]
           other == old = NoResource \/ (old # NoResource /\ old.group # b.group)
<1>a. /\ st \in RawPass /\ st.bound \in Binds /\ st.replay \in Binds /\ ~st.ended
      /\ Remembers(st) /\ Touches(st)
  BY DEF Live, PassStates, RawPass
<1>b. {x.res : x \in Bindings[b.group]} \subseteq Resources
  BY ConstantsOK DEF Bounds
<1>c. /\ new.bound = [st.bound EXCEPT !.groups[s] = b]
      /\ new.replay = [st.replay EXCEPT !.groups[s] = b]
      /\ new.touched = st.touched \cup {x.res : x \in Bindings[b.group]}
      /\ new.drawn = st.drawn /\ new.ended = st.ended
      /\ new.compatDirty = (st.compatDirty \/ other)
      /\ new.aliasDirty = (st.aliasDirty \/ old # b)
  BY <1>a DEF RawPass, BindGroup
<1>1. new \in RawPass /\ ~new.ended
  BY <1>a, <1>b DEF RawPass, Binds, BindGroup
<1>2. Remembers(new)
  <2>1. new.replay = new.bound
    BY <1>a, <1>c DEF Remembers
  <2>2. ~other /\ GroupsFit(st.bound.pipeline, st.bound.groups)
          => GroupsFit(new.bound.pipeline, new.bound.groups)
    BY <1>a, <1>c, ConstantsOK DEF GroupsFit, Binds, Needed
  <2>3. ~new.compatDirty => /\ new.bound.pipeline # NoResource
                            /\ GroupsFit(new.bound.pipeline, new.bound.groups)
    BY <1>a, <1>c, <2>2 DEF Remembers, Binds
  <2>4. old = b => new.bound = st.bound
    BY <1>a, <1>c DEF Binds
  <2>5. ~new.aliasDirty => NoAliasing(new.bound.pipeline, new.bound.groups)
    BY <1>a, <1>c, <2>4 DEF Remembers
  <2>6. QED
    BY <2>1, <2>3, <2>5 DEF Remembers
<1>3. Touches(new)
  BY <1>a, <1>c DEF Binds, Touches, GroupResources
<1>4. QED
  BY <1>1, <1>2, <1>3 DEF Live, PassStates

LEMMA UnbindKept ==
  ASSUME NEW st \in Live, NEW s \in Slots
  PROVE  UnbindGroup(st, s) \in Live
<1> DEFINE new == UnbindGroup(st, s)
           other == st.bound.groups[s] # NoResource
<1>a. /\ st \in RawPass /\ st.bound \in Binds /\ st.replay \in Binds /\ ~st.ended
      /\ Remembers(st) /\ Touches(st)
  BY DEF Live, PassStates, RawPass
<1>c. /\ new.bound = [st.bound EXCEPT !.groups[s] = NoResource]
      /\ new.replay = [st.replay EXCEPT !.groups[s] = NoResource]
      /\ new.touched = st.touched
      /\ new.drawn = st.drawn /\ new.ended = st.ended
      /\ new.compatDirty = (st.compatDirty \/ other)
      /\ new.aliasDirty = (st.aliasDirty \/ other)
  BY <1>a DEF RawPass, UnbindGroup
<1>1. new \in RawPass /\ ~new.ended
  BY <1>a DEF RawPass, Binds, UnbindGroup
<1>2. Remembers(new)
  <2>1. new.replay = new.bound
    BY <1>a, <1>c DEF Remembers
  <2>2. ~other => new.bound = st.bound
    BY <1>a, <1>c DEF Binds
  <2>3. QED
    BY <1>a, <1>c, <2>1, <2>2 DEF Remembers
<1>3. Touches(new)
  BY <1>a, <1>c DEF Binds, Touches, GroupResources
<1>4. QED
  BY <1>1, <1>2, <1>3 DEF Live, PassStates

LEMMA VertexKept ==
  ASSUME NEW st \in Live, NEW b \in Buffers
  PROVE  BindVertex(st, b) \in Live
<1> DEFINE new == BindVertex(st, b)
<1>a. /\ st \in RawPass /\ st.bound \in Binds /\ st.replay \in Binds /\ ~st.ended
      /\ Remembers(st) /\ Touches(st)
  BY DEF Live, PassStates, RawPass
<1>b. ReadOf(b) \subseteq Uses
  BY DEF ReadOf, UseOf, Uses, Resources, Accesses
<1>c. /\ new.bound = [st.bound EXCEPT !.vertex = b]
      /\ new.replay = [st.replay EXCEPT !.vertex = b]
      /\ new.touched = st.touched \cup {b}
      /\ new.drawn = st.drawn /\ new.ended = st.ended
      /\ new.compatDirty = st.compatDirty /\ new.aliasDirty = st.aliasDirty
  BY <1>a DEF RawPass, BindVertex
<1>1. new \in RawPass /\ ~new.ended
  BY <1>a, <1>b DEF RawPass, Binds, BindVertex, Resources
<1>2. new.bound.pipeline = st.bound.pipeline /\ new.bound.groups = st.bound.groups
  BY <1>a, <1>c DEF Binds
<1>3. Remembers(new)
  BY <1>a, <1>c, <1>2 DEF Remembers
<1>4. Touches(new)
  BY <1>a, <1>c, <1>2 DEF Touches, GroupResources
<1>5. QED
  BY <1>1, <1>3, <1>4 DEF Live, PassStates

LEMMA GroupUsesTyped ==
  ASSUME NEW b \in Bounds
  PROVE  GroupUses(b) \subseteq Uses
BY ConstantsOK DEF GroupUses, UseOf, Uses, Bounds, Accesses

LEMMA ReadOfTyped ==
  ASSUME NEW b \in Buffers \cup {NoResource}
  PROVE  ReadOf(b) \subseteq Uses
BY DEF ReadOf, UseOf, Uses, Resources, Accesses

LEMMA ScopeKept ==
  ASSUME NEW st \in Live, NEW U \in SUBSET Uses
  PROVE  [st EXCEPT !.scope = @ \cup U] \in Live
<1> DEFINE new == [st EXCEPT !.scope = @ \cup U]
<1>a. st \in RawPass /\ ~st.ended /\ Remembers(st) /\ Touches(st)
  BY DEF Live, PassStates
<1>b. /\ new.bound = st.bound /\ new.replay = st.replay /\ new.touched = st.touched
      /\ new.drawn = st.drawn /\ new.ended = st.ended
      /\ new.compatDirty = st.compatDirty /\ new.aliasDirty = st.aliasDirty
  BY <1>a DEF RawPass
<1>1. new \in RawPass /\ ~new.ended
  BY <1>a DEF RawPass
<1>2. Remembers(new) /\ Touches(new)
  BY <1>a, <1>b DEF Remembers, Touches
<1>3. QED
  BY <1>1, <1>2 DEF Live, PassStates

LEMMA DepthKept ==
  ASSUME NEW st \in Live, NEW n \in Nat
  PROVE  [st EXCEPT !.depth = n] \in Live
<1> DEFINE new == [st EXCEPT !.depth = n]
<1>a. st \in RawPass /\ ~st.ended /\ Remembers(st) /\ Touches(st)
  BY DEF Live, PassStates
<1>b. /\ new.bound = st.bound /\ new.replay = st.replay /\ new.touched = st.touched
      /\ new.drawn = st.drawn /\ new.ended = st.ended
      /\ new.compatDirty = st.compatDirty /\ new.aliasDirty = st.aliasDirty
  BY <1>a DEF RawPass
<1>1. new \in RawPass /\ ~new.ended
  BY <1>a DEF RawPass
<1>2. Remembers(new) /\ Touches(new)
  BY <1>a, <1>b DEF Remembers, Touches
<1>3. QED
  BY <1>1, <1>2 DEF Live, PassStates

\* What the remembered checks leave out still holds: a draw that is let through
\* is valid, and the checks it settles may be remembered.
LEMMA DrawIsValid ==
  ASSUME NEW st \in Live, DrawReady(st)
  PROVE  /\ st.bound \in ValidDraws /\ st.replay \in ValidDraws
         /\ Settle(st) \in Live
<1>a. /\ st \in RawPass /\ st.bound \in Binds /\ ~st.ended
      /\ Remembers(st) /\ Touches(st)
  BY DEF Live, PassStates, RawPass
<1>1. GroupsValid(st.bound.pipeline, st.bound.groups)
  BY <1>a DEF DrawReady, MemoAccepts, Remembers, GroupsValid
<1>2. st.bound \in ValidDraws
  BY <1>a, <1>1 DEF ValidDraws, DrawValid, DrawReady
<1>3. Settle(st) \in RawPass /\ ~Settle(st).ended
  BY <1>a DEF RawPass, Settle
<1>4. /\ Settle(st).bound = st.bound /\ Settle(st).replay = st.replay
      /\ Settle(st).drawn = st.drawn /\ Settle(st).touched = st.touched
  BY <1>a DEF RawPass, Settle
<1>5. Remembers(Settle(st))
  BY <1>a, <1>1, <1>4 DEF Remembers, GroupsValid, DrawReady
<1>6. Touches(Settle(st))
  BY <1>a, <1>4 DEF Touches
<1>7. st.replay \in ValidDraws
  BY <1>a, <1>2 DEF Remembers
<1>8. QED
  BY <1>2, <1>3, <1>5, <1>6, <1>7 DEF Live, PassStates

LEMMA DrawsKept ==
  ASSUME NEW st \in Live, DrawReady(st), NEW b \in Buffers \cup {NoResource}
  PROVE  Draws(st, b) \in Live
<1> DEFINE old == Settle(st)
           new == Draws(st, b)
           more == IF b = NoResource THEN {} ELSE {b}
<1>a. old \in RawPass /\ ~old.ended /\ Remembers(old) /\ Touches(old)
  BY DrawIsValid DEF Live, PassStates
<1>b. ReadOf(b) \subseteq Uses /\ more \subseteq Resources
  BY ReadOfTyped DEF Resources
<1>c. old.replay = st.replay /\ st.replay \in ValidDraws
  BY DrawIsValid DEF Settle, Live, PassStates, RawPass
<1>d. new = [old EXCEPT !.scope = @ \cup ReadOf(b), !.drawn = @ \cup {st.replay},
                        !.touched = @ \cup more]
  BY DEF Draws
<1> HIDE DEF old, new, more
<1>e. /\ new.bound = old.bound /\ new.replay = old.replay
      /\ new.touched = old.touched \cup more
      /\ new.drawn = old.drawn \cup {st.replay} /\ new.ended = old.ended
      /\ new.compatDirty = old.compatDirty /\ new.aliasDirty = old.aliasDirty
  BY <1>a, <1>d DEF RawPass
<1>1. new \in RawPass /\ ~new.ended
  BY <1>a, <1>b, <1>c, <1>d DEF RawPass
<1>2. Remembers(new)
  BY <1>a, <1>e DEF Remembers
<1>3. Touches(new)
  BY <1>a, <1>c, <1>e DEF Touches, Remembers
<1>4. QED
  BY <1>1, <1>2, <1>3 DEF Live, PassStates, new

LEMMA UnboundTyped == Unbound \in Binds /\ GroupResources(Unbound) = {}
BY DEF Unbound, NoGroups, Binds, GroupResources

\* A bundle leaves nothing bound, and both checks dirty.
LEMMA ReplayedKept ==
  ASSUME NEW st \in Live, NEW b \in BundleStates
  PROVE  Replayed(st, b) \in Live
<1> DEFINE new == Replayed(st, b)
<1>a. st \in RawPass /\ ~st.ended /\ Remembers(st) /\ Touches(st)
  BY DEF Live, PassStates
<1>b. /\ b.scope \subseteq Uses /\ b.drawn \subseteq ValidDraws /\ b.touched \subseteq Resources
      /\ \A d \in b.drawn : GroupResources(d) \subseteq b.touched
  BY DEF BundleStates
<1>c. /\ new.bound = Unbound /\ new.replay = Unbound
      /\ new.touched = st.touched \cup b.touched
      /\ new.drawn = st.drawn \cup b.drawn /\ new.ended = st.ended
      /\ new.compatDirty = TRUE /\ new.aliasDirty = TRUE
  BY <1>a DEF RawPass, Replayed, ClearState
<1>1. new \in RawPass /\ ~new.ended
  BY <1>a, <1>b, UnboundTyped DEF RawPass, Replayed, ClearState
<1>2. Remembers(new)
  BY <1>c DEF Remembers
<1>3. Touches(new)
  BY <1>a, <1>b, <1>c, UnboundTyped DEF Touches
<1>4. QED
  BY <1>1, <1>2, <1>3 DEF Live, PassStates

LEMMA NewPassKept ==
  ASSUME NEW kind \in {"render", "compute"}, NEW targets \in Targets \cup {<<>>}
  PROVE  NewPass(kind, targets) \in Live
<1> DEFINE new == NewPass(kind, targets)
<1>1. new \in RawPass /\ ~new.ended
  BY UnboundTyped DEF RawPass, NewPass
<1>2. Remembers(new) /\ Touches(new)
  BY UnboundTyped DEF Remembers, Touches, NewPass
<1>3. QED
  BY <1>1, <1>2 DEF Live, PassStates

LEMMA AttachmentsTyped ==
  ASSUME NEW targets \in Targets
  PROVE  TargetUnits(targets) \subseteq Units /\ AttachUses(targets) \subseteq Uses
<1> DEFINE T == [unit : Units, parts : SUBSET Parts, load : Loads, store : BOOLEAN]
<1>1. targets \in Seq(T)
  BY ConstantsOK
<1>a. \A x \in T : x.unit \in Units /\ x.parts \subseteq Parts
  OBVIOUS
<1> HIDE DEF T
<1>b. \A i \in DOMAIN targets : targets[i] \in T
  BY <1>1
<1>2. \A i \in DOMAIN targets : targets[i].unit \in Units /\ targets[i].parts \subseteq Parts
  BY <1>a, <1>b
<1>3. TargetUnits(targets) \subseteq Units
  BY <1>2 DEF TargetUnits
<1>4. \A i \in DOMAIN targets : UseOf(targets[i].unit, "attach", targets[i].parts) \in Uses
  BY <1>2 DEF UseOf, Uses, Resources, Accesses
<1>5. QED
  BY <1>3, <1>4 DEF AttachUses

LEMMA EndedKept ==
  ASSUME NEW st \in Live
  PROVE  ClearEnded(st) \in PassStates /\ ClearEnded(st).ended
<1>1. st \in RawPass
  BY DEF Live, PassStates
<1>2. ClearEnded(st) \in RawPass /\ ClearEnded(st).ended
  BY <1>1, UnboundTyped DEF RawPass, ClearEnded, NewPass
<1>3. QED
  BY <1>2 DEF PassStates

-----------------------------------------------------------------------------
(* The inductive invariant                                                 *)

\* The resources of an operation that submit finds in the command itself.
OwnUnits(op) == IF op.op = "render" THEN TargetUnits(op.targets)
                ELSE IF op.op = "dispatch" THEN {} ELSE {op.unit}

\* Everything a recorded operation uses is referenced.
OpsReferenced(ops, refs) ==
  \A i \in DOMAIN ops : UsedBy(ops[i]) \subseteq refs \cup OwnUnits(ops[i])

TypesInv ==
  /\ enc \in EncTypes /\ passes \in Seq(PassStates) /\ bundler \in BundlerTypes
  /\ bundles \in Seq(BundleStates) /\ cb \in CbTypes /\ destroyed \subseteq Resources

\* A finished encoder has no passes; as long as an encoder has no error, what
\* its passes have touched is referenced.
PassesInv ==
  /\ enc.life = "finished" => passes = <<>>
  /\ ~enc.error =>
       \A p \in DOMAIN passes : ~passes[p].ended =>
         passes[p].touched \cup TargetUnits(passes[p].targets) \subseteq enc.refs

RefsInv ==
  /\ ~enc.error => OpsReferenced(enc.ops, enc.refs)
  /\ OpsReferenced(cb.ops, cb.refs)

CommandsInv == TypesInv /\ PassesInv /\ RefsInv

-----------------------------------------------------------------------------
(* Steps that leave the recording alone                                    *)

\* Nothing of the invariant speaks of textures, writes or submissions.
LEMMA RecordingStutters ==
  ASSUME CommandsInv, UNCHANGED <<enc, passes, bundler, bundles, cb>>, destroyed' \subseteq Resources
  PROVE  CommandsInv'
BY DEF CommandsInv, TypesInv, PassesInv, RefsInv, OpsReferenced, UsedBy, OwnUnits

LEMMA Submitting ==
  ASSUME CommandsInv, Submitted, UNCHANGED <<enc, passes, bundler, bundles, destroyed>>
  PROVE  CommandsInv'
<1>1. cb' = [NoCommandBuffer EXCEPT !.life = "submitted"]
  BY DEF Submitted
<1>a. cb' = [life |-> "submitted", error |-> FALSE, ops |-> <<>>, refs |-> {}]
  BY <1>1 DEF NoCommandBuffer
<1>b. <<>> \in OpLists
  BY DEF OpLists
<1>2. cb' \in CbTypes /\ cb'.ops = <<>>
  BY <1>a, <1>b DEF CbTypes
<1>3. OpsReferenced(cb'.ops, cb'.refs)
  BY <1>2 DEF OpsReferenced
<1>4. QED
  BY <1>2, <1>3 DEF CommandsInv, TypesInv, PassesInv, RefsInv, OpsReferenced, UsedBy, OwnUnits

-----------------------------------------------------------------------------
(* Calls on the encoder                                                    *)

\* An operation that is referenced may be appended, with its references.
LEMMA Appended ==
  ASSUME NEW ops \in OpLists, NEW op \in Op, NEW refs, NEW more,
         OpsReferenced(ops, refs), UsedBy(op) \subseteq more \cup refs \cup OwnUnits(op)
  PROVE  Append(ops, op) \in OpLists /\ OpsReferenced(Append(ops, op), refs \cup more)
<1>1. /\ Append(ops, op) \in Seq(Op) /\ DOMAIN Append(ops, op) = 1..(Len(ops) + 1)
      /\ \A i \in 1..Len(ops) : Append(ops, op)[i] = ops[i]
      /\ Append(ops, op)[Len(ops) + 1] = op
      /\ DOMAIN ops = 1..Len(ops) /\ Len(ops) \in Nat
  BY DEF OpLists
<1>2. \A i \in 1..Len(ops) :
        UsedBy(Append(ops, op)[i]) \subseteq (refs \cup more) \cup OwnUnits(Append(ops, op)[i])
  BY <1>1 DEF OpsReferenced
<1>3. QED
  BY <1>1, <1>2 DEF OpsReferenced, OpLists

LEMMA Widened ==
  ASSUME NEW ops, NEW refs, NEW more, OpsReferenced(ops, refs)
  PROVE  OpsReferenced(ops, refs \cup more)
BY DEF OpsReferenced

\* A call counts itself and nothing else.
LEMMA CalledKept ==
  ASSUME NEW e \in EncTypes
  PROVE  /\ Called(e) \in EncTypes
         /\ Called(e).life = e.life /\ Called(e).made = e.made /\ Called(e).open = e.open
         /\ Called(e).error = e.error /\ Called(e).depth = e.depth
         /\ Called(e).refs = e.refs /\ Called(e).ops = e.ops
<1>1. e.calls + 1 \in Nat
  BY DEF EncTypes
<1>2. QED
  BY <1>1 DEF EncTypes, Called

LEMMA FailedKept ==
  ASSUME NEW e \in EncTypes, NEW refs \in SUBSET Resources
  PROVE  /\ Failed(e) \in EncTypes /\ Failed(e).error /\ Failed(e).life = e.life
         /\ [Failed(e) EXCEPT !.refs = @ \cup refs] \in EncTypes
         /\ [Failed(e) EXCEPT !.refs = @ \cup refs].error
         /\ [Failed(e) EXCEPT !.refs = @ \cup refs].life = e.life
<1>a. Called(e) \in EncTypes /\ Called(e).life = e.life
  BY CalledKept
<1>1. Failed(e) \in EncTypes /\ Failed(e).error /\ Failed(e).life = e.life
  BY <1>a DEF EncTypes, Failed
<1>2. QED
  BY <1>1 DEF EncTypes

\* Once the encoder has an error, only the types matter.
LEMMA Errored ==
  ASSUME CommandsInv, enc' \in EncTypes, enc'.error, enc'.life = "recording",
         UNCHANGED <<passes, bundler, bundles, cb, destroyed>>
  PROVE  CommandsInv'
<1>1. TypesInv'
  BY DEF CommandsInv, TypesInv
<1>2. PassesInv'
  BY DEF PassesInv
<1>3. RefsInv'
  BY DEF CommandsInv, RefsInv, OpsReferenced, UsedBy, OwnUnits
<1>4. QED
  BY <1>1, <1>2, <1>3 DEF CommandsInv

\* A call that is not refused may add references and change open passes, as
\* long as these stay live and referenced.
LEMMA Continued ==
  ASSUME CommandsInv, enc' \in EncTypes, enc'.life = "recording", passes' \in Seq(PassStates),
         OpsReferenced(enc'.ops, enc'.refs),
         \A p \in DOMAIN passes' : ~passes'[p].ended =>
           passes'[p].touched \cup TargetUnits(passes'[p].targets) \subseteq enc'.refs,
         UNCHANGED <<bundler, bundles, cb, destroyed>>
  PROVE  CommandsInv'
<1>1. TypesInv'
  BY DEF CommandsInv, TypesInv
<1>2. PassesInv'
  BY DEF PassesInv
<1>3. RefsInv'
  BY DEF CommandsInv, RefsInv, OpsReferenced, UsedBy, OwnUnits
<1>4. QED
  BY <1>1, <1>2, <1>3 DEF CommandsInv

\* What the invariant says of an encoder that may be called.
LEMMA Callable ==
  ASSUME CommandsInv, MayCall
  PROVE  /\ enc \in EncTypes /\ enc.life = "recording" /\ ~enc.error
         /\ passes \in Seq(PassStates) /\ OpsReferenced(enc.ops, enc.refs)
         /\ enc.ops \in OpLists /\ enc.refs \in SUBSET Resources
         /\ \A p \in DOMAIN passes : ~passes[p].ended =>
              passes[p].touched \cup TargetUnits(passes[p].targets) \subseteq enc.refs
<1>1. enc \in EncTypes /\ passes \in Seq(PassStates)
  BY DEF CommandsInv, TypesInv
<1>2. enc.life = "recording" /\ ~enc.error
  BY DEF MayCall
<1>3. OpsReferenced(enc.ops, enc.refs)
  BY <1>2 DEF CommandsInv, RefsInv
<1>4. \A p \in DOMAIN passes : ~passes[p].ended =>
        passes[p].touched \cup TargetUnits(passes[p].targets) \subseteq enc.refs
  BY <1>2 DEF CommandsInv, PassesInv
<1>5. enc.ops \in OpLists /\ enc.refs \in SUBSET Resources
  BY <1>1 DEF EncTypes
<1>6. QED
  BY <1>1, <1>2, <1>3, <1>4, <1>5

\* What a draw needs, as UsedBy finds it.
NeededResources(d) ==
  UNION {{x.res : x \in Bindings[d.groups[s].group]} : s \in Needed(d.pipeline)}

LEMMA NeededBound ==
  ASSUME NEW d \in ValidDraws
  PROVE  NeededResources(d) \subseteq GroupResources(d)
<1>1. /\ d.pipeline \in Pipelines
      /\ \A s \in Needed(d.pipeline) : s \in Slots /\ d.groups[s] # NoResource
  BY ConstantsOK DEF ValidDraws, DrawValid, Binds, GroupsValid, GroupsFit, Needed
<1>2. QED
  BY <1>1 DEF NeededResources, GroupResources

\* A command uses no more than its draws need, and what it names itself.
LEMMA UsedWithin ==
  ASSUME NEW op, NEW S, op.op \in {"render", "dispatch"},
         \A d \in op.drawn : NeededResources(d) \subseteq S,
         op.op = "render" => op.touched \cup TargetUnits(op.targets) \subseteq S,
         op.op = "dispatch" => {op.indirect} \ {NoResource} \subseteq S
  PROVE  UsedBy(op) \subseteq S
<1> DEFINE needed == UNION {NeededResources(d) : d \in op.drawn}
           own == IF op.op = "render" THEN op.touched \cup TargetUnits(op.targets)
                  ELSE {op.indirect} \ {NoResource}
<1>1. UsedBy(op) = own \cup needed
  BY DEF UsedBy, NeededResources
<1>2. needed \subseteq S
  OBVIOUS
<1>3. own \subseteq S
  OBVIOUS
<1> HIDE DEF needed, own
<1>4. QED
  BY <1>1, <1>2, <1>3

\* What a call makes of the encoder when it records a command.
Recorded(e, op, refs) == [Called(e) EXCEPT !.ops = Append(@, op), !.refs = @ \cup refs]

\* What is recorded with its references leaves the list referenced.
LEMMA Extended ==
  ASSUME NEW e \in EncTypes, NEW op \in Op, NEW refs \in SUBSET Resources,
         OpsReferenced(e.ops, e.refs), UsedBy(op) \subseteq refs \cup e.refs \cup OwnUnits(op)
  PROVE  /\ Recorded(e, op, refs) \in EncTypes /\ Recorded(e, op, refs).life = e.life
         /\ OpsReferenced(Recorded(e, op, refs).ops, Recorded(e, op, refs).refs)
         /\ Recorded(e, op, refs).refs = e.refs \cup refs
<1> DEFINE c == Called(e)
           new == [c EXCEPT !.ops = Append(@, op), !.refs = @ \cup refs]
<1>1. c \in EncTypes /\ c.ops = e.ops /\ c.refs = e.refs /\ c.life = e.life
  BY CalledKept
<1> HIDE DEF c
<1>2. e.ops \in OpLists
  BY DEF EncTypes
<1>3. Append(e.ops, op) \in OpLists /\ OpsReferenced(Append(e.ops, op), e.refs \cup refs)
  BY <1>2, Appended
<1>4. new \in EncTypes
  BY <1>1, <1>3 DEF EncTypes
<1>5. new.ops = Append(e.ops, op) /\ new.refs = e.refs \cup refs /\ new.life = e.life
  BY <1>1 DEF EncTypes
<1>6. new = Recorded(e, op, refs)
  BY DEF Recorded, c
<1> HIDE DEF new
<1>7. QED
  BY <1>3, <1>4, <1>5, <1>6

LEMMA RecordKept ==
  ASSUME CommandsInv, NEW op \in Op, NEW refs \in SUBSET Resources,
         UsedBy(op) \subseteq refs \cup OwnUnits(op), Record(op, refs)
  PROVE  CommandsInv'
<1>a. MayCall /\ UNCHANGED <<passes, bundler, bundles, cb, destroyed>>
  BY DEF Record
<1>b. /\ enc \in EncTypes /\ enc.life = "recording" /\ OpsReferenced(enc.ops, enc.refs)
      /\ passes \in Seq(PassStates)
  BY <1>a, Callable
<1>1. CASE enc.open # 0
  <2>1. enc' = Failed(enc)
    BY <1>1 DEF Record
  <2>2. QED
    BY <1>a, <1>b, <2>1, FailedKept, Errored
<1>2. CASE enc.open = 0
  <2>1. enc' = Recorded(enc, op, refs)
    BY <1>2 DEF Record, Recorded
  <2>2. UsedBy(op) \subseteq refs \cup enc.refs \cup OwnUnits(op)
    OBVIOUS
  <2>3. /\ enc' \in EncTypes /\ enc'.life = enc.life /\ OpsReferenced(enc'.ops, enc'.refs)
        /\ enc'.refs = enc.refs \cup refs
    BY <1>b, <2>1, <2>2, Extended
  <2>4. \A p \in DOMAIN passes' : ~passes'[p].ended =>
           passes'[p].touched \cup TargetUnits(passes'[p].targets) \subseteq enc'.refs
    BY <1>a, <2>3, Callable
  <2>5. QED
    BY <1>a, <1>b, <2>3, <2>4, Continued
<1>3. QED
  BY <1>1, <1>2

LEMMA CopyKept ==
  ASSUME CommandsInv, NEW b \in Buffers, NEW u \in Units, NEW full \in BOOLEAN,
         CopyBufferToTexture(b, u, full) \/ CopyTextureToBuffer(b, u)
  PROVE  CommandsInv'
<1>1. ASSUME NEW dir \in {"in", "out"}, NEW f \in BOOLEAN, Record(CopyOp(dir, b, u, f), {b})
      PROVE  CommandsInv'
  <2> DEFINE op == CopyOp(dir, b, u, f)
  <2>1. op \in Op /\ {b} \in SUBSET Resources
    BY DEF Op, CopyOps, CopyOp, Resources
  <2>2. UsedBy(op) \subseteq {b} \cup OwnUnits(op)
    BY DEF CopyOp, UsedBy, OwnUnits
  <2>3. Record(op, {b})
    BY <1>1
  <2> HIDE DEF op
  <2>4. QED
    BY <2>1, <2>2, <2>3, RecordKept
<1>2. QED
  BY <1>1 DEF CopyBufferToTexture, CopyTextureToBuffer

\* A call that only counts itself, or changes the depth of debug groups.
LEMMA DebugKept ==
  ASSUME CommandsInv, PushDebugGroup \/ PopDebugGroup
  PROVE  CommandsInv'
<1>a. MayCall /\ UNCHANGED <<passes, bundler, bundles, cb, destroyed>>
  BY DEF PushDebugGroup, PopDebugGroup
<1>b. /\ Called(enc) \in EncTypes /\ Called(enc).ops = enc.ops /\ Called(enc).refs = enc.refs
      /\ Called(enc).depth = enc.depth /\ Called(enc).life = "recording"
  BY <1>a, Callable, CalledKept
<1>1. CASE enc' = Failed(enc)
  BY <1>a, <1>1, Callable, FailedKept, Errored
<1>2. ASSUME NEW n \in Nat, enc' = [Called(enc) EXCEPT !.depth = n]
      PROVE  CommandsInv'
  <2>1. /\ enc' \in EncTypes /\ enc'.ops = enc.ops /\ enc'.refs = enc.refs
        /\ enc'.life = "recording"
    BY <1>b, <1>2 DEF EncTypes
  <2>2. QED
    BY <1>a, <2>1, Callable, Continued
<1>3. enc' = Failed(enc) \/ \E n \in Nat : enc' = [Called(enc) EXCEPT !.depth = n]
  <2>1. Called(enc).depth \in Nat /\ enc.depth \in Nat
    BY <1>b DEF EncTypes
  <2>2. CASE PushDebugGroup
    <3>1. Called(enc).depth + 1 \in Nat
      BY <2>1
    <3>2. enc' = Failed(enc) \/ enc' = [Called(enc) EXCEPT !.depth = Called(enc).depth + 1]
      BY <2>2 DEF PushDebugGroup
    <3>3. QED
      BY <3>1, <3>2
  <2>3. CASE PopDebugGroup
    <3>1. enc' = Failed(enc) \/ (enc.depth # 0 /\ enc' = [Called(enc) EXCEPT !.depth = Called(enc).depth - 1])
      BY <2>3 DEF PopDebugGroup
    <3>2. enc.depth # 0 => Called(enc).depth - 1 \in Nat
      BY <1>b, <2>1
    <3>3. QED
      BY <3>1, <3>2
  <2>4. QED
    BY <2>2, <2>3
<1>4. QED
  BY <1>1, <1>2, <1>3

\* A pass that is begun refers to its attachments.
LEMMA BeginKept ==
  ASSUME CommandsInv, NEW st \in Live, st.touched = {},
         NEW refs \in SUBSET Resources, TargetUnits(st.targets) = refs,
         NEW admitted \in BOOLEAN, Begin(st, refs, admitted)
  PROVE  CommandsInv'
<1>a. MayCall /\ UNCHANGED <<bundler, bundles, cb, destroyed>> /\ passes' = Append(passes, st)
  BY DEF Begin
<1>b. st \in PassStates /\ passes \in Seq(PassStates)
  BY <1>a, Callable DEF Live
<1>c. /\ passes' \in Seq(PassStates) /\ DOMAIN passes' = DOMAIN passes \cup {Len(passes) + 1}
      /\ passes'[Len(passes) + 1] = st /\ \A p \in DOMAIN passes : passes'[p] = passes[p]
  BY <1>a, <1>b
<1>1. CASE enc.open # 0
  <2>1. enc' = Failed(enc)
    BY <1>1 DEF Begin
  <2>2. enc' \in EncTypes /\ enc'.error /\ enc'.life = "recording"
    BY <1>a, <2>1, Callable, FailedKept
  <2>3. TypesInv' /\ PassesInv'
    BY <1>a, <1>c, <2>2 DEF CommandsInv, TypesInv, PassesInv
  <2>4. RefsInv'
    BY <1>a, <2>2 DEF CommandsInv, RefsInv, OpsReferenced, UsedBy, OwnUnits
  <2>5. QED
    BY <2>3, <2>4 DEF CommandsInv
<1>2. CASE enc.open = 0
  <2> DEFINE called == IF admitted THEN Called(enc) ELSE Failed(enc)
  <2>1. enc' = [called EXCEPT !.open = Len(passes) + 1, !.refs = @ \cup refs]
    BY <1>2 DEF Begin
  <2>2. /\ called \in EncTypes /\ called.ops = enc.ops
        /\ called.refs = enc.refs /\ called.life = "recording"
    <3>1. /\ Called(enc) \in EncTypes /\ Called(enc).ops = enc.ops
          /\ Called(enc).refs = enc.refs /\ Called(enc).life = "recording"
      BY <1>a, Callable, CalledKept
    <3>2. /\ Failed(enc) \in EncTypes /\ Failed(enc).ops = enc.ops
          /\ Failed(enc).refs = enc.refs /\ Failed(enc).life = "recording"
      BY <3>1 DEF EncTypes, Failed
    <3>3. QED
      BY <3>1, <3>2
  <2> HIDE DEF called
  <2>3. Len(passes) + 1 \in Nat
    BY <1>b
  <2>4. /\ enc' \in EncTypes /\ enc'.ops = enc.ops /\ enc'.refs = enc.refs \cup refs
        /\ enc'.life = "recording"
    BY <2>1, <2>2, <2>3 DEF EncTypes
  <2>5. OpsReferenced(enc'.ops, enc'.refs)
    <3>1. OpsReferenced(enc.ops, enc.refs)
      BY <1>a, Callable
    <3>2. OpsReferenced(enc.ops, enc.refs \cup refs)
      BY <3>1, Widened
    <3>3. QED
      BY <2>4, <3>2
  <2>6. \A p \in DOMAIN passes' : ~passes'[p].ended =>
          passes'[p].touched \cup TargetUnits(passes'[p].targets) \subseteq enc'.refs
    BY <1>a, <1>c, <2>4, Callable
  <2>7. QED
    BY <1>a, <1>c, <2>4, <2>5, <2>6, Continued
<1>3. QED
  BY <1>1, <1>2

LEMMA BeginRenderKept ==
  ASSUME CommandsInv, NEW targets \in Targets, BeginRenderPass(targets)
  PROVE  CommandsInv'
<1> DEFINE admitted == AttachmentsAdmitted(targets)
           uses == IF admitted THEN AttachUses(targets) ELSE {}
           old == NewPass("render", targets)
           st == [old EXCEPT !.scope = uses]
<1>1. old \in Live /\ old.scope = {} /\ old.touched = {} /\ old.targets = targets
  BY NewPassKept DEF NewPass
<1> HIDE DEF old
<1>2. TargetUnits(targets) \in SUBSET Resources /\ uses \in SUBSET Uses
  BY AttachmentsTyped DEF Resources
<1>3. old \in RawPass
  BY <1>1 DEF Live, PassStates
<1>4. st = [old EXCEPT !.scope = @ \cup uses]
  BY <1>1, <1>3 DEF RawPass
<1>5. st \in Live
  BY <1>1, <1>2, <1>4, ScopeKept
<1>6. st.touched = {} /\ st.targets = targets
  BY <1>1, <1>3 DEF RawPass
<1>7. Begin(st, TargetUnits(targets), admitted)
  BY DEF BeginRenderPass, old
<1>8. admitted \in BOOLEAN
  BY DEF AttachmentsAdmitted, Admits
<1>9. QED
  BY <1>2, <1>5, <1>6, <1>7, <1>8, BeginKept

LEMMA BeginComputeKept ==
  ASSUME CommandsInv, BeginComputePass
  PROVE  CommandsInv'
<1> DEFINE st == NewPass("compute", <<>>)
<1>1. st \in Live
  BY NewPassKept
<1>2. st.touched = {} /\ TargetUnits(st.targets) = {}
  BY DEF NewPass, TargetUnits
<1>3. Begin(st, {}, TRUE)
  BY DEF BeginComputePass
<1> HIDE DEF st
<1>4. QED
  BY <1>1, <1>2, <1>3, BeginKept

\* A command buffer holds what its encoder recorded, or nothing.
LEMMA FinishKept ==
  ASSUME CommandsInv, Finish
  PROVE  CommandsInv'
<1> DEFINE bad == enc.error \/ enc.open # 0 \/ enc.depth # 0
<1>a. /\ enc' = [enc EXCEPT !.life = "finished", !.refs = {}, !.ops = <<>>]
      /\ cb' = [life |-> "ready", error |-> bad, ops |-> IF bad THEN <<>> ELSE enc.ops,
                refs |-> IF bad THEN {} ELSE enc.refs]
      /\ passes' = <<>> /\ UNCHANGED <<bundler, bundles, destroyed>>
  BY DEF Finish
<1>b. enc \in EncTypes /\ <<>> \in OpLists /\ (~enc.error => OpsReferenced(enc.ops, enc.refs))
  BY DEF CommandsInv, TypesInv, RefsInv, OpLists
<1>c. OpsReferenced(<<>>, {})
  BY DEF OpsReferenced
<1>1. enc' \in EncTypes /\ enc'.ops = <<>> /\ enc'.refs = {}
  BY <1>a, <1>b DEF EncTypes
<1>2. cb' \in CbTypes /\ cb'.ops = (IF bad THEN <<>> ELSE enc.ops) /\ cb'.refs = (IF bad THEN {} ELSE enc.refs)
  BY <1>a, <1>b DEF EncTypes, CbTypes
<1>3. OpsReferenced(cb'.ops, cb'.refs)
  BY <1>b, <1>c, <1>2
<1>4. TypesInv'
  BY <1>a, <1>1, <1>2 DEF CommandsInv, TypesInv
<1>5. PassesInv' /\ RefsInv'
  BY <1>a, <1>c, <1>1, <1>3 DEF PassesInv, RefsInv, OpsReferenced, UsedBy, OwnUnits
<1>6. QED
  BY <1>4, <1>5 DEF CommandsInv

LEMMA NewEncoderKept ==
  ASSUME CommandsInv, NewEncoder
  PROVE  CommandsInv'
<1>a. /\ enc.life = "finished" /\ enc' = [Fresh(enc.made + 1) EXCEPT !.calls = enc.calls]
      /\ UNCHANGED <<passes, bundler, bundles, cb, destroyed>>
  BY DEF NewEncoder
<1>b. enc.made + 1 \in Nat /\ enc.calls \in Nat /\ <<>> \in OpLists
  BY DEF CommandsInv, TypesInv, EncTypes, OpLists
<1>1. enc' \in EncTypes /\ enc'.ops = <<>> /\ enc'.life = "recording"
  BY <1>a, <1>b DEF EncTypes, Fresh
<1>2. passes' = <<>> /\ passes' \in Seq(PassStates)
  BY <1>a DEF CommandsInv, PassesInv
<1>3. OpsReferenced(enc'.ops, enc'.refs)
  BY <1>1 DEF OpsReferenced
<1>4. QED
  BY <1>a, <1>1, <1>2, <1>3, Continued

-----------------------------------------------------------------------------
(* Calls on a pass                                                         *)

\* A call that is accepted leaves its pass live, and refers to what the pass
\* has newly touched.
LEMMA PassCallKept ==
  ASSUME CommandsInv, NEW p \in DOMAIN passes, NEW ok, NEW st, NEW refs \in SUBSET Resources,
         ~passes[p].ended /\ ok => /\ st \in Live /\ st.targets = passes[p].targets
                                   /\ st.touched \subseteq passes[p].touched \cup refs,
         PassCall(p, ok, st, refs)
  PROVE  CommandsInv'
<1>a. MayCall /\ UNCHANGED <<bundler, bundles, cb, destroyed>>
  BY DEF PassCall
<1>1. CASE passes[p].ended \/ ~ok
  <2>1. enc' = [Failed(enc) EXCEPT !.refs = @ \cup refs] /\ UNCHANGED passes
    BY <1>1 DEF PassCall
  <2>2. enc' \in EncTypes /\ enc'.error /\ enc'.life = "recording"
    BY <1>a, <2>1, Callable, FailedKept
  <2>3. QED
    BY <1>a, <2>1, <2>2, Errored
<1>2. CASE ~(passes[p].ended \/ ~ok)
  <2>1. /\ enc' = [Called(enc) EXCEPT !.refs = @ \cup refs]
        /\ passes' = [passes EXCEPT ![p] = st]
    BY <1>2 DEF PassCall
  <2>2. /\ st \in PassStates /\ st.targets = passes[p].targets
        /\ st.touched \subseteq passes[p].touched \cup refs
    BY <1>2 DEF Live
  <2>3. /\ Called(enc) \in EncTypes /\ Called(enc).ops = enc.ops
        /\ Called(enc).refs = enc.refs /\ Called(enc).life = "recording"
    BY <1>a, Callable, CalledKept
  <2>4. /\ enc' \in EncTypes /\ enc'.ops = enc.ops /\ enc'.refs = enc.refs \cup refs
        /\ enc'.life = "recording"
    BY <2>1, <2>3 DEF EncTypes
  <2>5. OpsReferenced(enc'.ops, enc'.refs)
    <3>1. OpsReferenced(enc.ops, enc.refs)
      BY <1>a, Callable
    <3>2. OpsReferenced(enc.ops, enc.refs \cup refs)
      BY <3>1, Widened
    <3>3. QED
      BY <2>4, <3>2
  <2>6. passes \in Seq(PassStates)
    BY <1>a, Callable
  <2>7. /\ passes' \in Seq(PassStates) /\ DOMAIN passes' = DOMAIN passes
        /\ \A q \in DOMAIN passes : passes'[q] = IF q = p THEN st ELSE passes[q]
    BY <2>1, <2>2, <2>6
  <2>8. \A q \in DOMAIN passes' : ~passes'[q].ended =>
          passes'[q].touched \cup TargetUnits(passes'[q].targets) \subseteq enc'.refs
    <3>1. SUFFICES ASSUME NEW q \in DOMAIN passes, ~passes'[q].ended
                   PROVE  passes'[q].touched \cup TargetUnits(passes'[q].targets) \subseteq enc.refs \cup refs
      BY <2>4, <2>7
    <3>2. CASE q = p
      <4>1. passes'[q] = st
        BY <2>7, <3>2
      <4>2. passes[p].touched \cup TargetUnits(passes[p].targets) \subseteq enc.refs
        BY <1>a, <1>2, Callable
      <4>3. QED
        BY <2>2, <4>1, <4>2
    <3>3. CASE q # p
      BY <1>a, <2>7, <3>1, <3>3, Callable
    <3>4. QED
      BY <3>2, <3>3
  <2>9. QED
    BY <1>a, <2>4, <2>5, <2>7, <2>8, Continued
<1>3. QED
  BY <1>1, <1>2

\* A pass that is not ended may take calls.
LEMMA OpenPass ==
  ASSUME CommandsInv, NEW p \in DOMAIN passes, ~passes[p].ended
  PROVE  passes[p] \in Live /\ passes[p] \in RawPass
BY DEF CommandsInv, TypesInv, Live, PassStates

LEMMA SetPipelineKept ==
  ASSUME CommandsInv, NEW p \in DOMAIN passes, NEW pl \in Pipelines, SetPipeline(p, pl)
  PROVE  CommandsInv'
<1> DEFINE st == BindPipeline(passes[p], pl)
<1>a. ~passes[p].ended => passes[p] \in Live /\ passes[p] \in RawPass
  BY OpenPass
<1>b. ~passes[p].ended => st \in Live
  BY <1>a, PipelineKept
<1>1. ~passes[p].ended => /\ st \in Live /\ st.targets = passes[p].targets
                          /\ st.touched \subseteq passes[p].touched \cup {}
  BY <1>a, <1>b DEF BindPipeline, RawPass
<1>2. PassCall(p, TRUE, st, {})
  BY DEF SetPipeline
<1> HIDE DEF st
<1>3. {} \in SUBSET Resources
  OBVIOUS
<1>4. QED
  BY <1>1, <1>2, <1>3, PassCallKept

LEMMA SetBindGroupKept ==
  ASSUME CommandsInv, NEW p \in DOMAIN passes, NEW s \in Slots, NEW b \in Bounds,
         SetBindGroup(p, s, b)
  PROVE  CommandsInv'
<1> DEFINE old == passes[p]
           mid == BindGroup(old, s, b)
           st == [mid EXCEPT !.scope = IF old.kind = "render" THEN @ \cup GroupUses(b) ELSE @]
           of == {x.res : x \in Bindings[b.group]}
           refs == IF old.ended THEN {} ELSE of
           ok == old.kind = "render" => AdmitsSet(old.scope, GroupUses(b))
<1>1. of \subseteq Resources
  BY ConstantsOK DEF Bounds
<1>a. ~old.ended => old \in Live /\ old \in RawPass
  BY OpenPass
<1>b. ~old.ended => mid \in Live
  BY <1>a, GroupKept
<1>2. ~old.ended => mid \in Live /\ mid.targets = old.targets /\ mid.touched = old.touched \cup of
  BY <1>a, <1>b DEF BindGroup, RawPass
<1>3. PassCall(p, ok, st, refs)
  BY DEF SetBindGroup
<1> HIDE DEF mid, of, ok
<1>4. ASSUME ~old.ended
      PROVE  st \in Live /\ st.targets = mid.targets /\ st.touched = mid.touched
  <2> DEFINE more == IF old.kind = "render" THEN GroupUses(b) ELSE {}
  <2>1. mid \in Live /\ mid \in RawPass
    BY <1>2, <1>4 DEF Live, PassStates
  <2>2. more \in SUBSET Uses
    BY GroupUsesTyped
  <2>3. st = [mid EXCEPT !.scope = @ \cup more]
    BY <2>1 DEF RawPass
  <2> HIDE DEF more
  <2>4. st \in Live
    BY <2>1, <2>2, <2>3, ScopeKept
  <2>5. QED
    BY <2>1, <2>4 DEF RawPass
<1>5. refs \in SUBSET Resources
  BY <1>1
<1>6. ~old.ended /\ ok => /\ st \in Live /\ st.targets = old.targets
                          /\ st.touched \subseteq old.touched \cup refs
  BY <1>2, <1>4
<1> HIDE DEF st, refs
<1>7. QED
  BY <1>3, <1>5, <1>6, PassCallKept

LEMMA ClearBindGroupKept ==
  ASSUME CommandsInv, NEW p \in DOMAIN passes, NEW s \in Slots, ClearBindGroup(p, s)
  PROVE  CommandsInv'
<1> DEFINE st == UnbindGroup(passes[p], s)
<1>1. ~passes[p].ended => /\ st \in Live /\ st.targets = passes[p].targets
                          /\ st.touched \subseteq passes[p].touched \cup {}
  BY OpenPass, UnbindKept DEF UnbindGroup, RawPass
<1>2. PassCall(p, TRUE, st, {})
  BY DEF ClearBindGroup
<1> HIDE DEF st
<1>3. {} \in SUBSET Resources
  OBVIOUS
<1>4. QED
  BY <1>1, <1>2, <1>3, PassCallKept

LEMMA SetVertexBufferKept ==
  ASSUME CommandsInv, NEW p \in DOMAIN passes, NEW b \in Buffers, SetVertexBuffer(p, b)
  PROVE  CommandsInv'
<1> DEFINE st == BindVertex(passes[p], b)
           refs == IF passes[p].ended THEN {} ELSE {b}
<1>1. ~passes[p].ended => /\ st \in Live /\ st.targets = passes[p].targets
                          /\ st.touched \subseteq passes[p].touched \cup refs
  BY OpenPass, VertexKept DEF BindVertex, RawPass
<1>2. PassCall(p, AdmitsSet(passes[p].scope, ReadOf(b)), st, refs)
  BY DEF SetVertexBuffer
<1>3. refs \in SUBSET Resources
  BY DEF Resources
<1> HIDE DEF st, refs
<1>4. QED
  BY <1>1, <1>2, <1>3, PassCallKept

LEMMA DrawKept ==
  ASSUME CommandsInv, NEW p \in DOMAIN passes, NEW b \in Buffers \cup {NoResource}, Draw(p, b)
  PROVE  CommandsInv'
<1> DEFINE ok == ~passes[p].ended /\ DrawAdmitted(passes[p], b)
           st == Draws(passes[p], b)
           refs == IF ok THEN IndirectRefs(b) ELSE {}
<1>a. ok => passes[p] \in Live /\ passes[p] \in RawPass /\ DrawReady(passes[p])
  BY OpenPass DEF DrawAdmitted
<1>b. ok => st \in Live
  BY <1>a, DrawsKept
<1>1. ok => /\ st \in Live /\ st.targets = passes[p].targets
            /\ st.touched \subseteq passes[p].touched \cup refs
  BY <1>a, <1>b DEF Draws, Settle, RawPass, IndirectRefs
<1>2. PassCall(p, ok, st, refs)
  BY DEF Draw
<1>3. refs \in SUBSET Resources
  BY DEF Resources, IndirectRefs
<1> HIDE DEF st, refs, ok
<1>4. QED
  BY <1>1, <1>2, <1>3, PassCallKept

LEMMA ExecuteBundleKept ==
  ASSUME CommandsInv, NEW p \in DOMAIN passes, NEW b \in BundleStates, ExecuteBundle(p, b)
  PROVE  CommandsInv'
<1> DEFINE st == Replayed(passes[p], b)
           ok == ~b.error /\ AdmitsSet(passes[p].scope, b.scope)
           refs == IF passes[p].ended \/ b.error THEN {} ELSE b.refs
<1>1. ~passes[p].ended /\ ok =>
        /\ st \in Live /\ st.targets = passes[p].targets
        /\ st.touched \subseteq passes[p].touched \cup refs
  BY OpenPass, ReplayedKept DEF Replayed, ClearState, RawPass, BundleStates
<1>2. PassCall(p, ok, st, refs)
  BY DEF ExecuteBundle
<1>3. refs \in SUBSET Resources
  BY DEF BundleStates
<1> HIDE DEF st, refs, ok
<1>4. QED
  BY <1>1, <1>2, <1>3, PassCallKept

LEMMA PassDebugKept ==
  ASSUME CommandsInv, NEW p \in DOMAIN passes, PushPassDebugGroup(p) \/ PopPassDebugGroup(p)
  PROVE  CommandsInv'
<1>1. ASSUME NEW n, NEW ok, ~passes[p].ended /\ ok => n \in Nat,
             PassCall(p, ok, [passes[p] EXCEPT !.depth = n], {})
      PROVE  CommandsInv'
  <2> DEFINE st == [passes[p] EXCEPT !.depth = n]
  <2>1. ~passes[p].ended /\ ok =>
          /\ st \in Live /\ st.targets = passes[p].targets
          /\ st.touched \subseteq passes[p].touched \cup {}
    BY <1>1, OpenPass, DepthKept DEF RawPass
  <2>2. PassCall(p, ok, st, {})
    BY <1>1
  <2> HIDE DEF st
  <2>3. QED
    BY <2>1, <2>2, PassCallKept
<1>2. CASE PushPassDebugGroup(p)
  <2>1. ~passes[p].ended => passes[p].depth + 1 \in Nat
    BY OpenPass DEF RawPass
  <2>2. PassCall(p, TRUE, [passes[p] EXCEPT !.depth = passes[p].depth + 1], {})
    BY <1>2 DEF PushPassDebugGroup
  <2>3. QED
    BY <1>1, <2>1, <2>2
<1>3. CASE PopPassDebugGroup(p)
  <2>1. ~passes[p].ended /\ passes[p].depth # 0 => passes[p].depth - 1 \in Nat
    BY OpenPass DEF RawPass
  <2>2. PassCall(p, passes[p].depth # 0, [passes[p] EXCEPT !.depth = passes[p].depth - 1], {})
    BY <1>3 DEF PopPassDebugGroup
  <2>3. QED
    BY <1>1, <2>1, <2>2
<1>4. QED
  BY <1>2, <1>3

\* A dispatch is recorded with what its pass has touched.
LEMMA DispatchKept ==
  ASSUME CommandsInv, NEW p \in DOMAIN passes, NEW b \in Buffers \cup {NoResource}, Dispatch(p, b)
  PROVE  CommandsInv'
<1> DEFINE st == passes[p]
           ok == /\ ~st.ended /\ DrawReady(st)
                 /\ AdmitsSet({}, DispatchUses(st))
                 /\ AdmitsSet(DispatchUses(st), ReadOf(b))
           op == DispatchOp(st, b)
           refs == IndirectRefs(b)
<1>a. MayCall /\ UNCHANGED <<bundler, bundles, cb, destroyed>>
  BY DEF Dispatch
<1>b. /\ enc \in EncTypes /\ enc.life = "recording" /\ OpsReferenced(enc.ops, enc.refs)
      /\ passes \in Seq(PassStates)
  BY <1>a, Callable
<1>1. CASE ~ok
  <2>1. enc' = Failed(enc) /\ UNCHANGED passes
    BY <1>1 DEF Dispatch
  <2>2. QED
    BY <1>a, <1>b, <2>1, FailedKept, Errored
<1>2. CASE ok
  <2>1. enc' = Recorded(enc, op, refs) /\ passes' = [passes EXCEPT ![p] = Settle(st)]
    BY <1>2 DEF Dispatch, Recorded
  <2>2. st \in Live /\ st \in RawPass /\ DrawReady(st)
    BY <1>2, OpenPass
  <2>3. st.bound \in ValidDraws /\ Settle(st) \in PassStates /\ GroupResources(st.bound) \subseteq st.touched
    BY <2>2, DrawIsValid DEF Live, PassStates, Touches
  <2>4. op \in Op
    BY <2>3 DEF Op, DispatchOps, DispatchOp
  <2>5. Settle(st).touched = st.touched /\ Settle(st).targets = st.targets /\ ~st.ended
    BY <1>2, <2>2 DEF Settle, RawPass
  <2>6. st.touched \cup TargetUnits(st.targets) \subseteq enc.refs
    BY <1>a, <1>2, Callable
  <2>7. UsedBy(op) \subseteq refs \cup enc.refs \cup OwnUnits(op)
    <3>1. op.op = "dispatch" /\ op.drawn = {st.bound} /\ op.indirect = b
      BY DEF DispatchOp
    <3> HIDE DEF op
    <3>2. NeededResources(st.bound) \subseteq enc.refs
      BY <2>3, <2>6, NeededBound
    <3>3. {b} \ {NoResource} \subseteq refs
      BY DEF IndirectRefs
    <3> HIDE DEF refs
    <3> DEFINE S == refs \cup enc.refs
    <3>4. op.drawn = {st.bound} /\ NeededResources(st.bound) \subseteq S
      BY <3>1, <3>2
    <3>5. op.op = "dispatch" /\ {op.indirect} \ {NoResource} \subseteq S
      BY <3>1, <3>3
    <3> HIDE DEF S
    <3>6. \A d \in op.drawn : NeededResources(d) \subseteq S
      BY <3>4
    <3>7. op.op # "render" /\ op.op \in {"render", "dispatch"}
      BY <3>5
    <3>8. UsedBy(op) \subseteq S
      BY <3>5, <3>6, <3>7, UsedWithin
    <3>9. QED
      BY <3>8 DEF S
  <2>8. refs \in SUBSET Resources
    BY DEF IndirectRefs, Resources
  <2> HIDE DEF op, refs
  <2>9. /\ enc' \in EncTypes /\ enc'.life = enc.life /\ OpsReferenced(enc'.ops, enc'.refs)
        /\ enc'.refs = enc.refs \cup refs
    BY <1>b, <2>1, <2>4, <2>7, <2>8, Extended
  <2>10. /\ passes' \in Seq(PassStates) /\ DOMAIN passes' = DOMAIN passes
         /\ \A q \in DOMAIN passes : passes'[q] = IF q = p THEN Settle(st) ELSE passes[q]
    BY <1>b, <2>1, <2>3
  <2>11. \A q \in DOMAIN passes' : ~passes'[q].ended =>
           passes'[q].touched \cup TargetUnits(passes'[q].targets) \subseteq enc'.refs
    BY <1>a, <2>5, <2>6, <2>9, <2>10, Callable
  <2>12. QED
    BY <1>a, <1>b, <2>9, <2>10, <2>11, Continued
<1>3. QED
  BY <1>1, <1>2

\* A render pass is recorded with all it has touched when it ends.
LEMMA EndPassKept ==
  ASSUME CommandsInv, NEW p \in DOMAIN passes, EndPass(p)
  PROVE  CommandsInv'
<1> DEFINE st == passes[p]
           op == RenderOp(st)
           ops == IF st.targets = <<>> THEN enc.ops ELSE Append(enc.ops, op)
<1>a. /\ enc.life = "recording" /\ ~st.ended /\ UNCHANGED <<bundler, bundles, cb, destroyed>>
      /\ passes' = [passes EXCEPT ![p] = ClearEnded(st)]
      /\ enc' = [enc EXCEPT !.open = 0, !.error = @ \/ st.depth # 0, !.ops = ops]
  BY DEF EndPass
<1>b. /\ enc \in EncTypes /\ enc.ops \in OpLists /\ passes \in Seq(PassStates)
      /\ (~enc.error => OpsReferenced(enc.ops, enc.refs))
      /\ (~enc.error => st.touched \cup TargetUnits(st.targets) \subseteq enc.refs)
  BY <1>a DEF CommandsInv, TypesInv, RefsInv, PassesInv, EncTypes
<1>c. st \in Live /\ st \in RawPass
  BY <1>a, OpenPass
<1>1. st.targets # <<>> => op \in Op
  BY <1>c DEF RawPass, Op, RenderOps, RenderOp
<1>2. ~enc.error => UsedBy(op) \subseteq {} \cup enc.refs \cup OwnUnits(op)
  <2>1. /\ op.op = "render" /\ op.drawn = st.drawn /\ op.touched = st.touched
        /\ op.targets = st.targets
    BY DEF RenderOp
  <2> HIDE DEF op
  <2>2. ASSUME NEW d \in st.drawn
        PROVE  NeededResources(d) \subseteq st.touched
    <3>1. d \in ValidDraws /\ GroupResources(d) \subseteq st.touched
      BY <1>a, <1>c DEF RawPass, Live, PassStates, Touches
    <3>2. QED
      BY <3>1, NeededBound
  <2> DEFINE S == st.touched \cup TargetUnits(st.targets)
  <2>3. \A d \in op.drawn : NeededResources(d) \subseteq S
    BY <2>1, <2>2
  <2>4. op.touched \cup TargetUnits(op.targets) \subseteq S
    BY <2>1
  <2>5. ~enc.error => S \subseteq enc.refs
    BY <1>b
  <2> HIDE DEF S
  <2>6. op.op # "dispatch" /\ op.op \in {"render", "dispatch"}
    BY <2>1
  <2>7. UsedBy(op) \subseteq S
    BY <2>3, <2>4, <2>6, UsedWithin
  <2>8. QED
    BY <2>5, <2>7
<1>3. ops \in OpLists /\ (~enc.error => OpsReferenced(ops, enc.refs))
  <2>1. CASE st.targets = <<>>
    BY <1>b, <2>1
  <2>2. CASE st.targets # <<>>
    <3>1. op \in Op /\ ops = Append(enc.ops, op)
      BY <1>1, <2>2
    <3> HIDE DEF op
    <3>2. ops \in OpLists
      BY <1>b, <3>1 DEF OpLists
    <3>3. ASSUME ~enc.error PROVE OpsReferenced(Append(enc.ops, op), enc.refs \cup {})
      BY <1>b, <1>2, <3>1, <3>3, Appended
    <3>4. enc.refs \cup {} = enc.refs
      OBVIOUS
    <3>5. QED
      BY <3>1, <3>2, <3>3, <3>4
  <2>3. QED
    BY <2>1, <2>2
<1> HIDE DEF ops, op
<1>4. (st.depth # 0) \in BOOLEAN
  OBVIOUS
<1>5. /\ enc' \in EncTypes /\ enc'.life = "recording" /\ enc'.ops = ops /\ enc'.refs = enc.refs
      /\ (~enc'.error => ~enc.error)
  BY <1>a, <1>b, <1>3 DEF EncTypes
<1>6. ClearEnded(st) \in PassStates /\ ClearEnded(st).ended
  BY <1>c, EndedKept
<1>7. /\ passes' \in Seq(PassStates) /\ DOMAIN passes' = DOMAIN passes
      /\ \A q \in DOMAIN passes : passes'[q] = IF q = p THEN ClearEnded(st) ELSE passes[q]
  BY <1>a, <1>b, <1>6
<1>8. TypesInv'
  BY <1>a, <1>5, <1>7 DEF CommandsInv, TypesInv
<1>9. PassesInv'
  BY <1>5, <1>6, <1>7 DEF CommandsInv, PassesInv
<1>10. OpsReferenced(cb.ops, cb.refs)
  BY DEF CommandsInv, RefsInv
<1>11. RefsInv'
  BY <1>a, <1>3, <1>5, <1>10 DEF RefsInv, OpsReferenced, UsedBy, OwnUnits
<1>12. QED
  BY <1>8, <1>9, <1>11 DEF CommandsInv

-----------------------------------------------------------------------------
(* Render bundles and the other steps                                      *)

\* A bundle encoder keeps the state of a live pass.
LEMMA BundleCallKept ==
  ASSUME CommandsInv, NEW ok \in BOOLEAN, NEW st, ok => st \in Live, BundleCall(ok, st)
  PROVE  CommandsInv'
<1>a. /\ bundler' = [bundler EXCEPT !.calls = @ + 1, !.error = ~ok, !.st = IF ok THEN st ELSE @]
      /\ UNCHANGED <<enc, passes, bundles, cb, destroyed>>
  BY DEF BundleCall
<1>b. bundler \in BundlerTypes /\ bundler.calls + 1 \in Nat /\ bundler.st \in Live
  BY DEF CommandsInv, TypesInv, BundlerTypes, Live
<1>c. (IF ok THEN st ELSE bundler.st) \in {x \in PassStates : ~x.ended}
  BY <1>b DEF Live
<1>1. bundler' = [bundler EXCEPT !.calls = bundler.calls + 1, !.error = ~ok,
                                 !.st = IF ok THEN st ELSE bundler.st]
  BY <1>a
<1>2. bundler' \in BundlerTypes
  BY <1>b, <1>c, <1>1 DEF BundlerTypes
<1>3. QED
  BY <1>a, <1>2 DEF CommandsInv, TypesInv, PassesInv, RefsInv, OpsReferenced, UsedBy, OwnUnits

LEMMA NewBundlerTyped ==
  ASSUME NEW life \in {"recording", "finished"}
  PROVE  NewBundler(life) \in BundlerTypes
<1>1. NewPass("render", <<>>) \in Live
  BY NewPassKept
<1>2. QED
  BY <1>1 DEF NewBundler, BundlerTypes, Live

\* A finished bundle refers to all it has touched.
LEMMA FinishBundleKept ==
  ASSUME CommandsInv, FinishBundle
  PROVE  CommandsInv'
<1> DEFINE st == bundler.st
           b == [error |-> bundler.error, scope |-> st.scope, drawn |-> st.drawn,
                 touched |-> st.touched, refs |-> BundleRefs(st)]
<1>a. /\ bundles' = Append(bundles, b) /\ bundler' = NewBundler("finished")
      /\ UNCHANGED <<enc, passes, cb, destroyed>>
  BY DEF FinishBundle
<1>b. bundler.error \in BOOLEAN /\ st \in RawPass /\ Touches(st)
  BY DEF CommandsInv, TypesInv, BundlerTypes, PassStates
<1>1. b \in BundleStates
  BY <1>b DEF BundleStates, BundleRefs, RawPass, Touches
<1> HIDE DEF b
<1>2. bundles' \in Seq(BundleStates)
  BY <1>a, <1>1 DEF CommandsInv, TypesInv
<1>3. bundler' \in BundlerTypes
  BY <1>a, NewBundlerTyped
<1>4. QED
  BY <1>a, <1>2, <1>3 DEF CommandsInv, TypesInv, PassesInv, RefsInv, OpsReferenced, UsedBy, OwnUnits

LEMMA BundleKept ==
  ASSUME CommandsInv, BundleNext
  PROVE  CommandsInv'
<1> DEFINE st == bundler.st
<1>a. st \in Live /\ st \in RawPass
  BY DEF CommandsInv, TypesInv, BundlerTypes, Live, PassStates
<1>b. ASSUME NEW scope, NEW uses PROVE AdmitsSet(scope, uses) \in BOOLEAN
  BY DEF AdmitsSet, Admits
<1>1. CASE NewBundleEncoder
  <2>1. bundler' \in BundlerTypes /\ UNCHANGED <<enc, passes, bundles, cb, destroyed>>
    BY <1>1, NewBundlerTyped DEF NewBundleEncoder
  <2>2. QED
    BY <2>1 DEF CommandsInv, TypesInv, PassesInv, RefsInv, OpsReferenced, UsedBy, OwnUnits
<1>2. ASSUME NEW pl \in Pipelines, BundleSetPipeline(pl) PROVE CommandsInv'
  <2>1. BundleCall(TRUE, BindPipeline(st, pl)) /\ BindPipeline(st, pl) \in Live
    BY <1>2, <1>a, PipelineKept DEF BundleSetPipeline
  <2>2. QED
    BY <2>1, BundleCallKept
<1>3. ASSUME NEW s \in Slots, NEW b \in Bounds, BundleSetBindGroup(s, b) PROVE CommandsInv'
  <2> DEFINE new == [BindGroup(st, s, b) EXCEPT !.scope = @ \cup GroupUses(b)]
             ok == AdmitsSet(st.scope, GroupUses(b))
  <2>1. new \in Live
    BY <1>a, GroupKept, GroupUsesTyped, ScopeKept
  <2>2. BundleCall(ok, new) /\ ok \in BOOLEAN
    BY <1>3, <1>b DEF BundleSetBindGroup
  <2> HIDE DEF new, ok
  <2>3. QED
    BY <2>1, <2>2, BundleCallKept
<1>4. ASSUME NEW s \in Slots, BundleClearBindGroup(s) PROVE CommandsInv'
  <2>1. BundleCall(TRUE, UnbindGroup(st, s)) /\ UnbindGroup(st, s) \in Live
    BY <1>4, <1>a, UnbindKept DEF BundleClearBindGroup
  <2>2. QED
    BY <2>1, BundleCallKept
<1>5. ASSUME NEW b \in Buffers, BundleSetVertexBuffer(b) PROVE CommandsInv'
  <2> DEFINE ok == AdmitsSet(st.scope, ReadOf(b))
  <2>1. BundleCall(ok, BindVertex(st, b)) /\ BindVertex(st, b) \in Live /\ ok \in BOOLEAN
    BY <1>5, <1>a, <1>b, VertexKept DEF BundleSetVertexBuffer
  <2> HIDE DEF ok
  <2>2. QED
    BY <2>1, BundleCallKept
<1>6. ASSUME NEW b \in Buffers \cup {NoResource}, BundleDraw(b) PROVE CommandsInv'
  <2> DEFINE ok == DrawAdmitted(st, b)
  <2>1. ok \in BOOLEAN
    BY <1>b DEF DrawAdmitted
  <2>2. ok => Draws(st, b) \in Live
    BY <1>a, DrawsKept DEF DrawAdmitted
  <2>3. BundleCall(ok, Draws(st, b))
    BY <1>6 DEF BundleDraw
  <2> HIDE DEF ok
  <2>4. QED
    BY <2>1, <2>2, <2>3, BundleCallKept
<1>7. QED
  BY <1>1, <1>2, <1>3, <1>4, <1>5, <1>6, FinishBundleKept DEF BundleNext

LEMMA PassKept ==
  ASSUME CommandsInv, NEW p \in DOMAIN passes, PassNext(p)
  PROVE  CommandsInv'
<1>1. \A i \in DOMAIN bundles : bundles[i] \in BundleStates
  BY DEF CommandsInv, TypesInv
<1>2. ASSUME NEW i \in DOMAIN bundles, ExecuteBundle(p, bundles[i]) PROVE CommandsInv'
  BY <1>1, <1>2, ExecuteBundleKept
<1>3. QED
  BY <1>2, SetPipelineKept, SetBindGroupKept, ClearBindGroupKept, SetVertexBufferKept, DrawKept,
     DispatchKept, PassDebugKept, EndPassKept DEF PassNext

LEMMA EncoderKept ==
  ASSUME CommandsInv, EncoderNext
  PROVE  CommandsInv'
<1>1. ASSUME NEW r \in Resources, Destroy(r) PROVE CommandsInv'
  <2>1. UNCHANGED <<enc, passes, bundler, bundles, cb>> /\ destroyed' \subseteq Resources
    BY <1>1 DEF Destroy, CommandsInv, TypesInv
  <2>2. QED
    BY <2>1, RecordingStutters
<1>2. QED
  BY <1>1, NewEncoderKept, CopyKept, DebugKept, BeginRenderKept, BeginComputeKept, PassKept,
     BundleKept, FinishKept DEF EncoderNext

LEMMA CommandsStep ==
  ASSUME CommandsInv, [Next]_vars
  PROVE  CommandsInv'
<1>a. destroyed \subseteq Resources
  BY DEF CommandsInv, TypesInv
<1>1. CASE EncoderNext
  BY <1>1, EncoderKept
<1>2. ASSUME UNCHANGED encVars PROVE CommandsInv'
  BY <1>a, <1>2, RecordingStutters DEF encVars
<1>3. CASE SubmitRefused \/ SubmitRuns \/ SubmitLowerFails \/ SubmitHalFails
  <2>1. Submitted /\ UNCHANGED <<enc, passes, bundler, bundles, destroyed>>
    BY <1>3 DEF SubmitRefused, SubmitRuns, SubmitLowerFails, SubmitHalFails
  <2>2. QED
    BY <2>1, Submitting
<1>4. CASE \E u \in Units, full \in BOOLEAN : WriteTexture(u, full)
  BY <1>2, <1>4 DEF WriteTexture
<1>5. CASE Flush \/ FlushFails
  BY <1>2, <1>5 DEF Flush, FlushFails
<1>6. CASE UNCHANGED vars
  BY <1>2, <1>6 DEF vars
<1>7. QED
  BY <1>1, <1>3, <1>4, <1>5, <1>6 DEF Next

LEMMA CommandsStart ==
  ASSUME InitAll
  PROVE  CommandsInv
<1>1. /\ enc = [Fresh(0) EXCEPT !.life = "finished"] /\ bundler = NewBundler("finished")
      /\ passes = <<>> /\ bundles = <<>> /\ cb = NoCommandBuffer /\ destroyed = {}
  BY DEF InitAll, Init
<1>2. <<>> \in OpLists
  BY DEF OpLists
<1>3. enc \in EncTypes /\ enc.ops = <<>>
  BY <1>1, <1>2 DEF EncTypes, Fresh
<1>4. cb \in CbTypes /\ cb.ops = <<>>
  BY <1>1, <1>2 DEF CbTypes, NoCommandBuffer
<1>5. bundler \in BundlerTypes
  BY <1>1, NewBundlerTyped
<1>6. passes \in Seq(PassStates) /\ bundles \in Seq(BundleStates)
  BY <1>1
<1>7. TypesInv
  BY <1>1, <1>3, <1>4, <1>5, <1>6 DEF TypesInv
<1>8. PassesInv /\ RefsInv
  BY <1>1, <1>3, <1>4 DEF PassesInv, RefsInv, OpsReferenced
<1>9. QED
  BY <1>7, <1>8 DEF CommandsInv

-----------------------------------------------------------------------------
(* Copies and what running them does                                       *)

Mems == [Units -> [Halves -> {"garbage", "zero", "data"}]]
Memories == [mem : Mems, spoiled : SUBSET Units, wiped : BOOLEAN]

Copies ==
  [do : {"clear", "read"}, unit : Units]
    \cup [do : {"write"}, unit : Units, parts : SUBSET Halves]
    \cup [do : {"attach"}, unit : Units, parts : SUBSET Halves,
          load : Loads \cup {"zero"}, store : BOOLEAN]
CopyLists == Seq(Copies)

\* The memory after the copies.
After(r, copies) == FoldLeft(Ran, r, copies)

LEMMA AfterIsFold ==
  ASSUME NEW r, NEW copies
  PROVE  After(r, copies) = RanFold!Fold(0, r, copies)
BY DEF After, FoldLeft, MapThenFoldSet, Max, RanFold!Fold, RanFold!Iteration, RanFold!Top

LEMMA AfterStays ==
  ASSUME NEW C, NEW copies \in Seq(C), NEW V, NEW r \in V, \A v \in V, c \in C : Ran(v, c) \in V
  PROVE  After(r, copies) \in V
BY AfterIsFold, RanFold!FoldStays

LEMMA AfterNone ==
  ASSUME NEW r PROVE After(r, <<>>) = r
BY AfterIsFold, RanFold!FoldEmpty

LEMMA AfterBoth ==
  ASSUME NEW r, NEW s \in CopyLists, NEW t \in CopyLists
  PROVE  After(r, s \o t) = After(After(r, s), t)
BY AfterIsFold, RanFold!FoldConcat DEF CopyLists

LEMMA AfterOne ==
  ASSUME NEW r, NEW s \in CopyLists, NEW c \in Copies
  PROVE  After(r, Append(s, c)) = Ran(After(r, s), c)
BY AfterIsFold, RanFold!FoldAppend DEF CopyLists

LEMMA FilledTyped ==
  ASSUME NEW m \in Mems, NEW u \in Units, NEW parts \in SUBSET Halves, NEW c \in {"garbage", "zero", "data"}
  PROVE  /\ Filled(m, u, parts, c) \in Mems
         /\ \A v \in Units, h \in Halves :
              Filled(m, u, parts, c)[v][h] = IF v = u /\ h \in parts THEN c ELSE m[v][h]
BY DEF Mems, Filled

\* The clear of a subresource.
LEMMA RanClear ==
  ASSUME NEW r \in Memories, NEW u \in Units
  PROVE  /\ Ran(r, Clear(u)) \in Memories /\ Ran(r, Clear(u)).spoiled = r.spoiled
         /\ Ran(r, Clear(u)).wiped <=> (r.wiped \/ \E h \in Halves : r.mem[u][h] = "data")
         /\ \A v \in Units, h \in Halves :
              Ran(r, Clear(u)).mem[v][h] = IF v = u THEN "zero" ELSE r.mem[v][h]
<1>1. Ran(r, Clear(u)) = [r EXCEPT !.mem = Filled(r.mem, u, Halves, "zero"),
                                   !.wiped = @ \/ "data" \in Held(r.mem, u, Halves)]
  BY DEF Ran, Clear, Memories
<1>2. r.mem \in Mems
  BY DEF Memories
<1> DEFINE f == Filled(r.mem, u, Halves, "zero")
           w == r.wiped \/ "data" \in Held(r.mem, u, Halves)
<1>3. f \in Mems /\ \A v \in Units, h \in Halves : f[v][h] = IF v = u THEN "zero" ELSE r.mem[v][h]
  BY <1>2, FilledTyped
<1>4. w \in BOOLEAN /\ (w <=> (r.wiped \/ \E h \in Halves : r.mem[u][h] = "data"))
  BY DEF Memories, Held
<1> HIDE DEF f, w
<1>5. Ran(r, Clear(u)) = [r EXCEPT !.mem = f, !.wiped = w]
  BY <1>1 DEF f, w
<1>6. w \in BOOLEAN
  BY <1>4
<1>7. /\ Ran(r, Clear(u)) \in Memories /\ Ran(r, Clear(u)).spoiled = r.spoiled
      /\ Ran(r, Clear(u)).wiped = w /\ Ran(r, Clear(u)).mem = f
  BY <1>3, <1>5, <1>6 DEF Memories
<1>8. QED
  BY <1>3, <1>4, <1>7

LEMMA RanWrite ==
  ASSUME NEW r \in Memories, NEW u \in Units, NEW parts \in SUBSET Halves
  PROVE  /\ Ran(r, Write(u, parts)) \in Memories
         /\ Ran(r, Write(u, parts)).spoiled = r.spoiled /\ Ran(r, Write(u, parts)).wiped = r.wiped
         /\ \A v \in Units, h \in Halves :
              Ran(r, Write(u, parts)).mem[v][h] = IF v = u /\ h \in parts THEN "data" ELSE r.mem[v][h]
<1> DEFINE f == Filled(r.mem, u, parts, "data")
<1>1. Ran(r, Write(u, parts)) = [r EXCEPT !.mem = f]
  BY DEF Ran, Write, Memories
<1>2. r.mem \in Mems
  BY DEF Memories
<1>3. /\ f \in Mems
      /\ \A v \in Units, h \in Halves : f[v][h] = IF v = u /\ h \in parts THEN "data" ELSE r.mem[v][h]
  BY <1>2, FilledTyped
<1> HIDE DEF f
<1>4. QED
  BY <1>1, <1>3 DEF Memories

LEMMA RanRead ==
  ASSUME NEW r \in Memories, NEW u \in Units
  PROVE  /\ Ran(r, Read(u)) \in Memories /\ Ran(r, Read(u)).mem = r.mem
         /\ Ran(r, Read(u)).wiped = r.wiped
         /\ r.spoiled \subseteq Ran(r, Read(u)).spoiled
         /\ Ran(r, Read(u)).spoiled \subseteq r.spoiled \cup {u}
         /\ (\A h \in Halves : r.mem[u][h] # "garbage") => Ran(r, Read(u)).spoiled = r.spoiled
<1> DEFINE s == r.spoiled \cup Spoils(r.mem, u, Halves)
<1>1. Ran(r, Read(u)) = [r EXCEPT !.spoiled = s]
  BY DEF Ran, Read, Memories
<1>2. /\ s \in SUBSET Units /\ r.spoiled \subseteq s /\ s \subseteq r.spoiled \cup {u}
      /\ (\A h \in Halves : r.mem[u][h] # "garbage") => s = r.spoiled
  BY DEF Memories, Spoils, Held
<1> HIDE DEF s
<1>3. QED
  BY <1>1, <1>2 DEF Memories

-----------------------------------------------------------------------------
(* Marks and memory                                                        *)

\* What is marked holds no garbage, unless its queued writes were lost, and
\* what is not marked holds no data; until now no read was spoiled and no
\* clear has wiped data.
Agrees(marks, lost, r) ==
  /\ r \in Memories /\ marks \in [Units -> BOOLEAN]
  /\ r.spoiled \subseteq lost /\ ~r.wiped
  /\ \A u \in Units, h \in Halves :
       /\ (marks[u] /\ u \notin lost) => r.mem[u][h] # "garbage"
       /\ ~marks[u] => r.mem[u][h] # "data"

\* The lowering states whose overlay agrees with the memory after their copies.
Good(r, lost) ==
  {acc \in [copies : CopyLists, marks : [Units -> BOOLEAN]] :
     Agrees(acc.marks, lost, After(r, acc.copies))}

\* One more copy, and other marks.
LEMMA GoodNext ==
  ASSUME NEW r, NEW lost, NEW acc \in Good(r, lost), NEW c \in Copies, NEW marks,
         Agrees(marks, lost, Ran(After(r, acc.copies), c))
  PROVE  [copies |-> Append(acc.copies, c), marks |-> marks] \in Good(r, lost)
<1>1. acc.copies \in CopyLists
  BY DEF Good
<1>2. Append(acc.copies, c) \in CopyLists
  BY <1>1 DEF CopyLists
<1>3. After(r, Append(acc.copies, c)) = Ran(After(r, acc.copies), c)
  BY <1>1, AfterOne
<1>4. marks \in [Units -> BOOLEAN]
  BY DEF Agrees
<1>5. QED
  BY <1>2, <1>3, <1>4 DEF Good

LEMMA CopiesTyped ==
  ASSUME NEW u \in Units
  PROVE  /\ Clear(u) \in Copies /\ Read(u) \in Copies
         /\ \A parts \in SUBSET Halves : Write(u, parts) \in Copies
BY DEF Clear, Read, Write, Copies

\* A clear before the first read marks what it clears, and touches nothing that
\* is marked.
LEMMA CleanReadGood ==
  ASSUME NEW r, NEW lost, NEW acc \in Good(r, lost), NEW u \in Units
  PROVE  CleanRead(acc, u) \in Good(r, lost) /\ CleanRead(acc, u).marks[u]
<1> DEFINE now == After(r, acc.copies)
           marks == [acc.marks EXCEPT ![u] = TRUE]
<1>1. Agrees(acc.marks, lost, now) /\ acc.marks \in [Units -> BOOLEAN]
  BY DEF Good
<1> HIDE DEF now
<1>2. CASE acc.marks[u]
  BY <1>2 DEF CleanRead
<1>3. CASE ~acc.marks[u]
  <2>1. now \in Memories /\ \A h \in Halves : now.mem[u][h] # "data"
    BY <1>1, <1>3 DEF Agrees
  <2> DEFINE new == Ran(now, Clear(u))
  <2>2. /\ new \in Memories /\ new.spoiled = now.spoiled
        /\ new.wiped <=> now.wiped
        /\ \A v \in Units, h \in Halves :
             new.mem[v][h] = IF v = u THEN "zero" ELSE now.mem[v][h]
    BY <2>1, RanClear
  <2> HIDE DEF new
  <2>3. marks \in [Units -> BOOLEAN] /\ marks[u] /\ \A v \in Units : v # u => marks[v] = acc.marks[v]
    BY <1>1
  <2> HIDE DEF marks
  <2>4. Agrees(marks, lost, new)
    BY <1>1, <2>2, <2>3 DEF Agrees
  <2>5. [copies |-> Append(acc.copies, Clear(u)), marks |-> marks] \in Good(r, lost)
    BY <2>4, CopiesTyped, GoodNext DEF new, now
  <2>6. QED
    BY <1>3, <2>3, <2>5 DEF CleanRead, marks
<1>4. QED
  BY <1>2, <1>3

\* What is marked may be read.
LEMMA ReadGood ==
  ASSUME NEW r, NEW lost, NEW acc \in Good(r, lost), NEW u \in Units, acc.marks[u]
  PROVE  [acc EXCEPT !.copies = Append(@, Read(u))] \in Good(r, lost)
<1> DEFINE now == After(r, acc.copies)
           new == Ran(now, Read(u))
<1>1. Agrees(acc.marks, lost, now)
  BY DEF Good
<1> HIDE DEF now
<1>2. /\ new \in Memories /\ new.mem = now.mem /\ new.wiped = now.wiped
      /\ new.spoiled \subseteq now.spoiled \cup {u}
      /\ (\A h \in Halves : now.mem[u][h] # "garbage") => new.spoiled = now.spoiled
  BY <1>1, RanRead DEF Agrees
<1> HIDE DEF new
<1>3. new.spoiled \subseteq lost
  <2>1. CASE u \in lost
    BY <1>1, <1>2, <2>1 DEF Agrees
  <2>2. CASE u \notin lost
    BY <1>1, <1>2, <2>2 DEF Agrees
  <2>3. QED
    BY <2>1, <2>2
<1>4. Agrees(acc.marks, lost, new)
  BY <1>1, <1>2, <1>3 DEF Agrees
<1>5. [copies |-> Append(acc.copies, Read(u)), marks |-> acc.marks] \in Good(r, lost)
  BY <1>4, CopiesTyped, GoodNext DEF now, new
<1>6. [acc EXCEPT !.copies = Append(@, Read(u))]
        = [copies |-> Append(acc.copies, Read(u)), marks |-> acc.marks]
  <2> DEFINE next == Append(acc.copies, Read(u))
  <2>1. acc \in [copies : CopyLists, marks : [Units -> BOOLEAN]]
    BY DEF Good
  <2> HIDE DEF next
  <2>2. [acc EXCEPT !.copies = next] = [copies |-> next, marks |-> acc.marks]
    BY <2>1
  <2>3. QED
    BY <2>2 DEF next
<1>7. QED
  BY <1>5, <1>6

LEMMA ReadFirstGood ==
  ASSUME NEW r, NEW lost, NEW acc \in Good(r, lost), NEW u \in Units
  PROVE  ReadFirst(acc, u) \in Good(r, lost)
BY CleanReadGood, ReadGood DEF ReadFirst

\* A write covers all of an unmarked subresource, or is preceded by its clear.
CleanlyWritten(acc, u, full) ==
  [CleanWrite(acc, u, full) EXCEPT !.copies = Append(@, Write(u, CoveredBy(full)))]

LEMMA WriteGood ==
  ASSUME NEW r, NEW lost, NEW acc \in Good(r, lost), NEW u \in Units, NEW full \in BOOLEAN
  PROVE  CleanlyWritten(acc, u, full) \in Good(r, lost)
<1> DEFINE parts == CoveredBy(full)
<1>a. parts \in SUBSET Halves
  BY DEF CoveredBy, Halves
<1>1. ASSUME NEW old \in Good(r, lost), NEW marks, full \/ old.marks[u],
             marks = [old.marks EXCEPT ![u] = TRUE]
      PROVE  [copies |-> Append(old.copies, Write(u, parts)), marks |-> marks] \in Good(r, lost)
  <2> DEFINE now == After(r, old.copies)
             new == Ran(now, Write(u, parts))
  <2>1. Agrees(old.marks, lost, now)
    BY DEF Good
  <2> HIDE DEF now
  <2>2. /\ new \in Memories /\ new.spoiled = now.spoiled /\ new.wiped = now.wiped
        /\ \A v \in Units, h \in Halves :
             new.mem[v][h] = IF v = u /\ h \in parts THEN "data" ELSE now.mem[v][h]
    BY <1>a, <2>1, RanWrite DEF Agrees
  <2>3. full => parts = Halves
    BY DEF CoveredBy
  <2>4. marks \in [Units -> BOOLEAN] /\ marks[u] /\ \A v \in Units : v # u => marks[v] = old.marks[v]
    BY <1>1, <2>1 DEF Agrees
  <2> HIDE DEF new, parts
  <2>5. ASSUME NEW v \in Units, NEW h \in Halves
        PROVE  /\ (marks[v] /\ v \notin lost) => new.mem[v][h] # "garbage"
               /\ ~marks[v] => new.mem[v][h] # "data"
    <3>1. CASE v = u
      BY <1>1, <2>1, <2>2, <2>3, <2>4, <3>1 DEF Agrees
    <3>2. CASE v # u
      BY <2>1, <2>2, <2>4, <3>2 DEF Agrees
    <3>3. QED
      BY <3>1, <3>2
  <2>6. Agrees(marks, lost, new)
    BY <2>1, <2>2, <2>4, <2>5 DEF Agrees
  <2>7. QED
    BY <1>a, <2>6, CopiesTyped, GoodNext DEF now, new
<1> HIDE DEF parts
<1>2. CASE full
  <2>1. CleanlyWritten(acc, u, full)
          = [copies |-> Append(acc.copies, Write(u, parts)), marks |-> [acc.marks EXCEPT ![u] = TRUE]]
    <3>1. CleanWrite(acc, u, full) = [copies |-> acc.copies, marks |-> [acc.marks EXCEPT ![u] = TRUE]]
      BY <1>2 DEF CleanWrite, Good
    <3> DEFINE old == CleanWrite(acc, u, full)
               marks == [acc.marks EXCEPT ![u] = TRUE]
    <3>2. CleanlyWritten(acc, u, full) = [old EXCEPT !.copies = Append(old.copies, Write(u, parts))]
      BY DEF CleanlyWritten, parts
    <3> HIDE DEF old, marks
    <3>3. old = [copies |-> acc.copies, marks |-> marks]
      BY <3>1 DEF old, marks
    <3>4. QED
      BY <3>2, <3>3 DEF marks
  <2>2. QED
    BY <1>1, <1>2, <2>1
<1>3. CASE ~full
  <2> DEFINE old == CleanRead(acc, u)
  <2>1. old \in Good(r, lost) /\ old.marks[u]
    BY CleanReadGood
  <2>2. CleanlyWritten(acc, u, full) = [old EXCEPT !.copies = Append(@, Write(u, parts))]
    BY <1>3 DEF CleanlyWritten, CleanWrite, parts
  <2> HIDE DEF old
  <2>3. old.marks \in [Units -> BOOLEAN]
    BY <2>1 DEF Good
  <2>4. old.marks = [old.marks EXCEPT ![u] = TRUE]
    BY <2>1, <2>3
  <2>5. CleanlyWritten(acc, u, full) = [copies |-> Append(old.copies, Write(u, parts)), marks |-> old.marks]
    BY <2>1, <2>2 DEF Good
  <2>6. QED
    BY <1>1, <2>1, <2>4, <2>5
<1>4. QED
  BY <1>2, <1>3

-----------------------------------------------------------------------------
(* What a pass samples                                                     *)

LEMMA UnitsListed ==
  ASSUME NEW S \in SUBSET Units
  PROVE  SetToSeq(S) \in Seq(Units)
<1>1. IsFiniteSet(S)
  BY UnitsFinite, FS_Subset
<1>2. PICK n \in Nat : ExistsBijection(1 .. n, S)
  BY <1>1, FS_NatBijection
<1>3. Cardinality(S) = n
  BY <1>2, FS_CountingElements
<1>4. \E f \in [1 .. n -> S] : IsInjective(f)
  <2>1. PICK f : f \in Bijection(1 .. n, S)
    BY <1>2 DEF ExistsBijection
  <2>2. QED
    BY <2>1 DEF Bijection, Injection, IsInjective
<1>5. SetToSeq(S) \in [1 .. n -> S]
  BY <1>3, <1>4 DEF SetToSeq
<1>6. QED
  BY <1>2, <1>5

LEMMA SampledGood ==
  ASSUME NEW r, NEW lost, NEW acc \in Good(r, lost), NEW S \in SUBSET Units
  PROVE  Sampled(acc, S) \in Good(r, lost)
<1>1. Sampled(acc, S) = ReadFold!Fold(0, acc, SetToSeq(S))
  BY DEF Sampled, FoldLeft, MapThenFoldSet, Max, ReadFold!Fold, ReadFold!Iteration, ReadFold!Top
<1>2. \A a \in Good(r, lost), u \in Units : ReadFirst(a, u) \in Good(r, lost)
  BY ReadFirstGood
<1>3. QED
  BY <1>1, <1>2, UnitsListed, ReadFold!FoldStays

-----------------------------------------------------------------------------
(* Attachments                                                             *)

Attachments == [unit : Units, parts : SUBSET Parts, load : Loads, store : BOOLEAN]

\* Attachments that cover their subresources and do not overlap.
WholeAndApart(t) ==
  /\ t \in Seq(Attachments) /\ \A i \in DOMAIN t : t[i].parts = Halves
  /\ \A i, j \in DOMAIN t : i # j => t[i].unit # t[j].unit

Ready(acc, a) == a.unit \in Volumes /\ ~acc.marks[a.unit]

LEMMA MipGood ==
  ASSUME NEW r, NEW lost, NEW acc \in Good(r, lost), NEW a \in Attachments
  PROVE  /\ MipCleared(acc, a) \in Good(r, lost) /\ MipCleared(acc, a).marks = acc.marks
         /\ \A v \in Units, h \in Halves :
              After(r, acc.copies).mem[v][h] # "garbage" \/ (Ready(acc, a) /\ v = a.unit)
                => After(r, MipCleared(acc, a).copies).mem[v][h] # "garbage"
<1> DEFINE u == a.unit
           now == After(r, acc.copies)
           new == Ran(now, Clear(u))
<1>1. CASE ~Ready(acc, a)
  BY <1>1 DEF Ready, MipCleared
<1>2. CASE Ready(acc, a)
  <2>a. u \in Units
    BY DEF Attachments
  <2>1. /\ MipCleared(acc, a) = [copies |-> Append(acc.copies, Clear(u)), marks |-> acc.marks]
        /\ ~acc.marks[u]
    BY <1>2 DEF MipCleared, Good, Ready
  <2> HIDE DEF u
  <2>2. Agrees(acc.marks, lost, now) /\ acc.copies \in CopyLists
    BY DEF Good
  <2>3. After(r, MipCleared(acc, a).copies) = new
    BY <2>a, <2>1, <2>2, AfterOne, CopiesTyped
  <2> HIDE DEF now
  <2>4. now \in Memories /\ \A h \in Halves : now.mem[u][h] # "data"
    BY <2>a, <2>1, <2>2 DEF Agrees
  <2>5. /\ new \in Memories /\ new.spoiled = now.spoiled
        /\ new.wiped <=> now.wiped
        /\ \A v \in Units, h \in Halves :
             new.mem[v][h] = IF v = u THEN "zero" ELSE now.mem[v][h]
    BY <2>a, <2>4, RanClear
  <2> HIDE DEF new
  <2>6. Agrees(acc.marks, lost, new)
    BY <2>2, <2>5 DEF Agrees
  <2>7. [copies |-> Append(acc.copies, Clear(u)), marks |-> acc.marks] \in Good(r, lost)
    BY <2>a, <2>6, CopiesTyped, GoodNext DEF new, now
  <2>8. \A v \in Units, h \in Halves :
          now.mem[v][h] # "garbage" \/ (Ready(acc, a) /\ v = u) => new.mem[v][h] # "garbage"
    BY <2>5
  <2>9. MipCleared(acc, a) \in Good(r, lost) /\ MipCleared(acc, a).marks = acc.marks
    BY <2>1, <2>7
  <2>10. QED
    BY <2>3, <2>8, <2>9 DEF now, u
<1>3. QED
  BY <1>1, <1>2

\* Before the pass, every 3D mip with a slice attached is marked or cleared.
LEMMA MipsGood ==
  ASSUME NEW r, NEW lost, NEW acc \in Good(r, lost), NEW t \in Seq(Attachments), NEW ready,
         ready = FoldLeft(MipCleared, acc, t)
  PROVE  /\ ready \in Good(r, lost) /\ ready.marks = acc.marks
         /\ \A i \in DOMAIN t, h \in Halves : Ready(acc, t[i])
              => After(r, ready.copies).mem[t[i].unit][h] # "garbage"
<1> DEFINE n == Len(t)
<1>a. n \in Nat /\ DOMAIN t = 1 .. n /\ \A i \in 1 .. n : t[i] \in Attachments
  OBVIOUS
<1>b. \A i \in 1 .. n : t[i].unit \in Units
  BY <1>a DEF Attachments
<1>1. ready = MipFold!Fold(0, acc, t)
  BY DEF FoldLeft, MapThenFoldSet, Max, MipFold!Fold, MipFold!Iteration, MipFold!Top
<1>2. PICK p : MipFold!Through(0, p, acc, t) /\ ready = p[n]
  BY <1>1, MipFold!FoldThrough
<1>3. p[0] = acc /\ \A k \in 1 .. n : p[k] = MipCleared(p[k - 1], t[k])
  BY <1>2 DEF MipFold!Through
<1> HIDE DEF n
<1> DEFINE Done(k) == /\ p[k] \in Good(r, lost) /\ p[k].marks = acc.marks
                      /\ \A i \in 1 .. k, h \in Halves : Ready(acc, t[i])
                           => After(r, p[k].copies).mem[t[i].unit][h] # "garbage"
           A == {k \in 0 .. n : Done(k)}
<1>4. 0 \in A
  BY <1>a, <1>3
<1>5. ASSUME NEW k \in 1 .. n, k - 1 \in A PROVE k \in A
  <2> DEFINE old == p[k - 1]
             new == p[k]
  <2>1. old \in Good(r, lost) /\ old.marks = acc.marks /\ t[k] \in Attachments
    BY <1>5, <1>a
  <2>2. \A i \in 1 .. (k - 1), h \in Halves : Ready(acc, t[i])
          => After(r, old.copies).mem[t[i].unit][h] # "garbage"
    BY <1>5
  <2>3. new = MipCleared(old, t[k])
    BY <1>3
  <2> HIDE DEF old, new, Done
  <2>s. \A a \in Attachments :
          LET next == MipCleared(old, a) IN
          /\ next \in Good(r, lost) /\ next.marks = old.marks
          /\ \A v \in Units, h \in Halves :
               After(r, old.copies).mem[v][h] # "garbage" \/ (Ready(old, a) /\ v = a.unit)
                 => After(r, next.copies).mem[v][h] # "garbage"
    BY <2>1, MipGood
  <2>4. /\ new \in Good(r, lost) /\ new.marks = acc.marks
        /\ \A v \in Units, h \in Halves :
             After(r, old.copies).mem[v][h] # "garbage" \/ (Ready(old, t[k]) /\ v = t[k].unit)
               => After(r, new.copies).mem[v][h] # "garbage"
    BY <2>1, <2>3, <2>s
  <2>5. Ready(old, t[k]) <=> Ready(acc, t[k])
    BY <2>1 DEF Ready
  <2>6. ASSUME NEW i \in 1 .. k, NEW h \in Halves, Ready(acc, t[i])
        PROVE  After(r, new.copies).mem[t[i].unit][h] # "garbage"
    <3>1. i \in 1 .. n /\ t[i].unit \in Units
      BY <1>a, <1>b
    <3>2. CASE i = k
      BY <2>4, <2>5, <2>6, <3>1, <3>2
    <3>3. CASE i # k
      <4>1. i \in 1 .. (k - 1)
        BY <3>3, <1>a
      <4>2. QED
        BY <2>2, <2>4, <2>6, <3>1, <4>1
    <3>4. QED
      BY <3>2, <3>3
  <2>7. Done(k)
    BY <2>4, <2>6 DEF Done, new
  <2>8. QED
    BY <1>a, <2>7
<1> HIDE DEF A, Done
<1>6. \A k \in 0 .. n : k \in A
  BY <1>a, <1>4, <1>5, MipFold!Counting
<1>7. Done(n)
  BY <1>a, <1>6 DEF A
<1>8. QED
  BY <1>a, <1>2, <1>7 DEF Done

\* None of the first k attachments is of u.
Untouched(k, t, u) == \A i \in 1 .. k : t[i].unit # u

LEMMA StoredMarks ==
  ASSUME NEW t, WholeAndApart(t), NEW marks \in [Units -> BOOLEAN], NEW final,
         final = FoldLeft(Stored, marks, t)
  PROVE  /\ final \in [Units -> BOOLEAN]
         /\ \A i \in DOMAIN t : final[t[i].unit] = t[i].store
         /\ \A u \in Units : (\A i \in DOMAIN t : t[i].unit # u) => final[u] = marks[u]
<1> DEFINE n == Len(t)
<1>a. n \in Nat /\ DOMAIN t = 1 .. n /\ t \in Seq(Attachments) /\ \A i \in 1 .. n : t[i] \in Attachments
  BY DEF WholeAndApart
<1>b. \A i \in 1 .. n : t[i].unit \in Units /\ t[i].store \in BOOLEAN
  BY <1>a DEF Attachments
<1>c. \A i, j \in 1 .. n : i # j => t[i].unit # t[j].unit
  BY <1>a DEF WholeAndApart
<1>1. final = StoredFold!Fold(0, marks, t)
  BY DEF FoldLeft, MapThenFoldSet, Max, StoredFold!Fold, StoredFold!Iteration, StoredFold!Top
<1>2. PICK p : StoredFold!Through(0, p, marks, t) /\ final = p[n]
  BY <1>a, <1>1, StoredFold!FoldThrough
<1>3. p[0] = marks /\ \A k \in 1 .. n : p[k] = [p[k - 1] EXCEPT ![t[k].unit] = t[k].store]
  BY <1>2 DEF StoredFold!Through, Stored
<1> HIDE DEF n
<1> DEFINE Done(k) == /\ p[k] \in [Units -> BOOLEAN]
                      /\ \A i \in 1 .. k : p[k][t[i].unit] = t[i].store
                      /\ \A u \in Units : Untouched(k, t, u) => p[k][u] = marks[u]
           A == {k \in 0 .. n : Done(k)}
<1>4. 0 \in A
  BY <1>a, <1>3
<1>5. ASSUME NEW k \in 1 .. n, k - 1 \in A PROVE k \in A
  <2> DEFINE old == p[k - 1]
             new == p[k]
             w == t[k].unit
  <2>1. /\ old \in [Units -> BOOLEAN] /\ w \in Units /\ t[k].store \in BOOLEAN
        /\ \A i \in 1 .. (k - 1) : old[t[i].unit] = t[i].store
        /\ \A u \in Units : Untouched(k - 1, t, u) => old[u] = marks[u]
    BY <1>5, <1>b
  <2>2. new = [old EXCEPT ![w] = t[k].store]
    BY <1>3
  <2>3. /\ \A i \in 1 .. k : i = k \/ i \in 1 .. (k - 1)
        /\ \A i \in 1 .. (k - 1) : i \in 1 .. n /\ i # k /\ i \in 1 .. k
        /\ k \in 1 .. k
    BY <1>a
  <2> HIDE DEF old, new
  <2>4. new \in [Units -> BOOLEAN] /\ new[w] = t[k].store /\ \A u \in Units : u # w => new[u] = old[u]
    BY <2>1, <2>2
  <2>5. \A i \in 1 .. (k - 1) : t[i].unit # w /\ t[i].unit \in Units
    BY <1>b, <1>c, <2>3
  <2>6. \A i \in 1 .. k : new[t[i].unit] = t[i].store
    BY <2>1, <2>3, <2>4, <2>5
  <2>7. \A u \in Units : Untouched(k, t, u) => new[u] = marks[u]
    BY <2>1, <2>3, <2>4 DEF Untouched
  <2> HIDE DEF w
  <2>8. Done(k)
    BY <2>4, <2>6, <2>7 DEF new
  <2>9. QED
    BY <1>a, <2>8
<1> HIDE DEF A, Done
<1>6. \A k \in 0 .. n : k \in A
  BY <1>a, <1>4, <1>5, StoredFold!Counting
<1>7. Done(n)
  BY <1>a, <1>6 DEF A
<1>8. QED
  BY <1>a, <1>2, <1>7 DEF Done, Untouched

\* A load operation that the memory bears: it loads no garbage and lets the
\* queue clear no data.
Bears(r, lost, load, u) ==
  /\ load \in Loads \cup {"zero"}
  /\ load = "load" => u \in lost \/ \A h \in Halves : r.mem[u][h] # "garbage"
  /\ load = "zero" => \A h \in Halves : r.mem[u][h] # "data"

BearsAll(r, lost, t, L) == \A i \in DOMAIN t : Bears(r, lost, L[i], t[i].unit)

\* The copies of a pass, with the load operations L.
AttachList(t, L) == [i \in DOMAIN t |-> Attach(t[i], L[i])]

\* An attachment that covers its subresource is loaded, then stored or discarded.
Outcome(a) == IF a.store THEN "data" ELSE "garbage"

LEMMA RanWhole ==
  ASSUME NEW r \in Memories, NEW a \in Attachments, a.parts = Halves, NEW load \in Loads \cup {"zero"},
         NEW new, new = Ran(r, Attach(a, load))
  PROVE  /\ Attach(a, load) \in Copies /\ new \in Memories
         /\ new.spoiled \subseteq r.spoiled \cup {a.unit}
         /\ (load # "load" \/ \A h \in Halves : r.mem[a.unit][h] # "garbage")
              => new.spoiled = r.spoiled
         /\ new.wiped <=> (r.wiped \/ (load = "zero" /\ \E h \in Halves : r.mem[a.unit][h] = "data"))
         /\ \A v \in Units, h \in Halves :
              new.mem[v][h] = IF v = a.unit THEN Outcome(a) ELSE r.mem[v][h]
<1> DEFINE u == a.unit
           x == Outcome(a)
           c == Attach(a, load)
           s == r.spoiled \cup (IF load = "load" THEN Spoils(r.mem, u, Halves) ELSE {})
           w == r.wiped \/ (load = "zero" /\ "data" \in Held(r.mem, u, Halves))
           f == Filled(r.mem, u, Halves, x)
<1>a. u \in Units /\ a.store \in BOOLEAN /\ x \in {"garbage", "zero", "data"}
  BY DEF Attachments, Outcome
<1>b. c = [do |-> "attach", unit |-> u, parts |-> Halves, load |-> load, store |-> a.store]
  BY DEF Attach
<1>c. c \in Copies
  BY <1>a, <1>b DEF Copies
<1> HIDE DEF c, u
<1>1. new = [r EXCEPT !.spoiled = s, !.wiped = w, !.mem = f]
  BY <1>b DEF Ran, Memories, Outcome, c
<1>2. /\ s \in SUBSET Units /\ s \subseteq r.spoiled \cup {u}
      /\ (load # "load" \/ \A h \in Halves : r.mem[u][h] # "garbage") => s = r.spoiled
  BY <1>a DEF Memories, Spoils, Held
<1>3. w \in BOOLEAN /\ (w <=> (r.wiped \/ (load = "zero" /\ \E h \in Halves : r.mem[u][h] = "data")))
  BY DEF Memories, Held
<1>4. f \in Mems /\ \A v \in Units, h \in Halves : f[v][h] = IF v = u THEN x ELSE r.mem[v][h]
  <2>1. r.mem \in Mems
    BY DEF Memories
  <2> HIDE DEF x
  <2>2. QED
    BY <1>a, <2>1, FilledTyped
<1> HIDE DEF s, w, f, x
<1>5. w \in BOOLEAN
  BY <1>3
<1>6. new \in Memories /\ new.spoiled = s /\ new.wiped = w /\ new.mem = f
  BY <1>1, <1>2, <1>4, <1>5 DEF Memories
<1>7. QED
  BY <1>2, <1>3, <1>4, <1>6, <1>c DEF c, u, x

\* What a pass leaves: in each attachment what it stores, or garbage.
PassMemory(r, lost, t, new) ==
  /\ new \in Memories /\ new.spoiled \subseteq lost /\ ~new.wiped
  /\ \A i \in DOMAIN t, h \in Halves : new.mem[t[i].unit][h] = Outcome(t[i])
  /\ \A u \in Units : (\A i \in DOMAIN t : t[i].unit # u) =>
       \A h \in Halves : new.mem[u][h] = r.mem[u][h]

LEMMA AttachedMemory ==
  ASSUME NEW t, WholeAndApart(t), NEW lost \in SUBSET Units, NEW r \in Memories,
         r.spoiled \subseteq lost, ~r.wiped,
         NEW L, BearsAll(r, lost, t, L), NEW final, final = After(r, AttachList(t, L))
  PROVE  AttachList(t, L) \in CopyLists /\ PassMemory(r, lost, t, final)
<1> DEFINE n == Len(t)
           attach == AttachList(t, L)
<1>z. attach = [i \in DOMAIN t |-> Attach(t[i], L[i])] /\ final = After(r, attach)
  BY DEF AttachList
<1>y. \A i \in DOMAIN t : Bears(r, lost, L[i], t[i].unit)
  BY DEF BearsAll
<1> HIDE DEF attach
<1>a. n \in Nat /\ DOMAIN t = 1 .. n /\ t \in Seq(Attachments) /\ \A i \in 1 .. n : t[i] \in Attachments
  BY DEF WholeAndApart
<1>b. \A i \in 1 .. n : t[i].unit \in Units /\ t[i].store \in BOOLEAN /\ t[i].parts = Halves
  BY <1>a DEF Attachments, WholeAndApart
<1>c. \A i, j \in 1 .. n : i # j => t[i].unit # t[j].unit
  BY <1>a DEF WholeAndApart
<1>d. \A i \in 1 .. n : attach[i] = Attach(t[i], L[i]) /\ attach[i] \in Copies
  <2> SUFFICES ASSUME NEW i \in 1 .. n PROVE attach[i] = Attach(t[i], L[i]) /\ Attach(t[i], L[i]) \in Copies
    OBVIOUS
  <2>1. attach[i] = Attach(t[i], L[i])
    BY <1>a, <1>z
  <2>2. L[i] \in Loads \cup {"zero"}
    BY <1>a, <1>y DEF Bears
  <2>3. QED
    BY <1>b, <2>1, <2>2 DEF Attach, Copies
<1>e. attach \in Seq(Copies) /\ Len(attach) = n
  <2>1. attach \in [1 .. n -> Copies]
    BY <1>a, <1>d, <1>z
  <2>2. QED
    BY <1>a, <2>1
<1>1. final = RanFold!Fold(0, r, attach)
  BY <1>z, AfterIsFold
<1>2. PICK p : RanFold!Through(0, p, r, attach) /\ final = p[n]
  BY <1>1, <1>e, RanFold!FoldThrough
<1>3. p[0] = r /\ \A k \in 1 .. n : p[k] = Ran(p[k - 1], attach[k])
  BY <1>2, <1>e DEF RanFold!Through
<1> HIDE DEF n
<1> DEFINE Done(k) == /\ p[k] \in Memories /\ p[k].spoiled \subseteq lost /\ ~p[k].wiped
                      /\ \A i \in 1 .. k, h \in Halves : p[k].mem[t[i].unit][h] = Outcome(t[i])
                      /\ \A u \in Units : Untouched(k, t, u) =>
                           \A h \in Halves : p[k].mem[u][h] = r.mem[u][h]
           A == {k \in 0 .. n : Done(k)}
<1>4. 0 \in A
  BY <1>a, <1>3
<1>5. ASSUME NEW k \in 1 .. n, k - 1 \in A PROVE k \in A
  <2> DEFINE old == p[k - 1]
             new == p[k]
             w == t[k].unit
             c == Attach(t[k], L[k])
  <2>1. /\ old \in Memories /\ old.spoiled \subseteq lost /\ ~old.wiped
        /\ \A i \in 1 .. (k - 1), h \in Halves : old.mem[t[i].unit][h] = Outcome(t[i])
        /\ \A u \in Units : Untouched(k - 1, t, u) => \A h \in Halves : old.mem[u][h] = r.mem[u][h]
    BY <1>5
  <2>2. new = Ran(old, c)
    BY <1>3, <1>d
  <2>3. /\ \A i \in 1 .. k : i = k \/ i \in 1 .. (k - 1)
        /\ \A i \in 1 .. (k - 1) : i \in 1 .. n /\ i # k /\ i \in 1 .. k
        /\ k \in 1 .. k
    BY <1>a
  <2>4. w \in Units /\ t[k].store \in BOOLEAN /\ Bears(r, lost, L[k], w)
    BY <1>a, <1>b, <1>y
  <2>5. t[k] \in Attachments /\ t[k].parts = Halves /\ L[k] \in Loads \cup {"zero"}
    BY <1>a, <1>b, <2>4 DEF Bears
  <2>6. \A i \in 1 .. (k - 1) : t[i].unit # w /\ t[i].unit \in Units
    BY <1>b, <1>c, <2>3
  <2> HIDE DEF old, new, w, c
  <2>7. \A h \in Halves : old.mem[w][h] = r.mem[w][h]
    BY <2>1, <2>4, <2>6 DEF Untouched
  <2>8. /\ new \in Memories
        /\ new.spoiled \subseteq old.spoiled \cup {w}
        /\ (L[k] # "load" \/ \A h \in Halves : old.mem[w][h] # "garbage") => new.spoiled = old.spoiled
        /\ new.wiped <=> (old.wiped \/ (L[k] = "zero" /\ \E h \in Halves : old.mem[w][h] = "data"))
        /\ \A v \in Units, h \in Halves :
             new.mem[v][h] = IF v = w THEN Outcome(t[k]) ELSE old.mem[v][h]
    <3> DEFINE a == t[k]
               load == L[k]
    <3>1. /\ a \in Attachments /\ a.parts = Halves /\ load \in Loads \cup {"zero"}
          /\ new = Ran(old, Attach(a, load))
      BY <2>2, <2>5 DEF c
    <3> HIDE DEF a, load
    <3>2. /\ new \in Memories
          /\ new.spoiled \subseteq old.spoiled \cup {a.unit}
          /\ (load # "load" \/ \A h \in Halves : old.mem[a.unit][h] # "garbage")
               => new.spoiled = old.spoiled
          /\ new.wiped <=> (old.wiped \/ (load = "zero" /\ \E h \in Halves : old.mem[a.unit][h] = "data"))
          /\ \A v \in Units, h \in Halves :
               new.mem[v][h] = IF v = a.unit THEN Outcome(a) ELSE old.mem[v][h]
      BY <2>1, <3>1, RanWhole
    <3>3. QED
      BY <3>2 DEF a, load, w
  <2>9. new.spoiled \subseteq lost /\ ~new.wiped
    <3>1. ~new.wiped
      BY <2>1, <2>4, <2>7, <2>8 DEF Bears
    <3>2. CASE w \in lost
      BY <2>1, <2>8, <3>1, <3>2
    <3>3. CASE w \notin lost
      BY <2>1, <2>4, <2>7, <2>8, <3>1, <3>3 DEF Bears
    <3>4. QED
      BY <3>2, <3>3
  <2>10. \A i \in 1 .. k, h \in Halves : new.mem[t[i].unit][h] = Outcome(t[i])
    <3>1. \A h \in Halves : new.mem[t[k].unit][h] = Outcome(t[k])
      BY <2>4, <2>8 DEF w
    <3>2. QED
      BY <2>1, <2>3, <2>6, <2>8, <3>1
  <2>11. \A u \in Units : Untouched(k, t, u) => \A h \in Halves : new.mem[u][h] = r.mem[u][h]
    <3>1. \A u \in Units : Untouched(k, t, u) => Untouched(k - 1, t, u) /\ u # w
      BY <2>3 DEF Untouched, w
    <3>2. QED
      BY <2>1, <2>8, <3>1
  <2>12. Done(k)
    BY <2>8, <2>9, <2>10, <2>11 DEF new
  <2>13. QED
    BY <1>a, <2>12
<1> HIDE DEF A, Done
<1>6. \A k \in 0 .. n : k \in A
  BY <1>a, <1>4, <1>5, RanFold!Counting
<1>7. Done(n)
  BY <1>a, <1>6 DEF A
<1>8. QED
  BY <1>a, <1>e, <1>2, <1>7 DEF Done, Untouched, CopyLists, PassMemory, attach

\* A whole pass: its clears, its attachments, its marks.
LEMMA TargetsGood ==
  ASSUME NEW r, NEW lost \in SUBSET Units, NEW acc \in Good(r, lost), NEW t, WholeAndApart(t)
  PROVE  LowerTargets(acc, t) \in Good(r, lost)
<1> DEFINE ready == FoldLeft(MipCleared, acc, t)
           L == [i \in DOMAIN t |-> LoadOf(acc, t[i])]
           attach == [i \in DOMAIN t |-> Attach(t[i], LoadOf(acc, t[i]))]
           marks == FoldLeft(Stored, acc.marks, t)
           now == After(r, ready.copies)
           final == After(now, attach)
<1>1. LowerTargets(acc, t) = [copies |-> ready.copies \o attach, marks |-> marks]
  BY DEF LowerTargets
<1>2. t \in Seq(Attachments) /\ \A i \in DOMAIN t : t[i] \in Attachments
  BY DEF WholeAndApart
<1>3. /\ ready \in Good(r, lost) /\ ready.marks = acc.marks
      /\ \A i \in DOMAIN t, h \in Halves : Ready(acc, t[i]) => now.mem[t[i].unit][h] # "garbage"
  BY <1>2, MipsGood
<1>4. attach = AttachList(t, L)
  BY DEF AttachList
<1>5. /\ marks \in [Units -> BOOLEAN]
      /\ \A i \in DOMAIN t : marks[t[i].unit] = t[i].store
      /\ \A u \in Units : (\A i \in DOMAIN t : t[i].unit # u) => marks[u] = acc.marks[u]
  <2>1. acc.marks \in [Units -> BOOLEAN]
    BY DEF Good
  <2>2. QED
    BY <2>1, StoredMarks
<1>6. Agrees(acc.marks, lost, now) /\ ready.copies \in CopyLists
  BY <1>3 DEF Good
<1>7. ASSUME NEW i \in DOMAIN t PROVE Bears(now, lost, L[i], t[i].unit)
  <2> DEFINE u == t[i].unit
  <2>1. u \in Units /\ t[i].load \in Loads
    BY <1>2 DEF Attachments
  <2>2. L[i] = IF t[i].load = "load" /\ ~acc.marks[u] /\ u \notin Volumes THEN "zero" ELSE t[i].load
    BY DEF LoadOf
  <2>3. Ready(acc, t[i]) => \A h \in Halves : now.mem[u][h] # "garbage"
    BY <1>3
  <2>4. Ready(acc, t[i]) <=> (u \in Volumes /\ ~acc.marks[u])
    BY DEF Ready
  <2> HIDE DEF u, L, now
  <2>5. L[i] \in Loads \cup {"zero"}
    BY <2>1, <2>2
  <2>6. L[i] = "load" => u \in lost \/ \A h \in Halves : now.mem[u][h] # "garbage"
    BY <1>6, <2>1, <2>2, <2>3, <2>4 DEF Agrees
  <2>7. L[i] = "zero" => \A h \in Halves : now.mem[u][h] # "data"
    BY <1>6, <2>1, <2>2 DEF Agrees, Loads
  <2>8. QED
    BY <2>5, <2>6, <2>7 DEF Bears, u
<1>8. now \in Memories /\ now.spoiled \subseteq lost /\ ~now.wiped
  BY <1>6 DEF Agrees
<1> HIDE DEF now, L, attach, ready, marks
<1>z. BearsAll(now, lost, t, L)
  BY <1>7 DEF BearsAll
<1>y. final = After(now, AttachList(t, L))
  BY <1>4
<1> HIDE DEF final
<1>9. /\ AttachList(t, L) \in CopyLists
      /\ final \in Memories /\ final.spoiled \subseteq lost /\ ~final.wiped
      /\ \A i \in DOMAIN t, h \in Halves : final.mem[t[i].unit][h] = Outcome(t[i])
      /\ \A u \in Units : (\A i \in DOMAIN t : t[i].unit # u) =>
           \A h \in Halves : final.mem[u][h] = now.mem[u][h]
  <2>1. AttachList(t, L) \in CopyLists /\ PassMemory(now, lost, t, final)
    BY <1>8, <1>y, <1>z, AttachedMemory
  <2>2. QED
    BY <2>1 DEF PassMemory
<1>10. After(r, ready.copies \o attach) = final
  BY <1>4, <1>6, <1>9, AfterBoth DEF now, final
<1>11. ASSUME NEW u \in Units, NEW h \in Halves
       PROVE  /\ (marks[u] /\ u \notin lost) => final.mem[u][h] # "garbage"
              /\ ~marks[u] => final.mem[u][h] # "data"
  <2>1. CASE \E i \in DOMAIN t : t[i].unit = u
    BY <1>5, <1>9, <2>1 DEF Outcome
  <2>2. CASE \A i \in DOMAIN t : t[i].unit # u
    BY <1>5, <1>6, <1>9, <2>2 DEF Agrees
  <2>3. QED
    BY <2>1, <2>2
<1>12. Agrees(marks, lost, final)
  BY <1>5, <1>9, <1>11 DEF Agrees
<1>13. ready.copies \o attach \in CopyLists
  BY <1>4, <1>6, <1>9 DEF CopyLists
<1> DEFINE cs == ready.copies \o attach
<1>14. Agrees(marks, lost, After(r, cs)) /\ cs \in CopyLists
  BY <1>10, <1>12, <1>13
<1>15. LowerTargets(acc, t) = [copies |-> cs, marks |-> marks]
  BY <1>1
<1> HIDE DEF cs
<1>16. QED
  BY <1>5, <1>14, <1>15 DEF Good

-----------------------------------------------------------------------------
(* Lowering a submission                                                   *)

\* The attachments of a pass cover their subresources, which leaves out single
\* depth slices of a 3D mip level, and no two are of the same subresource: the
\* usage scope rejects two attachment writes (set_attachment_texture_uses).
AttachmentsWhole == \A t \in Targets : WholeAndApart(t)

LEMMA LoweredGood ==
  ASSUME AttachmentsWhole, NEW r, NEW lost \in SUBSET Units, NEW acc \in Good(r, lost), NEW op \in Op
  PROVE  Lowered(acc, op) \in Good(r, lost)
<1>1. CASE op.op = "in"
  <2>1. op.unit \in Units /\ op.full \in BOOLEAN
    BY <1>1 DEF Op, CopyOps, RenderOps, DispatchOps
  <2>2. Lowered(acc, op) = CleanlyWritten(acc, op.unit, op.full)
    BY <1>1 DEF Lowered, CleanlyWritten
  <2>3. QED
    BY <2>1, <2>2, WriteGood
<1>2. CASE op.op = "out"
  <2>1. op.unit \in Units
    BY <1>2 DEF Op, CopyOps, RenderOps, DispatchOps
  <2>2. Lowered(acc, op) = ReadFirst(acc, op.unit)
    BY <1>2 DEF Lowered, ReadFirst
  <2>3. QED
    BY <2>1, <2>2, ReadFirstGood
<1>3. CASE op.op \in {"dispatch", "render"}
  <2>1. Bound(op) \in SUBSET Units
    BY DEF Bound
  <2>2. Sampled(acc, Bound(op)) \in Good(r, lost)
    BY <2>1, SampledGood
  <2>3. CASE op.op = "dispatch"
    BY <2>2, <2>3 DEF Lowered
  <2>4. CASE op.op = "render"
    <3>1. op.targets \in Targets
      BY <2>4 DEF Op, CopyOps, RenderOps, DispatchOps
    <3>2. WholeAndApart(op.targets)
      BY <3>1 DEF AttachmentsWhole
    <3>3. LowerTargets(Sampled(acc, Bound(op)), op.targets) \in Good(r, lost)
      BY <2>2, <3>2, TargetsGood
    <3>4. QED
      BY <2>4, <3>3 DEF Lowered
  <2>5. QED
    BY <1>3, <2>3, <2>4
<1>4. op.op \in {"in", "out", "dispatch", "render"}
  BY DEF Op, CopyOps, RenderOps, DispatchOps
<1>5. QED
  BY <1>1, <1>2, <1>3, <1>4

LEMMA LoweringGood ==
  ASSUME AttachmentsWhole, NEW r, NEW lost \in SUBSET Units, Start \in Good(r, lost), cb.ops \in OpLists
  PROVE  Lowering \in Good(r, lost)
<1>1. Lowering = LoweredFold!Fold(0, Start, cb.ops)
  BY DEF Lowering, FoldLeft, MapThenFoldSet, Max, LoweredFold!Fold, LoweredFold!Iteration, LoweredFold!Top
<1>2. \A acc \in Good(r, lost), op \in Op : Lowered(acc, op) \in Good(r, lost)
  BY LoweredGood
<1>3. QED
  BY <1>1, <1>2, LoweredFold!FoldStays DEF OpLists

-----------------------------------------------------------------------------
(* The inductive invariant                                                 *)

Current == [mem |-> mem, spoiled |-> spoiled, wiped |-> wiped]

\* The copies of queue writes to what is marked.
Queued(marks) == {c \in Copies : c.do \in {"clear", "write"} /\ marks[c.unit]}

\* The marks are those of the memory as it will be once the queue writes that
\* wait have run.
LazyInv ==
  /\ marked \in [Units -> BOOLEAN] /\ dropped \in SUBSET Units
  /\ Current \in Memories /\ pending \in Seq(Queued(marked))
  /\ Agrees(marked, dropped, After(Current, pending))

\* Queue writes only write: what they do not write stays, and no history is lost.
LEMMA QueuedRuns ==
  ASSUME NEW r \in Memories, NEW marks, NEW copies \in Seq(Queued(marks))
  PROVE  /\ After(r, copies) \in Memories
         /\ After(r, copies).spoiled = r.spoiled
         /\ r.wiped => After(r, copies).wiped
         /\ \A u \in Units : (\A i \in DOMAIN copies : copies[i].unit # u) =>
              \A h \in Halves : After(r, copies).mem[u][h] = r.mem[u][h]
<1> DEFINE U == {copies[i].unit : i \in DOMAIN copies}
           C == {c \in Queued(marks) : c.unit \in U}
           V == {v \in Memories : /\ v.spoiled = r.spoiled /\ (r.wiped => v.wiped)
                                  /\ \A u \in Units \ U, h \in Halves : v.mem[u][h] = r.mem[u][h]}
<1>1. copies \in Seq(C)
  OBVIOUS
<1>2. ASSUME NEW v \in V, NEW c \in C PROVE Ran(v, c) \in V
  <2>1. c \in Copies /\ c.do \in {"clear", "write"} /\ c.unit \in U /\ c.unit \in Units /\ v \in Memories
    BY DEF Queued, Copies
  <2>2. CASE c.do = "clear"
    <3>1. c = Clear(c.unit)
      BY <2>1, <2>2 DEF Copies, Clear
    <3>2. /\ Ran(v, c) \in Memories /\ Ran(v, c).spoiled = v.spoiled
          /\ Ran(v, c).wiped <=> (v.wiped \/ \E h \in Halves : v.mem[c.unit][h] = "data")
          /\ \A u \in Units, h \in Halves :
               Ran(v, c).mem[u][h] = IF u = c.unit THEN "zero" ELSE v.mem[u][h]
      BY <2>1, <3>1, RanClear
    <3>3. QED
      BY <2>1, <3>2
  <2>3. CASE c.do = "write"
    <3>1. c = Write(c.unit, c.parts) /\ c.parts \in SUBSET Halves
      BY <2>1, <2>3 DEF Copies, Write
    <3>2. /\ Ran(v, c) \in Memories /\ Ran(v, c).spoiled = v.spoiled /\ Ran(v, c).wiped = v.wiped
          /\ \A u \in Units, h \in Halves :
               Ran(v, c).mem[u][h] = IF u = c.unit /\ h \in c.parts THEN "data" ELSE v.mem[u][h]
      BY <2>1, <3>1, RanWrite
    <3>3. QED
      BY <2>1, <3>2
  <2>4. QED
    BY <2>1, <2>2, <2>3
<1>3. r \in V
  OBVIOUS
<1> DEFINE new == After(r, copies)
<1> HIDE DEF C, V
<1>4. new \in V
  BY <1>1, <1>2, <1>3, AfterStays
<1> HIDE DEF new
<1>5. /\ new \in Memories /\ new.spoiled = r.spoiled /\ (r.wiped => new.wiped)
      /\ \A u \in Units \ U, h \in Halves : new.mem[u][h] = r.mem[u][h]
  BY <1>4 DEF V
<1>6. \A u \in Units : (\A i \in DOMAIN copies : copies[i].unit # u) => u \in Units \ U
  OBVIOUS
<1> HIDE DEF U
<1>7. QED
  BY <1>5, <1>6 DEF new

LEMMA QueuedAreCopies ==
  ASSUME NEW marks
  PROVE  Seq(Queued(marks)) \subseteq CopyLists
BY DEF Queued, CopyLists

-----------------------------------------------------------------------------
(* The steps of the queue                                                  *)

\* Copies that run, and agree with the marks, leave nothing to do.
LEMMA RunKept ==
  ASSUME LazyInv, NEW copies, Run(copies), pending' = <<>>, dropped' = dropped,
         Agrees(marked', dropped, After(Current, copies))
  PROVE  LazyInv'
<1> DEFINE new == After(Current, copies)
<1>1. mem' = new.mem /\ spoiled' = new.spoiled /\ wiped' = new.wiped
  BY DEF Run, After, Current
<1>2. new \in Memories /\ Agrees(marked', dropped, new)
  BY DEF Agrees
<1> HIDE DEF new
<1>3. Current' = new
  BY <1>1, <1>2 DEF Current, Memories
<1>4. After(Current', <<>>) = new
  BY <1>3, AfterNone
<1>5. pending' \in Seq(Queued(marked'))
  OBVIOUS
<1>6. After(Current', pending') = new
  BY <1>4
<1>7. marked' \in [Units -> BOOLEAN] /\ dropped' \in SUBSET Units
  BY <1>2 DEF Agrees, LazyInv
<1>8. Agrees(marked', dropped', After(Current', pending'))
  BY <1>2, <1>6
<1>9. QED
  BY <1>2, <1>3, <1>5, <1>7, <1>8 DEF LazyInv, After

\* Only the queue writes run.
LEMMA FlushKept ==
  ASSUME LazyInv, Run(pending), pending' = <<>>, UNCHANGED <<marked, dropped>>
  PROVE  LazyInv'
BY RunKept DEF LazyInv

\* Lost queue writes leave the memory behind their marks.
LEMMA DropKept ==
  ASSUME LazyInv, DropQueued, UNCHANGED <<marked, mem, spoiled, wiped>>
  PROVE  LazyInv'
<1> DEFINE new == After(Current, pending)
           lost == {pending[i].unit : i \in DOMAIN pending}
<1>1. /\ pending' = <<>> /\ dropped' = dropped \cup lost /\ Current' = Current
  BY DEF DropQueued, Current
<1>2. /\ Current \in Memories /\ pending \in Seq(Queued(marked)) /\ Agrees(marked, dropped, new)
      /\ dropped \in SUBSET Units /\ marked \in [Units -> BOOLEAN]
  BY DEF LazyInv
<1>3. /\ new.spoiled = Current.spoiled /\ (Current.wiped => new.wiped)
      /\ \A u \in Units : (\A i \in DOMAIN pending : pending[i].unit # u) =>
           \A h \in Halves : new.mem[u][h] = Current.mem[u][h]
  BY <1>2, QueuedRuns
<1>4. \A i \in DOMAIN pending : pending[i].unit \in Units /\ marked[pending[i].unit]
  BY <1>2 DEF Queued, Copies
<1> DEFINE now == Current
<1> HIDE DEF new, now
<1>5. ASSUME NEW u \in Units, NEW h \in Halves
      PROVE  /\ (marked[u] /\ u \notin dropped \cup lost) => now.mem[u][h] # "garbage"
             /\ ~marked[u] => now.mem[u][h] # "data"
  <2>1. CASE u \in lost
    BY <1>4, <2>1
  <2>2. CASE u \notin lost
    BY <1>2, <1>3, <2>2 DEF Agrees, now
  <2>3. QED
    BY <2>1, <2>2
<1>6. lost \subseteq Units
  BY <1>4
<1> HIDE DEF lost
<1>7. Agrees(marked, dropped \cup lost, now)
  BY <1>2, <1>3, <1>5 DEF Agrees, now
<1>8. After(now, <<>>) = now
  BY AfterNone
<1>9. marked' = marked /\ pending' = <<>> /\ Current' = now /\ dropped' = dropped \cup lost
  BY <1>1 DEF now
<1>10. Agrees(marked', dropped', After(Current', pending'))
  BY <1>7, <1>8, <1>9
<1>11. pending' \in Seq(Queued(marked')) /\ Current' \in Memories /\ dropped' \in SUBSET Units
       /\ marked' \in [Units -> BOOLEAN]
  BY <1>2, <1>6, <1>9 DEF now
<1>12. QED
  BY <1>10, <1>11 DEF LazyInv, After

\* Before the commands of a submission, and before a queue write.
LEMMA StartGood ==
  ASSUME LazyInv
  PROVE  Start \in Good(After(Current, pending), dropped)
<1> DEFINE now == After(Current, pending)
<1>1. Agrees(marked, dropped, now)
  BY DEF LazyInv
<1> HIDE DEF now
<1>2. After(now, <<>>) = now /\ <<>> \in CopyLists
  BY AfterNone DEF CopyLists
<1>3. Start \in Good(now, dropped)
  BY <1>1, <1>2 DEF Start, Good, Agrees
<1>4. QED
  BY <1>3 DEF now

LEMMA SubmitKept ==
  ASSUME LazyInv, AttachmentsWhole, cb.ops \in OpLists, SubmitRuns
  PROVE  LazyInv'
<1> DEFINE now == After(Current, pending)
<1>1. dropped \in SUBSET Units /\ pending \in CopyLists
  BY QueuedAreCopies DEF LazyInv
<1>2. Lowering \in Good(now, dropped)
  BY <1>1, StartGood, LoweringGood
<1>3. /\ Lowering.copies \in CopyLists
      /\ Agrees(Lowering.marks, dropped, After(now, Lowering.copies))
  BY <1>2 DEF Good
<1>4. After(Current, pending \o Lowering.copies) = After(now, Lowering.copies)
  BY <1>1, <1>3, AfterBoth
<1>5. /\ Run(pending \o Lowering.copies) /\ pending' = <<>> /\ dropped' = dropped
      /\ marked' = Lowering.marks
  BY DEF SubmitRuns
<1> HIDE DEF now
<1>6. Agrees(marked', dropped, After(Current, pending \o Lowering.copies))
  BY <1>3, <1>4, <1>5
<1>7. QED
  BY <1>5, <1>6, RunKept

LEMMA WriteTextureKept ==
  ASSUME LazyInv, NEW u \in Units, NEW full \in BOOLEAN, WriteTexture(u, full)
  PROVE  LazyInv'
<1> DEFINE acc == CleanWrite(Start, u, full)
           last == Write(u, CoveredBy(full))
           copies == Append(acc.copies, last)
           now == After(Current, pending)
<1>1. /\ marked' = acc.marks /\ pending' = pending \o copies
      /\ dropped' = dropped /\ Current' = Current
  BY DEF WriteTexture, Current
<1>2. /\ dropped \in SUBSET Units /\ pending \in Seq(Queued(marked)) /\ marked \in [Units -> BOOLEAN]
      /\ Current \in Memories
  BY DEF LazyInv
<1>3. CleanlyWritten(Start, u, full) \in Good(now, dropped)
  BY StartGood, WriteGood
<1> DEFINE marks == [marked EXCEPT ![u] = TRUE]
           first == Append(<<>>, Clear(u))
<1>4. acc = [copies |-> <<>>, marks |-> marks] \/ acc = [copies |-> first, marks |-> marks]
  <2>1. Start = [copies |-> <<>>, marks |-> marked]
    BY DEF Start
  <2>2. CASE full
    BY <2>1, <2>2 DEF CleanWrite
  <2>3. CASE ~full /\ ~marked[u]
    BY <2>1, <2>3 DEF CleanWrite, CleanRead
  <2>4. CASE ~full /\ marked[u]
    <3>1. acc = Start
      BY <2>1, <2>4 DEF CleanWrite, CleanRead
    <3>2. marked = marks
      BY <1>2, <2>4
    <3> HIDE DEF marks, acc
    <3>3. QED
      BY <2>1, <3>1, <3>2
  <2>5. QED
    BY <2>2, <2>3, <2>4
<1>z. /\ acc = [copies |-> acc.copies, marks |-> marks] /\ acc.marks = marks
      /\ acc.copies = <<>> \/ acc.copies = first
  <2> HIDE DEF acc, marks, first
  <2>1. QED
    BY <1>4
<1>5. CleanlyWritten(Start, u, full) = [copies |-> copies, marks |-> marks]
  <2>1. CleanlyWritten(Start, u, full) = [acc EXCEPT !.copies = Append(acc.copies, last)]
    BY DEF CleanlyWritten
  <2> HIDE DEF acc, last, marks
  <2>2. QED
    BY <1>z, <2>1
<1> HIDE DEF acc, now, copies
<1>7. marks[u] /\ marks \in [Units -> BOOLEAN] /\ \A v \in Units : marked[v] => marks[v]
  BY <1>2
<1> HIDE DEF marks
<1>6. copies \in CopyLists /\ Agrees(marks, dropped, After(now, copies))
  BY <1>3, <1>5 DEF Good
<1>8. last \in Queued(marks) /\ Clear(u) \in Queued(marks) /\ Queued(marked) \subseteq Queued(marks)
  <2>1. last \in Copies /\ Clear(u) \in Copies /\ last.do = "write" /\ Clear(u).do = "clear"
        /\ last.unit = u /\ Clear(u).unit = u
    <3>1. CoveredBy(full) \in SUBSET Halves
      BY DEF CoveredBy, Halves
    <3>2. QED
      BY <3>1, CopiesTyped DEF Write, Clear
  <2>2. \A c \in Copies : c.unit \in Units
    BY DEF Copies
  <2> HIDE DEF last
  <2>3. QED
    BY <1>7, <2>1, <2>2 DEF Queued
<1> HIDE DEF last
<1>9. pending \o copies \in Seq(Queued(marks))
  <2>1. acc.copies \in Seq(Queued(marks))
    <3> DEFINE Q == Queued(marks)
               c == Clear(u)
    <3>1. c \in Q
      BY <1>8
    <3> HIDE DEF Q, c
    <3>2. <<>> \in Seq(Q) /\ Append(<<>>, c) \in Seq(Q)
      BY <3>1
    <3>3. <<>> \in Seq(Q) /\ first \in Seq(Q)
      BY <3>2 DEF c
    <3> HIDE DEF first
    <3>4. QED
      BY <3>3, <1>z DEF Q
  <2>2. copies \in Seq(Queued(marks))
    BY <1>8, <2>1 DEF copies
  <2>3. pending \in Seq(Queued(marks))
    BY <1>2, <1>8
  <2>4. QED
    BY <2>2, <2>3
<1>10. After(Current, pending \o copies) = After(now, copies)
  BY <1>2, <1>6, AfterBoth, QueuedAreCopies DEF now
<1>11. Agrees(marks, dropped, After(Current, pending \o copies))
  BY <1>6, <1>10
<1>12. marked' = marks /\ pending' = pending \o copies /\ Current' = Current
  BY <1>1, <1>z
<1>13. Agrees(marked', dropped', After(Current', pending'))
  BY <1>1, <1>11, <1>12
<1>14. QED
  BY <1>1, <1>2, <1>7, <1>9, <1>12, <1>13 DEF LazyInv, After

LEMMA LazyStep ==
  ASSUME AttachmentsWhole, CommandsInv, LazyInv, [Next]_vars
  PROVE  LazyInv'
<1>1. ASSUME UNCHANGED initVars PROVE LazyInv'
  BY <1>1 DEF initVars, LazyInv, Current, After
<1>2. CASE EncoderNext /\ UNCHANGED initVars
  BY <1>1, <1>2
<1>3. CASE \E u \in Units, full \in BOOLEAN : WriteTexture(u, full)
  BY <1>3, WriteTextureKept
<1>4. CASE Flush
  BY <1>4, FlushKept DEF Flush
<1>5. CASE FlushFails
  BY <1>5, DropKept DEF FlushFails
<1>6. CASE SubmitRefused
  BY <1>6, FlushKept DEF SubmitRefused
<1>7. CASE SubmitRuns
  <2>1. cb.ops \in OpLists
    BY DEF CommandsInv, TypesInv, CbTypes
  <2>2. QED
    BY <1>7, <2>1, SubmitKept
<1>8. CASE SubmitLowerFails
  BY <1>8, FlushKept DEF SubmitLowerFails, Discard
<1>9. CASE SubmitHalFails
  BY <1>9, DropKept DEF SubmitHalFails, Discard
<1>10. CASE UNCHANGED vars
  BY <1>1, <1>10 DEF vars
<1>11. QED
  BY <1>2, <1>3, <1>4, <1>5, <1>6, <1>7, <1>8, <1>9, <1>10 DEF Next

LEMMA LazyStart ==
  ASSUME InitAll
  PROVE  LazyInv
<1>1. /\ marked = [u \in Units |-> FALSE] /\ mem = [u \in Units |-> [h \in Halves |-> "garbage"]]
      /\ pending = <<>> /\ spoiled = {} /\ wiped = FALSE /\ dropped = {}
  BY UnitsTracked DEF InitAll, InitTextures
<1>2. Current \in Memories
  BY <1>1 DEF Current, Memories, Mems
<1>3. After(Current, pending) = Current
  BY <1>1, AfterNone
<1>4. Agrees(marked, dropped, Current)
  BY <1>1, <1>2 DEF Agrees, Current
<1>5. pending \in Seq(Queued(marked))
  BY <1>1
<1>6. QED
  BY <1>1, <1>2, <1>3, <1>4, <1>5 DEF LazyInv

\* The marks agree with the memory, as it will be once the queue writes that
\* wait have run; so no read has met garbage, and no clear has met data.
LEMMA LazyHolds ==
  ASSUME LazyInv
  PROVE  ReadsDefined /\ DataKept
<1>1. /\ Current \in Memories /\ pending \in Seq(Queued(marked))
      /\ Agrees(marked, dropped, After(Current, pending))
  BY DEF LazyInv
<1>2. Current.spoiled = After(Current, pending).spoiled
      /\ (Current.wiped => After(Current, pending).wiped)
  BY <1>1, QueuedRuns
<1>3. Current.spoiled \subseteq dropped /\ ~Current.wiped
  BY <1>1, <1>2 DEF Agrees
<1>4. QED
  BY <1>3 DEF ReadsDefined, DataKept, Current

-----------------------------------------------------------------------------
(* Theorems                                                                *)

\* The recording keeps its invariant: types, what a pass remembers of its
\* checks, and the references of everything recorded.
\* (pass.rs: PassEncoderState; command_encoder.rs: CommandEncoderState)
THEOREM Recording == Spec => []CommandsInv
<1>1. InitAll => CommandsInv
  BY CommandsStart
<1>2. CommandsInv /\ [Next]_vars => CommandsInv'
  BY CommandsStep
<1>3. QED
  BY <1>1, <1>2, PTL DEF Spec

\* Every draw and dispatch ever recorded passes the whole validation, whatever
\* the pass had remembered of earlier checks.
\* (pass.rs: validate_pipeline_bind_groups_memoized)
THEOREM Validity == Spec => []DrawsValid
<1>1. CommandsInv => DrawsValid
  <2> SUFFICES ASSUME CommandsInv, NEW d \in Drawn PROVE d \in ValidDraws
    BY DEF DrawsValid, ValidDraws, DrawValid
  <2>1. CASE d \in bundler.st.drawn
    BY <2>1 DEF CommandsInv, TypesInv, BundlerTypes, PassStates, RawPass
  <2>2. ASSUME NEW i \in DOMAIN bundles, d \in bundles[i].drawn PROVE d \in ValidDraws
    BY <2>2 DEF CommandsInv, TypesInv, BundleStates
  <2>3. ASSUME NEW p \in DOMAIN passes, d \in passes[p].drawn PROVE d \in ValidDraws
    BY <2>3 DEF CommandsInv, TypesInv, PassStates, RawPass
  <2>4. ASSUME NEW i \in DOMAIN enc.ops, enc.ops[i].op \in {"render", "dispatch"},
               d \in enc.ops[i].drawn
        PROVE  d \in ValidDraws
    <3>1. enc.ops \in OpLists
      BY DEF CommandsInv, TypesInv, EncTypes
    <3>2. enc.ops[i] \in Op
      BY <3>1 DEF OpLists
    <3>3. QED
      BY <2>4, <3>2 DEF Op, CopyOps, RenderOps, DispatchOps
  <2>5. QED
    BY <2>1, <2>2, <2>3, <2>4 DEF Drawn
<1>2. QED
  BY <1>1, Recording, PTL

\* A submission that is let through uses nothing that is destroyed.
\* (queue.rs: submit; render_bundle.rs: render_bundle_referenced_buffers)
THEOREM Aliveness == Spec => AcceptedAlive
<1>1. ASSUME CommandsInv, SubmitRuns, NEW i \in DOMAIN cb.ops
      PROVE  UsedBy(cb.ops[i]) \cap destroyed = {}
  <2>1. (cb.refs \cup TexturesOf(cb.ops)) \cap destroyed = {}
    BY <1>1 DEF SubmitRuns, Refused, Checked
  <2>2. UsedBy(cb.ops[i]) \subseteq cb.refs \cup OwnUnits(cb.ops[i])
    BY <1>1 DEF CommandsInv, RefsInv, OpsReferenced
  <2>3. OwnUnits(cb.ops[i]) \subseteq TexturesOf(cb.ops)
    BY DEF OwnUnits, TexturesOf
  <2>4. QED
    BY <2>1, <2>2, <2>3
<1>2. CommandsInv => (SubmitRuns => \A i \in DOMAIN cb.ops : UsedBy(cb.ops[i]) \cap destroyed = {})
  BY <1>1
<1>3. QED
  BY <1>2, Recording, PTL DEF AcceptedAlive

\* The marks of textures stay those of the memory after the queue writes that
\* wait: lazy clears, forced clears and discards of passes, queue writes and
\* dropped writes keep the two together.
\* (queue.rs: InitOverlay, plan_render_pass_attachment_init, write_texture)
THEOREM LazyInvariance ==
  ASSUME AttachmentsWhole
  PROVE  Spec => []LazyInv
<1>1. InitAll => LazyInv
  BY LazyStart
<1>2. CommandsInv /\ LazyInv /\ [Next]_vars => LazyInv'
  BY LazyStep
<1>3. QED
  BY <1>1, <1>2, Recording, PTL DEF Spec

\* No GPU read, attachment load or texture read meets undefined memory, but for
\* a texture whose queued writes were dropped with a failed flush or submission.
\* (queue.rs: append_texture_read_init_clears, plan_render_pass_attachment_init)
THEOREM ReadsAreDefined ==
  ASSUME AttachmentsWhole
  PROVE  Spec => []ReadsDefined
<1>1. LazyInv => ReadsDefined
  BY LazyHolds
<1>2. QED
  BY <1>1, LazyInvariance, PTL

\* No clear that the queue inserts destroys data that an earlier write stored.
\* (queue.rs: append_texture_write_init_clears, append_texture_zero_clear)
THEOREM DataIsKept ==
  ASSUME AttachmentsWhole
  PROVE  Spec => []DataKept
<1>1. LazyInv => DataKept
  BY LazyHolds
<1>2. QED
  BY <1>1, LazyInvariance, PTL
=============================================================================
