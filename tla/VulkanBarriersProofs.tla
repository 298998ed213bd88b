------------------------ MODULE VulkanBarriersProofs ------------------------
(***************************************************************************)
(* VulkanBarriers for any buffers, subresources and commands.              *)
(*                                                                         *)
(* The inductive invariant, BarriersInv, says of the device as recorded    *)
(* and as submitted that it is Fine: accesses are outside render passes,   *)
(* SubresourceLayouts tells every layout and none was named wrongly, and   *)
(* buffers are settled: whatever was written to one is visible to all that *)
(* commands do to buffers.  Each command keeps that, whatever kind it is   *)
(* and whatever it binds (Keeps); a command that CommandWritesBuffer finds *)
(* finds buffers prepared by BufferReadToWrite, and the barrier after it   *)
(* settles what it wrote.  Render passes are followed through subpasses,   *)
(* where accesses are seen by way of dependencies (Seen).                  *)
(*                                                                         *)
(* Images are OrderInv's: no access has raced, and whatever was done to    *)
(* an image is awaited by what comes next (HeldIn): the first scope of     *)
(* any transition out of its layout reaches it, and in a layout for        *)
(* reading, what was written is visible to all who read there.  Plain      *)
(* commands keep that (EncodeOrders), passes of one subpass through their  *)
(* dependencies from and to what is outside (PassOrders).                  *)
(***************************************************************************)
EXTENDS VulkanBarriers, TLAPS

\* An access as a subpass sees it, from how the subpasses before see it.
SeenStart(p) ==
  IF p.at = External THEN p ELSE [p EXCEPT !.after = {}, !.avail = {}, !.visible = {}]

Into(p, deps, j) == {d \in deps : d.to = j /\ d.from \in p.at .. j - 1}

SeenBy(p, deps, view, j) ==
  IF j = p.at THEN p
  ELSE After(SeenStart(p), Into(p, deps, j), [d \in Into(p, deps, j) |-> view[d.from]],
             [d \in Into(p, deps, j) |-> d.from = p.at], TRUE)

\* The function that Seen defines, by recursion over the subpasses up to k.
IsView(p, deps, k, view) == view = [j \in p.at .. k |-> SeenBy(p, deps, view, j)]

Viewed(ctx, view, j) ==
  [i \in ctx.p.at .. ctx.k |-> IF i = j THEN SeenBy(ctx.p, ctx.deps, view, j) ELSE view[i]]

\* The recursions and folds of VulkanBarriers.
ViewFold == INSTANCE Folding WITH Op <- Viewed

SampledStep(ctx, e, b) ==
  IF b.as # "sampled" THEN e
  ELSE TransitionImageRange(e, {b.on} \ ctx.attached, SampledLayout(b, ctx.bound))
SampledFold == INSTANCE Folding WITH Op <- SampledStep

StorageStep(ctx, e, b) ==
  IF b.as # "storage_texture" THEN e ELSE TransitionImageRange(e, {b.on} \ ctx.attached, "general")
StorageFold == INSTANCE Folding WITH Op <- StorageStep

SubpassStep(ctx, e, k) == Subpass(e, ctx.uses[k], ctx.attached, ctx.deps, k - 1)
SubpassFold == INSTANCE Folding WITH Op <- SubpassStep

AttachmentStep(ctx, e, a) == TransitionImageRange(e, {a.on}, a.initial)
AttachmentFold == INSTANCE Folding WITH Op <- AttachmentStep

StateStep(ctx, e, a) == [e EXCEPT !.states[a.on] = a.final]
StateFold == INSTANCE Folding WITH Op <- StateStep

VisitStep(ctx, w, c) == Visit(w, c)
VisitFold == INSTANCE Folding WITH Op <- VisitStep

VisitAllStep(ctx, w, c) == VisitAll(w, c)
VisitAllFold == INSTANCE Folding WITH Op <- VisitAllStep

FlattenStep(ctx, s, t) == s \o t
FlattenFold == INSTANCE Folding WITH Op <- FlattenStep

-----------------------------------------------------------------------------
(* Stages and accesses                                                     *)

AccessNames == MemoryRead \cup MemoryWrite
Places      == Stages \X AccessNames

\* The stages there are, and those that access memory.
LEMMA StageNames ==
  /\ Stages = {"top", "bottom", "indirect", "vertex_input", "vertex", "fragment", "compute",
               "early", "late", "color", "transfer", "host"}
  /\ DOMAIN Accesses = Stages \ {"top", "bottom"}
  /\ AllCommands = Stages \ {"host"}
<1>1. DOMAIN Accesses = {"indirect", "vertex_input", "vertex", "fragment", "compute",
               "early", "late", "color", "transfer", "host"}
  BY DEF Accesses
<1>2. QED
  BY <1>1 DEF Stages, AllCommands

\* What a stage does to memory is an access.
LEMMA AccessesNamed ==
  \A s \in DOMAIN Accesses : Accesses[s] \subseteq AccessNames
BY DEF AccessNames, MemoryRead, MemoryWrite

\* The orders of stages list stages.
LEMMA ListedStages ==
  ASSUME NEW s
  PROVE  /\ Precede(Graphics, s) \subseteq Stages /\ Follow(Graphics, s) \subseteq Stages
         /\ Precede(Compute, s) \subseteq Stages /\ Follow(Compute, s) \subseteq Stages
         /\ Precede(Transfer, s) \subseteq Stages /\ Follow(Transfer, s) \subseteq Stages
<1>1. \A i \in DOMAIN Graphics : Graphics[i] \in Stages
  BY StageNames DEF Graphics
<1>2. \A i \in DOMAIN Compute : Compute[i] \in Stages
  BY StageNames DEF Compute
<1>3. \A i \in DOMAIN Transfer : Transfer[i] \in Stages
  BY StageNames DEF Transfer
<1>4. QED
  BY <1>1, <1>2, <1>3 DEF Precede, Follow

\* A mask stands for its stages and more.
LEMMA Masks ==
  ASSUME NEW S \in SUBSET Stages
  PROVE  /\ S \subseteq Earlier(S) /\ Earlier(S) \subseteq Stages
         /\ S \subseteq Later(S) /\ Later(S) \subseteq Stages
<1>1. \A s \in Stages : s \in EarlierThan[s] /\ EarlierThan[s] \subseteq Stages
  BY ListedStages DEF EarlierThan
<1>2. \A s \in Stages : s \in LaterThan[s] /\ LaterThan[s] \subseteq Stages
  BY ListedStages DEF LaterThan
<1>3. QED
  BY <1>1, <1>2 DEF Earlier, Later

\* Whatever is in a scope is an access of one of its stages.
LEMMA ScopeIs ==
  ASSUME NEW S, NEW A
  PROVE  /\ Scope(S, A) \subseteq Places
         /\ \A s, a : <<s, a>> \in Scope(S, A)
                        <=> s \in S /\ s \in DOMAIN Accesses /\ a \in Accesses[s] /\ a \in A
<1>1. \A s, a : <<s, a>> \in Scope(S, A)
                        <=> s \in S /\ s \in DOMAIN Accesses /\ a \in Accesses[s] /\ a \in A
  BY DEF Scope
<1>2. \A x \in Scope(S, A) : x \in Places
  <2>1. SUFFICES ASSUME NEW s \in S \cap DOMAIN Accesses, NEW a \in Accesses[s] PROVE <<s, a>> \in Places
    BY DEF Scope
  <2>2. s \in Stages /\ a \in AccessNames
    BY StageNames, AccessesNamed
  <2>3. QED
    BY <2>2 DEF Places
<1>3. QED
  BY <1>1, <1>2

-----------------------------------------------------------------------------
(* Past accesses                                                           *)

PastAccess ==
  [stage : Stages \cup {"transition"}, access : AccessNames, at : Int,
   after : SUBSET Stages, avail : SUBSET Stages, visible : SUBSET Places]

\* A barrier or a dependency of a render pass.
IsDependency(b) == b.src \subseteq Stages /\ b.dst \subseteq Stages

\* q is p, seen later.
Extends(q, p) ==
  /\ q.stage = p.stage /\ q.access = p.access /\ q.at = p.at
  /\ p.after \subseteq q.after /\ p.avail \subseteq q.avail /\ p.visible \subseteq q.visible

\* A past access that a dependency has gone by is the same access, with at least the
\* order it had.
LEMMA AfterExtends ==
  ASSUME NEW p \in PastAccess, NEW deps, \A b \in deps : IsDependency(b), NEW v, NEW own, NEW memory
  PROVE  After(p, deps, v, own, memory) \in PastAccess /\ Extends(After(p, deps, v, own, memory), p)
<1> DEFINE reach == {d \in deps : Reaches(v[d], d, own[d])}
           avail == {d \in reach : Avails(v[d], d, memory /\ own[d])}
           A == p.after \cup UNION {Later(d.dst) : d \in reach}
           B == p.avail \cup UNION {Later(d.dst) : d \in avail}
           C == p.visible \cup UNION {Scope(d.dst, d.dst_access) : d \in IF memory THEN avail ELSE {}}
<1>1. After(p, deps, v, own, memory) = [p EXCEPT !.after = A, !.avail = B, !.visible = C]
  BY DEF After
<1>2. A \subseteq Stages /\ B \subseteq Stages
  BY Masks DEF PastAccess, IsDependency
<1>3. C \subseteq Places
  BY ScopeIs DEF PastAccess
<1> HIDE DEF A, B, C
<1>4. [p EXCEPT !.after = A, !.avail = B, !.visible = C] \in PastAccess
  BY <1>2, <1>3 DEF PastAccess
<1>5. p.after \subseteq A /\ p.avail \subseteq B /\ p.visible \subseteq C
  BY DEF A, B, C
<1>6. QED
  BY <1>1, <1>4, <1>5 DEF Extends, PastAccess

\* The same of a barrier.
LEMMA BarrieredExtends ==
  ASSUME NEW p \in PastAccess, NEW b, IsDependency(b), NEW memory
  PROVE  Barriered(p, b, memory) \in PastAccess /\ Extends(Barriered(p, b, memory), p)
BY AfterExtends DEF Barriered

\* What is in the first scope of a barrier is ordered before its second scope.
LEMMA BarrieredOrders ==
  ASSUME NEW p \in PastAccess, NEW b, IsDependency(b), NEW memory, p.stage \in b.src
  PROVE  b.dst \subseteq Barriered(p, b, memory).after
<1>1. Reaches(p, b, TRUE)
  BY Masks DEF Reaches, IsDependency
<1>2. Later(b.dst) \subseteq Barriered(p, b, memory).after
  BY <1>1 DEF Barriered, After, PastAccess
<1>3. QED
  BY <1>2, Masks DEF IsDependency

\* A write that a barrier makes available is visible to all of the barrier's second scope.
LEMMA BarrieredShows ==
  ASSUME NEW p \in PastAccess, NEW b, IsDependency(b),
         <<p.stage, p.access>> \in Scope(b.src, b.src_access)
  PROVE  Scope(b.dst, b.dst_access) \subseteq Barriered(p, b, TRUE).visible
<1>1. p.stage \in b.src
  BY ScopeIs
<1>2. Reaches(p, b, TRUE)
  BY <1>1, Masks DEF Reaches, IsDependency
<1>3. Avails(p, b, TRUE)
  BY DEF Avails
<1>4. QED
  BY <1>2, <1>3 DEF Barriered, After, PastAccess

-----------------------------------------------------------------------------
(* What a subpass sees                                                     *)

\* The recursion of Seen has a solution.
LEMMA ViewExists ==
  ASSUME NEW p, NEW at \in Int, p.at = at, NEW k \in Int, at <= k, NEW deps
  PROVE  \E view : IsView(p, deps, k, view)
<1> DEFINE n == (k - at) + 1
           ctx == [p |-> p, deps |-> deps, k |-> k]
           seq == [m \in 1 .. n |-> at + m - 1]
<1>1. n \in Nat /\ seq \in Seq(Int) /\ Len(seq) = n
  OBVIOUS
<1>2. PICK q : ViewFold!Through(ctx, q, 0, seq)
  BY <1>1, ViewFold!FoldThrough
<1>3. ASSUME NEW m \in 1 .. n, NEW i \in at .. k
      PROVE  /\ i = at + m - 1 => q[m][i] = SeenBy(p, deps, q[m - 1], i)
             /\ i # at + m - 1 => q[m][i] = q[m - 1][i]
  <2>1. q[m] = Viewed(ctx, q[m - 1], at + m - 1)
    BY <1>1, <1>2 DEF ViewFold!Through
  <2>2. QED
    BY <2>1 DEF Viewed
<1> DEFINE view == [i \in at .. k |-> q[i - at + 1][i]]
           A == {m \in 0 .. n : \A i \in at .. k : i - at + 1 <= m => q[m][i] = view[i]}
<1>4. 0 \in A
  BY <1>1
<1>5. ASSUME NEW m \in 1 .. n, m - 1 \in A PROVE m \in A
  <2>1. SUFFICES ASSUME NEW i \in at .. k, i - at + 1 <= m PROVE q[m][i] = view[i]
    OBVIOUS
  <2>2. CASE i - at + 1 = m
    BY <2>2
  <2>3. CASE i - at + 1 # m
    <3>1. i - at + 1 <= m - 1 /\ i # at + m - 1
      BY <2>1, <2>3
    <3>2. q[m - 1][i] = view[i]
      BY <1>5, <3>1
    <3>3. QED
      BY <1>3, <3>1, <3>2
  <2>4. QED
    BY <2>2, <2>3
<1>6. \A m \in 0 .. n : m \in A
  <2> HIDE DEF A, n
  <2>1. QED
    BY <1>1, <1>4, <1>5, ViewFold!Counting
<1>7. ASSUME NEW i \in at .. k PROVE view[i] = SeenBy(p, deps, view, i)
  <2> DEFINE m == i - at + 1
             into == Into(p, deps, i)
  <2>1. m \in 1 .. n /\ m - 1 \in 0 .. n
    OBVIOUS
  <2>2. view[i] = SeenBy(p, deps, q[m - 1], i)
    <3>1. i = at + m - 1
      OBVIOUS
    <3>2. q[m][i] = SeenBy(p, deps, q[m - 1], i)
      BY <2>1, <3>1, <1>3
    <3>3. QED
      BY <3>2
  <2>3. ASSUME NEW d \in into PROVE q[m - 1][d.from] = view[d.from]
    <3>1. d.from \in at .. i - 1
      BY DEF Into
    <3>2. d.from \in at .. k /\ d.from - at + 1 <= m - 1
      BY <3>1
    <3>3. m - 1 \in A
      BY <2>1, <1>6
    <3>4. \A j \in at .. k : j - at + 1 <= m - 1 => q[m - 1][j] = view[j]
      <4> HIDE DEF m, view
      <4>1. QED
        BY <3>3
    <3>5. QED
      <4> HIDE DEF m, view
      <4>1. QED
        BY <3>2, <3>4
  <2>4. [d \in into |-> q[m - 1][d.from]] = [d \in into |-> view[d.from]]
    BY <2>3
  <2>5. QED
    BY <2>2, <2>4 DEF SeenBy
<1>8. view = [j \in at .. k |-> SeenBy(p, deps, view, j)]
  <2>1. view = [i \in at .. k |-> view[i]]
    OBVIOUS
  <2> HIDE DEF view
  <2>2. QED
    BY <2>1, <1>7
<1>9. IsView(p, deps, k, view)
  BY <1>8 DEF IsView
<1> HIDE DEF view
<1>10. QED
  BY <1>9

\* Seen is the last value of it.
LEMMA SeenIsView ==
  ASSUME NEW p, NEW at \in Int, p.at = at, NEW k \in Int, at <= k, NEW deps
  PROVE  \E view : /\ \A j \in at .. k : view[j] = SeenBy(p, deps, view, j)
                   /\ Seen(p, deps, k) = view[k]
<1> DEFINE view == CHOOSE view : view = [j \in p.at .. k |-> SeenBy(p, deps, view, j)]
<1>1. view = [j \in p.at .. k |-> SeenBy(p, deps, view, j)]
  <2>1. PICK v : IsView(p, deps, k, v)
    BY ViewExists
  <2>2. v = [j \in p.at .. k |-> SeenBy(p, deps, v, j)]
    BY <2>1 DEF IsView
  <2>3. QED
    BY <2>2
<1>2. Seen(p, deps, k) = view[k]
  BY DEF Seen, SeenBy, SeenStart, Into
<1> HIDE DEF view
<1>3. \A j \in p.at .. k : view[j] = SeenBy(p, deps, view, j)
  BY <1>1
<1>4. QED
  BY <1>2, <1>3

\* A subpass sees an access as the same access, and what was recorded outside the pass
\* with at least the order it had.
LEMMA SeenExtends ==
  ASSUME NEW p \in PastAccess, NEW k \in Int, p.at <= k, NEW deps, \A d \in deps : IsDependency(d)
  PROVE  /\ Seen(p, deps, k) \in PastAccess
         /\ Seen(p, deps, k).stage = p.stage /\ Seen(p, deps, k).access = p.access
         /\ Seen(p, deps, k).at = p.at
         /\ p.at = External \/ p.at = k => Extends(Seen(p, deps, k), p)
<1>1. PICK view : /\ \A j \in p.at .. k : view[j] = SeenBy(p, deps, view, j)
                  /\ Seen(p, deps, k) = view[k]
  BY SeenIsView DEF PastAccess
<1>2. Seen(p, deps, k) = SeenBy(p, deps, view, k)
  BY <1>1 DEF PastAccess
<1>3. CASE k = p.at
  BY <1>2, <1>3 DEF SeenBy, Extends
<1>4. CASE k # p.at
  <2> DEFINE start == SeenStart(p)
             into == Into(p, deps, k)
             v == [d \in into |-> view[d.from]]
             own == [d \in into |-> d.from = p.at]
  <2>1. start \in PastAccess /\ start.stage = p.stage /\ start.access = p.access /\ start.at = p.at
        /\ (p.at = External => start = p)
    BY DEF SeenStart, PastAccess
  <2>2. Seen(p, deps, k) = After(start, into, v, own, TRUE)
    BY <1>2, <1>4 DEF SeenBy
  <2>3. \A d \in into : IsDependency(d)
    BY DEF Into
  <2> HIDE DEF start, into, v, own
  <2>4. Seen(p, deps, k) \in PastAccess /\ Extends(Seen(p, deps, k), start)
    BY <2>1, <2>2, <2>3, AfterExtends
  <2>5. QED
    BY <1>4, <2>1, <2>4 DEF Extends
<1>5. QED
  BY <1>3, <1>4

-----------------------------------------------------------------------------
(* Types of what commands make                                             *)

LayoutNames == {"undefined", "transfer_dst", "transfer_src", "color", "depth", "general",
                "shader_read"}

Device ==
  [past : [Resources -> SUBSET PastAccess], layout : [Units -> LayoutNames],
   states : [Units -> LayoutNames], races : SUBSET Resources, mislaid : SUBSET Resources]

UseType == [on : Resources, stage : Stages, access : AccessNames, layout : LayoutNames \cup {"none"}]

\* What is recorded now is recorded outside a render pass.
Outside(d) == \A r \in Resources : \A p \in d.past[r] : p.at = External

\* Nothing has been recorded on the device at first.
LEMMA EmptyType == Empty \in Device /\ Outside(Empty)
BY DEF Empty, Device, LayoutNames, Outside

\* An access that is made is a past access.
LEMMA AccessedType ==
  ASSUME NEW s \in Stages, NEW a \in AccessNames, NEW k \in Int
  PROVE  /\ Accessed(s, a, k) \in PastAccess /\ Accessed(s, a, k).stage = s
         /\ Accessed(s, a, k).access = a /\ Accessed(s, a, k).at = k
BY DEF Accessed, PastAccess

\* The accesses of a command.
KeptOrMade(d, uses, k, r, p) ==
  \/ p \in d.past[r]
  \/ \E u \in uses : u.on = r /\ p = Accessed(u.stage, u.access, k)

RacesWith(d, uses, deps, k, r) ==
  \E u \in uses : u.on = r /\ \E p \in d.past[r] : Races(Seen(p, deps, k), u.stage, u.access)

Misnamed(d, uses, r) == \E u \in uses : u.on = r /\ r \in Units /\ u.layout # d.layout[r]

\* What uses leave: the accesses before and their own, and races and wrong layouts only
\* where they make them.
LEMMA UseInEffect ==
  ASSUME NEW d \in Device, NEW uses \in SUBSET UseType, NEW deps, NEW k \in Int
  PROVE  LET e == UseIn(d, uses, deps, k) IN
         /\ e \in Device /\ e.layout = d.layout /\ e.states = d.states
         /\ \A r \in Resources : \A p \in e.past[r] : KeptOrMade(d, uses, k, r, p)
         /\ \A r \in e.races : r \in d.races \/ RacesWith(d, uses, deps, k, r)
         /\ \A r \in e.mislaid : r \in d.mislaid \/ Misnamed(d, uses, r)
<1> DEFINE new(r) == {Accessed(u.stage, u.access, k) : u \in {u \in uses : u.on = r}}
           races == d.races \cup {u.on : u \in {u \in uses :
                 \E p \in d.past[u.on] : Races(Seen(p, deps, k), u.stage, u.access)}}
           mislaid == d.mislaid \cup {u.on : u \in {u \in uses :
                 u.on \in Units /\ u.layout # d.layout[u.on]}}
           past == [r \in Resources |-> IF new(r) = {} THEN d.past[r] ELSE Superseded(d.past[r], new(r))]
           e == UseIn(d, uses, deps, k)
<1>1. e = [d EXCEPT !.races = races, !.mislaid = mislaid, !.past = past]
  BY DEF UseIn, Device
<1>2. races \subseteq Resources /\ mislaid \subseteq Resources
  BY DEF Device, UseType
<1>3. \A r \in Resources : past[r] \subseteq d.past[r] \cup new(r)
  BY DEF Superseded
<1>4. \A r \in Resources : new(r) \subseteq PastAccess
  BY AccessedType DEF UseType
<1>5. past \in [Resources -> SUBSET PastAccess]
  <2>1. ASSUME NEW r \in Resources PROVE past[r] \in SUBSET PastAccess
    <3>1. d.past[r] \in SUBSET PastAccess
      BY DEF Device
    <3> HIDE DEF past, new
    <3>2. QED
      BY <3>1, <1>3, <1>4
  <2>2. QED
    BY <2>1
<1>6. \A r \in Resources : \A p \in past[r] : KeptOrMade(d, uses, k, r, p)
  BY <1>3 DEF KeptOrMade
<1>7. \A r \in races : r \in d.races \/ RacesWith(d, uses, deps, k, r)
  BY DEF RacesWith
<1>8. \A r \in mislaid : r \in d.mislaid \/ Misnamed(d, uses, r)
  BY DEF Misnamed
<1> HIDE DEF past, races, mislaid, new
<1>9. /\ e \in Device /\ e.layout = d.layout /\ e.states = d.states
      /\ e.past = past /\ e.races = races /\ e.mislaid = mislaid
  BY <1>1, <1>2, <1>5 DEF Device
<1> HIDE DEF e
<1>10. QED
  BY <1>6, <1>7, <1>8, <1>9 DEF e

BarrieredBy(d, b, on, r, q) == \E p \in d.past[r] : q = Barriered(p, b, r \in on)

\* A barrier changes past accesses and nothing else.
LEMMA BarrierEffect ==
  ASSUME NEW d \in Device, NEW b, IsDependency(b), NEW on
  PROVE  LET e == Barrier(d, b, on) IN
         /\ e \in Device /\ e.layout = d.layout /\ e.states = d.states
         /\ e.races = d.races /\ e.mislaid = d.mislaid
         /\ \A r \in Resources : \A q \in e.past[r] : BarrieredBy(d, b, on, r, q)
<1> DEFINE past == [r \in Resources |-> {Barriered(p, b, r \in on) : p \in d.past[r]}]
<1>1. past \in [Resources -> SUBSET PastAccess]
  <2>1. ASSUME NEW r \in Resources PROVE past[r] \in SUBSET PastAccess
    <3>1. \A p \in d.past[r] : p \in PastAccess
      BY DEF Device
    <3>2. QED
      BY <3>1, BarrieredExtends
  <2>2. QED
    BY <2>1
<1>2. Barrier(d, b, on) = [d EXCEPT !.past = past]
  BY DEF Barrier, Device
<1>3. \A r \in Resources : \A q \in past[r] : BarrieredBy(d, b, on, r, q)
  BY DEF BarrieredBy
<1> HIDE DEF past
<1>4. QED
  BY <1>1, <1>2, <1>3 DEF Device

\* Outside a pass a barrier leaves accesses there.
LEMMA BarrierOutside ==
  ASSUME NEW d \in Device, NEW b, IsDependency(b), NEW on, Outside(d)
  PROVE  Outside(Barrier(d, b, on))
<1> DEFINE e == Barrier(d, b, on)
<1>1. \A r \in Resources : \A q \in e.past[r] : \E p \in d.past[r] : q = Barriered(p, b, r \in on)
  BY BarrierEffect DEF BarrieredBy
<1>2. \A r \in Resources : \A p \in d.past[r] : Barriered(p, b, r \in on).at = p.at
  BY BarrieredExtends DEF Device, Extends
<1> HIDE DEF e
<1>3. QED
  BY <1>1, <1>2 DEF Outside, e

-----------------------------------------------------------------------------
(* Transitions                                                             *)

\* The masks of layouts are of stages and accesses.
LEMMA LayoutMasks ==
  /\ \A l \in LayoutNames : StageMaskForLayout[l] \subseteq Stages
  /\ \A l \in LayoutNames : AccessMaskForLayout[l] \subseteq AccessNames
BY StageNames DEF LayoutNames, StageMaskForLayout, AccessMaskForLayout, AccessNames, MemoryRead,
   MemoryWrite, Accesses, Writes

\* The units a transition has a barrier for, the barriers of images in each
\* layout, and the part of them that every access waits for.
Runs(d, units, new) == {u \in units : NeedsBarrier(d.states[u], new)}
SourceStages(d, units, new) == UNION {StageMaskForLayout[d.states[u]] : u \in Runs(d, units, new)}
ImageBarrier(d, units, new, old) ==
  Dependency(SourceStages(d, units, new), AccessMaskForLayout[old],
             StageMaskForLayout[new], AccessMaskForLayout[new])
ExecutionBarrier(d, units, new) ==
  Dependency(SourceStages(d, units, new), {}, StageMaskForLayout[new], {})

\* The barriers of a transition are dependencies.
LEMMA TransitionBarriers ==
  ASSUME NEW d \in Device, NEW units \in SUBSET Units, NEW new \in LayoutNames
  PROVE  /\ \A old : IsDependency(ImageBarrier(d, units, new, old))
         /\ IsDependency(ExecutionBarrier(d, units, new))
<1>1. \A u \in units : d.states[u] \in LayoutNames
  BY DEF Device
<1>2. SourceStages(d, units, new) \subseteq Stages
  BY <1>1, LayoutMasks DEF SourceStages, Runs
<1>3. StageMaskForLayout[new] \subseteq Stages
  BY LayoutMasks
<1>4. QED
  BY <1>2, <1>3 DEF IsDependency, ImageBarrier, ExecutionBarrier, Dependency

\* A transition is a past access.
LEMMA TransitionedType ==
  ASSUME NEW deps, \A b \in deps : IsDependency(b), NEW at \in Int
  PROVE  Transitioned(deps, at) \in PastAccess /\ Transitioned(deps, at).at = at
<1> DEFINE A == UNION {Later(d.dst) : d \in deps}
           B == UNION {Scope(d.dst, d.dst_access) : d \in deps}
<1>1. A \subseteq Stages /\ B \subseteq Places
  BY Masks, ScopeIs DEF IsDependency
<1>2. "transition" \in AccessNames
  BY DEF AccessNames, MemoryWrite, Writes
<1> HIDE DEF A, B
<1>3. Transitioned(deps, at) = [stage |-> "transition", access |-> "transition", at |-> at,
                                after |-> A, avail |-> A, visible |-> B]
  BY DEF Transitioned, A, B
<1>4. QED
  BY <1>1, <1>2, <1>3 DEF PastAccess

\* An access to r that is left after the transition.
LeftBy(d, units, new, r, q) ==
  \/ /\ r \in Runs(d, units, new) /\ d.states[r] # new
     /\ q = Transitioned({ImageBarrier(d, units, new, d.states[r])}, External)
  \/ /\ r \in Runs(d, units, new) /\ d.states[r] = new
     /\ \E p \in d.past[r] : q = Barriered(p, ImageBarrier(d, units, new, new), TRUE)
  \/ /\ r \notin Runs(d, units, new)
     /\ \E p \in d.past[r] : q = Barriered(p, ExecutionBarrier(d, units, new), FALSE)

StateAfter(d, units, new, u) == IF u \in units THEN new ELSE d.states[u]
LayoutAfter(d, units, new, u) == IF u \in Runs(d, units, new) THEN new ELSE d.layout[u]
Mistold(d, units, new, r) ==
  r \in Runs(d, units, new) /\ d.states[r] \notin {"undefined", d.layout[r]}

\* What a transition leaves: the new layout where it is needed, the accesses before under
\* its barriers, and races only with what has another layout.
LEMMA TransitionEffect ==
  ASSUME NEW d \in Device, NEW units \in SUBSET Units, NEW new \in LayoutNames
  PROVE  LET e == TransitionImageRange(d, units, new) IN
         /\ e \in Device
         /\ \A u \in Units : e.states[u] = StateAfter(d, units, new, u)
         /\ \A u \in Units : e.layout[u] = LayoutAfter(d, units, new, u)
         /\ \A r \in e.races :
               \/ r \in d.races
               \/ r \in Units /\ r \in Runs(d, units, new) /\ d.states[r] # new
         /\ \A r \in e.mislaid : r \in d.mislaid \/ Mistold(d, units, new, r)
         /\ \A r \in Resources : \A q \in e.past[r] : LeftBy(d, units, new, r, q)
<1> DEFINE runs == Runs(d, units, new)
           changed == {u \in runs : d.states[u] # new}
           bar(old) == ImageBarrier(d, units, new, old)
           order == ExecutionBarrier(d, units, new)
           Waits(p, b) == Awaited(p, {b}, [e \in {b} |-> p], [e \in {b} |-> TRUE])
           races == d.races \cup {u \in changed : \E p \in d.past[u] : ~Waits(p, bar(d.states[u]))}
           mislaid == d.mislaid \cup {u \in runs : d.states[u] \notin {"undefined", d.layout[u]}}
           past == [r \in Resources |->
                     IF r \in changed THEN {Transitioned({bar(d.states[r])}, External)}
                     ELSE IF r \in runs THEN {Barriered(p, bar(new), TRUE) : p \in d.past[r]}
                     ELSE {Barriered(p, order, FALSE) : p \in d.past[r]}]
           layout == [u \in Units |-> IF u \in runs THEN new ELSE d.layout[u]]
           states == [u \in Units |-> IF u \in units THEN new ELSE d.states[u]]
           e == TransitionImageRange(d, units, new)
<1>1. e = [d EXCEPT !.races = races, !.mislaid = mislaid, !.past = past,
                    !.layout = layout, !.states = states]
  BY DEF TransitionImageRange, Device, Runs, SourceStages, ImageBarrier, ExecutionBarrier
<1>2. runs \subseteq Units /\ Units \subseteq Resources
  BY DEF Runs, Resources
<1>3. races \subseteq Resources /\ mislaid \subseteq Resources
  BY <1>2 DEF Device
<1>4. layout \in [Units -> LayoutNames] /\ states \in [Units -> LayoutNames]
  BY DEF Device
<1>5. past \in [Resources -> SUBSET PastAccess]
  <2>1. ASSUME NEW r \in Resources PROVE past[r] \in SUBSET PastAccess
    <3>1. \A p \in d.past[r] : p \in PastAccess
      BY DEF Device
    <3>2. (\A old : IsDependency(bar(old))) /\ IsDependency(order)
      BY TransitionBarriers
    <3> HIDE DEF bar, order, runs
    <3>3. Transitioned({bar(d.states[r])}, External) \in PastAccess
      BY <3>2, TransitionedType DEF External
    <3>4. \A p \in d.past[r] : Barriered(p, bar(new), TRUE) \in PastAccess
      BY <3>1, <3>2, BarrieredExtends
    <3>5. \A p \in d.past[r] : Barriered(p, order, FALSE) \in PastAccess
      BY <3>1, <3>2, BarrieredExtends
    <3>6. QED
      BY <3>3, <3>4, <3>5
  <2>2. QED
    BY <2>1
<1>6. \A r \in Resources : \A q \in past[r] : LeftBy(d, units, new, r, q)
  BY DEF LeftBy
<1>7. /\ \A r \in races : r \in d.races \/ (r \in Units /\ r \in runs /\ d.states[r] # new)
      /\ \A r \in mislaid : r \in d.mislaid \/ Mistold(d, units, new, r)
  BY <1>2 DEF Mistold
<1>8. /\ \A u \in Units : states[u] = StateAfter(d, units, new, u)
      /\ \A u \in Units : layout[u] = LayoutAfter(d, units, new, u)
  BY DEF StateAfter, LayoutAfter
<1> HIDE DEF past, races, mislaid, layout, states, e
<1>9. /\ e \in Device /\ e.layout = layout /\ e.states = states
      /\ e.past = past /\ e.races = races /\ e.mislaid = mislaid
  BY <1>1, <1>3, <1>4, <1>5 DEF Device
<1>10. QED
  BY <1>6, <1>7, <1>8, <1>9 DEF e

\* Outside a pass a transition leaves accesses there.
LEMMA TransitionOutside ==
  ASSUME NEW d \in Device, NEW units \in SUBSET Units, NEW new \in LayoutNames, Outside(d)
  PROVE  Outside(TransitionImageRange(d, units, new))
<1> DEFINE e == TransitionImageRange(d, units, new)
<1>1. SUFFICES ASSUME NEW r \in Resources, NEW q \in e.past[r] PROVE q.at = External
  BY DEF Outside
<1>2. (\A old : IsDependency(ImageBarrier(d, units, new, old))) /\ IsDependency(ExecutionBarrier(d, units, new))
  BY TransitionBarriers
<1>3. \A p \in d.past[r] : p \in PastAccess /\ p.at = External
  BY DEF Device, Outside
<1>4. \A p \in d.past[r] : \A b, m : IsDependency(b) => Barriered(p, b, m).at = External
  BY <1>3, BarrieredExtends DEF Extends
<1>5. \A old : Transitioned({ImageBarrier(d, units, new, old)}, External).at = External
  BY DEF Transitioned
<1>6. LeftBy(d, units, new, r, q)
  BY TransitionEffect
<1> HIDE DEF e
<1>7. QED
  BY <1>2, <1>4, <1>5, <1>6 DEF LeftBy

-----------------------------------------------------------------------------
(* Buffers                                                                 *)

\* What commands do to buffers, and the stages that write them.
BufferScope  == Scope(BufferReaders, BufferAccesses)
WriterStages == {"transfer", "vertex", "fragment", "compute"}

\* What was written to a buffer is seen by all that follows, except for what was
\* just done (S) to some of them (B).
BuffersNear(d, S, B) ==
  \A b \in Buffers : \A p \in d.past[b] :
     /\ <<p.stage, p.access>> \in BufferScope
     /\ IsWrite(p.access) => \/ BufferScope \subseteq p.visible
                             \/ b \in B /\ <<p.stage, p.access>> \in S

Settled(d) == BuffersNear(d, {}, {})

\* What was done to a buffer is over before it is written again.
Prepared(d) == \A b \in Buffers : \A p \in d.past[b] : WriterStages \subseteq p.after

\* What commands do to buffers is an access.
LEMMA BufferScopeIs ==
  /\ BufferScope \subseteq Places
  /\ \A s, a : <<s, a>> \in BufferScope
       <=> s \in BufferReaders /\ a \in Accesses[s] /\ a \in BufferAccesses
  /\ BufferReaders \subseteq DOMAIN Accesses /\ BufferReaders \subseteq Stages
<1>1. BufferReaders \subseteq DOMAIN Accesses /\ BufferReaders \subseteq Stages
  BY StageNames DEF BufferReaders
<1>2. QED
  BY <1>1, ScopeIs DEF BufferScope

\* Buffers, subresources and the temporary buffer are distinct.
LEMMA BuffersAre == /\ Buffers \subseteq Resources /\ Units \subseteq Resources /\ Temporary \in Resources
                    /\ \A b \in Buffers : b \notin Units /\ b # Temporary
                    /\ \A u \in Units : u # Temporary
BY BarriersAssumption DEF Resources

\* A barrier keeps buffers settled and prepared.
LEMMA BarrierNear ==
  ASSUME NEW d \in Device, NEW b, IsDependency(b), NEW on, NEW S, NEW B
  PROVE  /\ BuffersNear(d, S, B) => BuffersNear(Barrier(d, b, on), S, B)
         /\ Prepared(d) => Prepared(Barrier(d, b, on))
<1> DEFINE e == Barrier(d, b, on)
<1>1. \A r \in Buffers : \A q \in e.past[r] : \E p \in d.past[r] : q = Barriered(p, b, r \in on)
  BY BarrierEffect, BuffersAre DEF BarrieredBy
<1>2. \A r \in Buffers : \A p \in d.past[r] : Extends(Barriered(p, b, r \in on), p)
  BY BarrieredExtends, BuffersAre DEF Device
<1> HIDE DEF e
<1>3. \A r \in Buffers : \A q \in e.past[r] : \E p \in d.past[r] : Extends(q, p)
  BY <1>1, <1>2
<1>4. ASSUME BuffersNear(d, S, B) PROVE BuffersNear(e, S, B)
  <2>1. SUFFICES ASSUME NEW r \in Buffers, NEW q \in e.past[r]
                 PROVE  /\ <<q.stage, q.access>> \in BufferScope
                        /\ IsWrite(q.access) => \/ BufferScope \subseteq q.visible
                                                \/ r \in B /\ <<q.stage, q.access>> \in S
    BY DEF BuffersNear
  <2>2. PICK p \in d.past[r] : Extends(q, p)
    BY <1>3
  <2>3. /\ <<p.stage, p.access>> \in BufferScope
        /\ IsWrite(p.access) => \/ BufferScope \subseteq p.visible
                                \/ r \in B /\ <<p.stage, p.access>> \in S
    BY <1>4 DEF BuffersNear
  <2>4. QED
    BY <2>2, <2>3 DEF Extends
<1>5. ASSUME Prepared(d) PROVE Prepared(e)
  BY <1>3, <1>5 DEF Prepared, Extends
<1>6. QED
  BY <1>4, <1>5 DEF e

\* A barrier for what was just done settles it.
LEMMA BarrierSettles ==
  ASSUME NEW d \in Device, NEW b, IsDependency(b), NEW on, NEW S, NEW B, BuffersNear(d, S, B),
         S \subseteq Scope(b.src, b.src_access), BufferScope \subseteq Scope(b.dst, b.dst_access),
         B \subseteq on
  PROVE  Settled(Barrier(d, b, on))
<1> DEFINE e == Barrier(d, b, on)
<1>1. \A r \in Buffers : \A q \in e.past[r] : \E p \in d.past[r] : q = Barriered(p, b, r \in on)
  BY BarrierEffect, BuffersAre DEF BarrieredBy
<1> HIDE DEF e
<1>2. SUFFICES ASSUME NEW r \in Buffers, NEW q \in e.past[r]
               PROVE  /\ <<q.stage, q.access>> \in BufferScope
                      /\ IsWrite(q.access) => BufferScope \subseteq q.visible
  BY DEF Settled, BuffersNear, e
<1>3. PICK p \in d.past[r] : q = Barriered(p, b, r \in on)
  BY <1>1
<1>4. p \in PastAccess
  BY BuffersAre DEF Device
<1>5. Extends(q, p)
  BY <1>3, <1>4, BarrieredExtends
<1>6. /\ <<p.stage, p.access>> \in BufferScope
      /\ IsWrite(p.access) => \/ BufferScope \subseteq p.visible
                              \/ r \in B /\ <<p.stage, p.access>> \in S
  BY DEF BuffersNear
<1>7. CASE IsWrite(p.access) /\ r \in B /\ <<p.stage, p.access>> \in S
  <2>1. q = Barriered(p, b, TRUE)
    BY <1>3, <1>7
  <2>2. Scope(b.dst, b.dst_access) \subseteq q.visible
    BY <2>1, <1>4, <1>7, BarrieredShows
  <2>3. QED
    BY <2>2, <1>5, <1>6 DEF Extends
<1>8. QED
  BY <1>5, <1>6, <1>7 DEF Extends

\* A transition of images keeps buffers settled and prepared, and makes no race of theirs.
LEMMA TransitionNear ==
  ASSUME NEW d \in Device, NEW units \in SUBSET Units, NEW new \in LayoutNames, NEW S, NEW B
  PROVE  /\ BuffersNear(d, S, B) => BuffersNear(TransitionImageRange(d, units, new), S, B)
         /\ Prepared(d) => Prepared(TransitionImageRange(d, units, new))
         /\ \A b \in Buffers : b \in TransitionImageRange(d, units, new).races => b \in d.races
<1> DEFINE e == TransitionImageRange(d, units, new)
<1>1. \A r \in Buffers : \A q \in e.past[r] : LeftBy(d, units, new, r, q)
  BY TransitionEffect, BuffersAre
<1>2. \A r \in Buffers : r \notin Runs(d, units, new)
  BY BuffersAre DEF Runs
<1>3. IsDependency(ExecutionBarrier(d, units, new))
  BY TransitionBarriers
<1>a. \A b \in Buffers : b \in e.races => b \in d.races
  BY TransitionEffect, BuffersAre
<1> HIDE DEF e
<1>4. \A r \in Buffers : \A q \in e.past[r] : \E p \in d.past[r] : Extends(q, p)
  <2>1. SUFFICES ASSUME NEW r \in Buffers, NEW q \in e.past[r] PROVE \E p \in d.past[r] : Extends(q, p)
    OBVIOUS
  <2>2. PICK p \in d.past[r] : q = Barriered(p, ExecutionBarrier(d, units, new), FALSE)
    BY <1>1, <1>2 DEF LeftBy
  <2>3. p \in PastAccess
    BY BuffersAre DEF Device
  <2>4. QED
    BY <2>2, <2>3, <1>3, BarrieredExtends
<1>5. ASSUME BuffersNear(d, S, B) PROVE BuffersNear(e, S, B)
  <2>1. SUFFICES ASSUME NEW r \in Buffers, NEW q \in e.past[r]
                 PROVE  /\ <<q.stage, q.access>> \in BufferScope
                        /\ IsWrite(q.access) => \/ BufferScope \subseteq q.visible
                                                \/ r \in B /\ <<q.stage, q.access>> \in S
    BY DEF BuffersNear
  <2>2. PICK p \in d.past[r] : Extends(q, p)
    BY <1>4
  <2>3. /\ <<p.stage, p.access>> \in BufferScope
        /\ IsWrite(p.access) => \/ BufferScope \subseteq p.visible
                                \/ r \in B /\ <<p.stage, p.access>> \in S
    BY <1>5 DEF BuffersNear
  <2>4. QED
    BY <2>2, <2>3 DEF Extends
<1>6. ASSUME Prepared(d) PROVE Prepared(e)
  BY <1>4, <1>6 DEF Prepared, Extends
<1>7. QED
  BY <1>5, <1>6, <1>a DEF e

\* Outside a pass an access is seen as it is, at least.
LEMMA SeenOutside ==
  ASSUME NEW p \in PastAccess, p.at = External
  PROVE  Seen(p, {}, External) \in PastAccess /\ Extends(Seen(p, {}, External), p)
<1>1. External \in Int /\ p.at <= External
  BY DEF External
<1>2. QED
  BY <1>1, SeenExtends

\* Who sees more races less.
LEMMA ExtendsRaces ==
  ASSUME NEW q, NEW p, Extends(q, p), NEW stage, NEW access, ~Races(p, stage, access)
  PROVE  ~Races(q, stage, access)
BY DEF Extends, Races

\* What a command does to buffers is among S, of writes, and is to B.
BufferUses(uses, S, B) ==
  \A u \in uses : u.on \in Buffers =>
     /\ <<u.stage, u.access>> \in BufferScope
     /\ IsWrite(u.access) => u.on \in B /\ <<u.stage, u.access>> \in S

\* Uses leave to settle what they do to buffers, and no more.
LEMMA UseNear ==
  ASSUME NEW d \in Device, NEW uses \in SUBSET UseType, NEW deps, NEW k \in Int, NEW S, NEW B,
         BuffersNear(d, S, B), BufferUses(uses, S, B)
  PROVE  BuffersNear(UseIn(d, uses, deps, k), S, B)
<1> DEFINE e == UseIn(d, uses, deps, k)
<1>1. \A r \in Buffers : \A p \in e.past[r] : KeptOrMade(d, uses, k, r, p)
  BY UseInEffect, BuffersAre
<1> HIDE DEF e
<1>2. SUFFICES ASSUME NEW r \in Buffers, NEW q \in e.past[r]
               PROVE  /\ <<q.stage, q.access>> \in BufferScope
                      /\ IsWrite(q.access) => \/ BufferScope \subseteq q.visible
                                              \/ r \in B /\ <<q.stage, q.access>> \in S
  BY DEF BuffersNear, e
<1>3. CASE q \in d.past[r]
  BY <1>3 DEF BuffersNear
<1>4. ASSUME NEW u \in uses, u.on = r, q = Accessed(u.stage, u.access, k)
      PROVE  /\ <<q.stage, q.access>> \in BufferScope
             /\ IsWrite(q.access) => \/ BufferScope \subseteq q.visible
                                     \/ r \in B /\ <<q.stage, q.access>> \in S
  <2>1. q.stage = u.stage /\ q.access = u.access
    BY <1>4 DEF Accessed
  <2>2. QED
    BY <1>4, <2>1 DEF BufferUses
<1>5. QED
  BY <1>1, <1>3, <1>4 DEF KeptOrMade

\* Uses outside a pass leave accesses there.
LEMMA UseOutside ==
  ASSUME NEW d \in Device, NEW uses \in SUBSET UseType, Outside(d)
  PROVE  Outside(Use(d, uses)) /\ Use(d, uses) \in Device
<1>1. External \in Int
  BY DEF External
<1> DEFINE e == Use(d, uses)
<1>2. e \in Device /\ \A r \in Resources : \A p \in e.past[r] : KeptOrMade(d, uses, External, r, p)
  BY <1>1, UseInEffect DEF Use
<1> HIDE DEF e
<1>3. \A s, a : Accessed(s, a, External).at = External
  BY DEF Accessed
<1>4. QED
  BY <1>2, <1>3 DEF Outside, KeptOrMade, e

\* Buffers of which everything is settled, and prepared if they are written, do
\* not race.
LEMMA UseRaces ==
  ASSUME NEW d \in Device, NEW uses \in SUBSET UseType, Outside(d),
         \A u \in uses : u.on \in Buffers =>
            \A p \in d.past[u.on] : ~Races(p, u.stage, u.access)
  PROVE  \A b \in Buffers : b \in Use(d, uses).races => b \in d.races
<1>1. External \in Int
  BY DEF External
<1> DEFINE e == Use(d, uses)
<1>2. \A r \in e.races : r \in d.races \/ RacesWith(d, uses, {}, External, r)
  BY <1>1, UseInEffect DEF Use
<1> HIDE DEF e
<1>3. SUFFICES ASSUME NEW b \in Buffers, NEW u \in uses, u.on = b, NEW p \in d.past[b],
                      Races(Seen(p, {}, External), u.stage, u.access)
               PROVE FALSE
  BY <1>2 DEF RacesWith, e
<1>4. p \in PastAccess /\ p.at = External
  BY BuffersAre DEF Device, Outside
<1>5. ~Races(p, u.stage, u.access)
  BY <1>3
<1>6. QED
  BY <1>3, <1>4, <1>5, SeenOutside, ExtendsRaces

\* What is done to a settled buffer races with nothing, a write if it is prepared.
LEMMA SettledRaces ==
  ASSUME NEW d \in Device, Settled(d), NEW b \in Buffers, NEW p \in d.past[b],
         NEW stage, NEW access, <<stage, access>> \in BufferScope,
         IsWrite(access) => Prepared(d) /\ stage \in WriterStages
  PROVE  ~Races(p, stage, access)
BY DEF Settled, BuffersNear, Prepared, Races

\* Writes to buffers are made by these stages.
LEMMA WritersAre ==
  \A s, a : <<s, a>> \in BufferScope /\ IsWrite(a) => s \in WriterStages
BY BufferScopeIs DEF IsWrite, Writes, WriterStages, BufferReaders, Accesses

\* A barrier before writes prepares for them.
LEMMA PreparedBy ==
  ASSUME NEW d \in Device, Settled(d)
  PROVE  Prepared(RecordMemoryBarrier(d, BufferReadToWrite))
<1> DEFINE e == Barrier(d, BufferReadToWrite, Resources)
<1>1. IsDependency(BufferReadToWrite) /\ BufferReadToWrite.src = BufferReaders
      /\ BufferReadToWrite.dst = WriterStages
  BY StageNames DEF BufferReadToWrite, IsDependency, Dependency, BufferReaders, WriterStages
<1>2. \A r \in Buffers : \A q \in e.past[r] :
         \E p \in d.past[r] : q = Barriered(p, BufferReadToWrite, r \in Resources)
  BY <1>1, BarrierEffect, BuffersAre DEF BarrieredBy
<1> HIDE DEF e
<1>3. SUFFICES ASSUME NEW r \in Buffers, NEW q \in e.past[r] PROVE WriterStages \subseteq q.after
  BY DEF Prepared, RecordMemoryBarrier, e
<1>4. PICK p \in d.past[r] : q = Barriered(p, BufferReadToWrite, r \in Resources)
  BY <1>2
<1>5. p \in PastAccess
  BY BuffersAre DEF Device
<1>6. p.stage \in BufferReaders
  BY BufferScopeIs DEF Settled, BuffersNear
<1>7. QED
  BY <1>1, <1>4, <1>5, <1>6, BarrieredOrders

-----------------------------------------------------------------------------
(* Layouts                                                                 *)

\* SubresourceLayouts tells the layout of every subresource.
Told(d) == d.mislaid = {} /\ \A u \in Units : d.states[u] = d.layout[u]

\* The layouts that uses name are those there are.
Names(uses, d) == \A u \in uses : u.on \in Units => u.layout = d.layout[u.on]

\* Uses that name the layouts there are leave them told.
LEMMA UseTold ==
  ASSUME NEW d \in Device, NEW uses \in SUBSET UseType, NEW deps, NEW k \in Int,
         Told(d), Names(uses, d)
  PROVE  Told(UseIn(d, uses, deps, k))
<1> DEFINE e == UseIn(d, uses, deps, k)
<1>1. /\ e \in Device /\ e.layout = d.layout /\ e.states = d.states
      /\ \A r \in e.mislaid : r \in d.mislaid \/ Misnamed(d, uses, r)
  BY UseInEffect
<1> HIDE DEF e
<1>2. \A r : ~Misnamed(d, uses, r)
  BY DEF Misnamed, Names
<1>3. QED
  BY <1>1, <1>2 DEF Told, e

InLayout(e, units, new) == \A u \in units : e.layout[u] = new
LayoutsKept(e, d, units) == \A u \in Units \ units : e.layout[u] = d.layout[u]

\* A transition leaves the layouts told, and its images in the new one.
LEMMA TransitionTold ==
  ASSUME NEW d \in Device, NEW units \in SUBSET Units, NEW new \in LayoutNames
  PROVE  LET e == TransitionImageRange(d, units, new) IN
         (Told(d) => Told(e) /\ InLayout(e, units, new)) /\ LayoutsKept(e, d, units)
<1> DEFINE e == TransitionImageRange(d, units, new)
<1>1. /\ \A u \in Units : e.states[u] = StateAfter(d, units, new, u)
      /\ \A u \in Units : e.layout[u] = LayoutAfter(d, units, new, u)
      /\ \A r \in e.mislaid : r \in d.mislaid \/ Mistold(d, units, new, r)
  BY TransitionEffect
<1> HIDE DEF e
<1>2. \A u : u \in Runs(d, units, new) <=> u \in units /\ NeedsBarrier(d.states[u], new)
  BY DEF Runs
<1>3. \A u \in units : u \notin Runs(d, units, new) => d.states[u] = new
  BY <1>2 DEF NeedsBarrier
<1>4. LayoutsKept(e, d, units)
  BY <1>1, <1>2 DEF LayoutsKept, LayoutAfter
<1>5. ASSUME Told(d) PROVE Told(e) /\ InLayout(e, units, new)
  <2>1. \A r : ~Mistold(d, units, new, r)
    BY <1>2, <1>5 DEF Mistold, Told
  <2>2. e.mislaid = {}
    BY <1>1, <1>5, <2>1 DEF Told
  <2>3. InLayout(e, units, new)
    BY <1>1, <1>2, <1>3, <1>5 DEF InLayout, LayoutAfter, Told
  <2>4. \A u \in Units : e.states[u] = e.layout[u]
    BY <1>1, <1>2, <1>3, <1>5 DEF StateAfter, LayoutAfter, Told
  <2>5. QED
    BY <2>2, <2>3, <2>4 DEF Told
<1>6. QED
  BY <1>4, <1>5 DEF e

\* A barrier changes no layout.
LEMMA BarrierTold ==
  ASSUME NEW d \in Device, NEW b, IsDependency(b), NEW on
  PROVE  LET e == Barrier(d, b, on) IN (Told(d) => Told(e)) /\ e.layout = d.layout
BY BarrierEffect DEF Told

-----------------------------------------------------------------------------
(* Steps of a command                                                      *)

\* Between commands, and within one that has done S to buffers B.
Nearly(d, S, B) == d \in Device /\ Outside(d) /\ Told(d) /\ BuffersNear(d, S, B)
Fine(d) == d \in Device /\ Outside(d) /\ Told(d) /\ Settled(d)

\* No buffer races that did not.
NoNewRace(e, d) == \A b \in Buffers : b \in e.races => b \in d.races

\* What a command promises.
Keeps(e, d) == Fine(e) /\ NoNewRace(e, d)

\* Steps that keep what a command promises do so together.
LEMMA KeepsOn ==
  ASSUME NEW d, NEW e, NEW f, Keeps(e, d), Keeps(f, e)
  PROVE  Keeps(f, d)
BY DEF Keeps, NoNewRace

\* Uses in the layouts there are, with what they leave to settle.
LEMMA UseWrites ==
  ASSUME NEW d, Fine(d), NEW uses \in SUBSET UseType, Names(uses, d), NEW S, NEW B,
         BufferUses(uses, S, B), B # {} => Prepared(d)
  PROVE  Nearly(Use(d, uses), S, B) /\ NoNewRace(Use(d, uses), d) /\ Use(d, uses).layout = d.layout
<1> DEFINE e == Use(d, uses)
<1>1. e \in Device /\ Outside(e)
  BY UseOutside DEF Fine
<1>2. External \in Int /\ BuffersNear(d, S, B)
  BY DEF Fine, Settled, BuffersNear, External
<1>3. BuffersNear(e, S, B)
  BY <1>2, UseNear DEF Use, Fine
<1>4. \A u \in uses : u.on \in Buffers => \A p \in d.past[u.on] : ~Races(p, u.stage, u.access)
  <2>1. SUFFICES ASSUME NEW u \in uses, u.on \in Buffers, NEW p \in d.past[u.on]
                 PROVE ~Races(p, u.stage, u.access)
    OBVIOUS
  <2>2. <<u.stage, u.access>> \in BufferScope /\ (IsWrite(u.access) => B # {})
    BY <2>1 DEF BufferUses
  <2>3. IsWrite(u.access) => Prepared(d) /\ u.stage \in WriterStages
    BY <2>2, WritersAre
  <2>4. QED
    BY <2>1, <2>2, <2>3, SettledRaces DEF Fine
<1>5. NoNewRace(e, d)
  BY <1>4, UseRaces DEF Fine, NoNewRace
<1>6. Told(e) /\ e.layout = d.layout
  BY <1>2, UseTold, UseInEffect DEF Use, Fine
<1> HIDE DEF e
<1>7. QED
  BY <1>1, <1>3, <1>5, <1>6 DEF Nearly, e

\* Uses that write no buffer leave nothing to settle.
LEMMA UseKeeps ==
  ASSUME NEW d, Fine(d), NEW uses \in SUBSET UseType, Names(uses, d), BufferUses(uses, {}, {})
  PROVE  Keeps(Use(d, uses), d) /\ Use(d, uses).layout = d.layout
BY UseWrites DEF Keeps, Fine, Nearly, Settled

\* A transition keeps what a command promises.
LEMMA TransitionKeeps ==
  ASSUME NEW d, Fine(d), NEW units \in SUBSET Units, NEW new \in LayoutNames
  PROVE  LET e == TransitionImageRange(d, units, new) IN
         /\ Keeps(e, d) /\ (Prepared(d) => Prepared(e))
         /\ InLayout(e, units, new) /\ LayoutsKept(e, d, units)
<1> DEFINE e == TransitionImageRange(d, units, new)
<1>1. d \in Device /\ Told(d) /\ Outside(d) /\ Settled(d)
  BY DEF Fine
<1>2. e \in Device
  BY <1>1, TransitionEffect
<1>3. Outside(e)
  BY <1>1, TransitionOutside
<1>4. Settled(e) /\ NoNewRace(e, d) /\ (Prepared(d) => Prepared(e))
  BY <1>1, TransitionNear DEF Settled, NoNewRace
<1>5. Told(e) /\ InLayout(e, units, new) /\ LayoutsKept(e, d, units)
  BY <1>1, TransitionTold
<1> HIDE DEF e
<1>6. QED
  BY <1>2, <1>3, <1>4, <1>5 DEF Keeps, Fine, e

\* A barrier keeps it too, with what is left to settle.
LEMMA BarrierNearly ==
  ASSUME NEW d, NEW S, NEW B, Nearly(d, S, B), NEW b, IsDependency(b), NEW on
  PROVE  LET e == Barrier(d, b, on) IN
         /\ Nearly(e, S, B) /\ NoNewRace(e, d) /\ e.layout = d.layout
         /\ Prepared(d) => Prepared(e)
<1> DEFINE e == Barrier(d, b, on)
<1>1. d \in Device /\ Told(d) /\ Outside(d) /\ BuffersNear(d, S, B)
  BY DEF Nearly
<1>2. e \in Device /\ Outside(e) /\ e.races = d.races
  BY <1>1, BarrierEffect, BarrierOutside
<1>3. BuffersNear(e, S, B) /\ (Prepared(d) => Prepared(e))
  BY <1>1, BarrierNear
<1>4. Told(e) /\ e.layout = d.layout
  BY <1>1, BarrierTold
<1> HIDE DEF e
<1>5. QED
  BY <1>2, <1>3, <1>4 DEF Nearly, NoNewRace, e

\* The same with nothing left to settle.
LEMMA BarrierKeeps ==
  ASSUME NEW d, Fine(d), NEW b, IsDependency(b), NEW on
  PROVE  LET e == Barrier(d, b, on) IN
         Keeps(e, d) /\ e.layout = d.layout /\ (Prepared(d) => Prepared(e))
BY BarrierNearly DEF Keeps, Fine, Nearly, Settled

\* A barrier for what was just done settles it.
LEMMA BarrierSettling ==
  ASSUME NEW d, NEW S, NEW B, Nearly(d, S, B), NEW b, IsDependency(b), NEW on, B \subseteq on,
         S \subseteq Scope(b.src, b.src_access), BufferScope \subseteq Scope(b.dst, b.dst_access)
  PROVE  Keeps(Barrier(d, b, on), d) /\ Barrier(d, b, on).layout = d.layout
<1>1. Settled(Barrier(d, b, on))
  BY BarrierSettles DEF Nearly
<1>2. QED
  BY <1>1, BarrierNearly DEF Keeps, Fine, Nearly

\* What is written to buffers, with the barrier that settles it.
LEMMA WriteKeeps ==
  ASSUME NEW d, Fine(d), NEW uses \in SUBSET UseType, NEW S, NEW B, BufferUses(uses, S, B),
         B # {} => Prepared(d), Names(uses, d), NEW b, IsDependency(b), NEW on, B \subseteq on,
         S \subseteq Scope(b.src, b.src_access), BufferScope \subseteq Scope(b.dst, b.dst_access)
  PROVE  Keeps(Barrier(Use(d, uses), b, on), d)
<1> DEFINE e == Use(d, uses)
<1>1. Nearly(e, S, B) /\ NoNewRace(e, d)
  BY UseWrites
<1> HIDE DEF e
<1>2. Keeps(Barrier(e, b, on), e)
  BY <1>1, BarrierSettling
<1>3. QED
  BY <1>1, <1>2 DEF Keeps, NoNewRace, e

\* The barriers recorded with commands are of stages.
LEMMA NamedBarriers ==
  /\ IsDependency(TransferToCompute) /\ IsDependency(BufferReadToWrite)
  /\ IsDependency(GpuWriteToHostRead) /\ IsDependency(QueryResolveOutgoing)
  /\ IsDependency(RenderPassShaderWrite) /\ IsDependency(ComputePreDispatch)
  /\ IsDependency(ComputePostDispatch) /\ \A a : IsDependency(TransferThen(a))
<1>1. /\ {"transfer"} \subseteq Stages /\ BufferReaders \subseteq Stages /\ {"compute"} \subseteq Stages
      /\ WriterStages \subseteq Stages /\ AllCommands \subseteq Stages /\ {"host"} \subseteq Stages
      /\ {"vertex", "fragment"} \subseteq Stages
  BY StageNames DEF BufferReaders, WriterStages
<1>2. QED
  BY <1>1 DEF TransferToCompute, BufferReadToWrite, GpuWriteToHostRead, QueryResolveOutgoing,
     RenderPassShaderWrite, ComputePreDispatch, ComputePostDispatch, TransferThen, IsDependency,
     Dependency, WriterStages

\* What each kind of command writes to buffers, and the barrier that settles it.
TransferWrites == {<<"transfer", "transfer_write">>}
ComputeWrites  == {<<"compute", "shader_write">>}
DrawWrites     == {<<"vertex", "shader_write">>, <<"fragment", "shader_write">>}

\* The barriers after writes cover the writes before and every use after them.
LEMMA SettlingBarriers ==
  /\ TransferWrites \subseteq Scope(TransferToCompute.src, TransferToCompute.src_access)
  /\ BufferScope \subseteq Scope(TransferToCompute.dst, TransferToCompute.dst_access)
  /\ TransferWrites \subseteq Scope(QueryResolveOutgoing.src, QueryResolveOutgoing.src_access)
  /\ BufferScope \subseteq Scope(QueryResolveOutgoing.dst, QueryResolveOutgoing.dst_access)
  /\ ComputeWrites \subseteq Scope(ComputePostDispatch.src, ComputePostDispatch.src_access)
  /\ BufferScope \subseteq Scope(ComputePostDispatch.dst, ComputePostDispatch.dst_access)
  /\ DrawWrites \subseteq Scope(RenderPassShaderWrite.src, RenderPassShaderWrite.src_access)
  /\ BufferScope \subseteq Scope(RenderPassShaderWrite.dst, RenderPassShaderWrite.dst_access)
<1>1. /\ "transfer_write" \in Accesses["transfer"] /\ "transfer" \in DOMAIN Accesses
      /\ "shader_write" \in Accesses["compute"] /\ "compute" \in DOMAIN Accesses
      /\ "shader_write" \in Accesses["vertex"] /\ "vertex" \in DOMAIN Accesses
      /\ "shader_write" \in Accesses["fragment"] /\ "fragment" \in DOMAIN Accesses
  BY StageNames DEF Accesses
<1>2. /\ TransferWrites \subseteq Scope({"transfer"}, {"transfer_write"})
      /\ ComputeWrites \subseteq Scope({"compute"}, {"shader_write"})
      /\ DrawWrites \subseteq Scope({"vertex", "fragment"}, {"shader_write"})
  BY <1>1, ScopeIs DEF TransferWrites, ComputeWrites, DrawWrites
<1>3. BufferScope \subseteq Scope({"transfer", "compute", "host"} \cup BufferReaders,
                                 MemoryRead \cup MemoryWrite \cup BufferAccesses)
  BY ScopeIs DEF BufferScope, Scope
<1>4. QED
  BY <1>2, <1>3 DEF BufferScope, TransferToCompute, QueryResolveOutgoing, ComputePostDispatch,
     RenderPassShaderWrite, Dependency

\* The temporary buffer can be dropped.
LEMMA DroppedKeeps ==
  ASSUME NEW d, Fine(d)
  PROVE  Keeps(Dropped(d), d) /\ Dropped(d).layout = d.layout
<1> DEFINE past == [d.past EXCEPT ![Temporary] = {}]
           e == Dropped(d)
<1>1. e = [d EXCEPT !.past = past]
  BY DEF Dropped, Fine, Device
<1>2. d \in Device /\ past \in [Resources -> SUBSET PastAccess]
  BY DEF Fine, Device
<1>3. \A r \in Resources : past[r] \subseteq d.past[r]
  BY DEF Fine, Device
<1> HIDE DEF past, e
<1>4. /\ e \in Device /\ e.past = past /\ e.races = d.races /\ e.mislaid = d.mislaid
      /\ e.layout = d.layout /\ e.states = d.states
  BY <1>1, <1>2 DEF Device
<1>5. Outside(e)
  BY <1>3, <1>4 DEF Fine, Outside
<1>6. Settled(e)
  BY <1>3, <1>4, BuffersAre DEF Fine, Settled, BuffersNear
<1>7. QED
  BY <1>4, <1>5, <1>6 DEF Keeps, Fine, NoNewRace, Told, e

-----------------------------------------------------------------------------
(* Copies                                                                  *)

\* What copies do to buffers and images.
LEMMA TransferUses ==
  /\ \A b \in Buffers \cup {Temporary} : TransferIn(b) \in SUBSET UseType /\ TransferOut(b) \in SUBSET UseType
  /\ \A us \in SUBSET Units, l \in LayoutNames :
        ImagesIn(us, l) \in SUBSET UseType /\ ImagesOut(us, l) \in SUBSET UseType
  /\ \A b \in Buffers \cup {Temporary} : \A S, B : BufferUses(TransferIn(b), S, B)
  /\ BufferUses(TransferOut(Temporary), {}, {})
  /\ \A b \in Buffers : BufferUses(TransferOut(b), TransferWrites, {b})
  /\ \A us \in SUBSET Units : \A l, S, B : BufferUses(ImagesIn(us, l), S, B) /\ BufferUses(ImagesOut(us, l), S, B)
<1>1. "transfer" \in Stages /\ "transfer_read" \in AccessNames /\ "transfer_write" \in AccessNames
  BY StageNames DEF AccessNames, MemoryRead, MemoryWrite, Accesses, Writes
<1>2. <<"transfer", "transfer_read">> \in BufferScope /\ <<"transfer", "transfer_write">> \in BufferScope
  BY BufferScopeIs DEF BufferReaders, BufferAccesses, Accesses
<1>3. ~IsWrite("transfer_read")
  BY DEF IsWrite, Writes
<1>4. /\ \A b \in Buffers \cup {Temporary} : TransferIn(b) \in SUBSET UseType /\ TransferOut(b) \in SUBSET UseType
      /\ \A us \in SUBSET Units, l \in LayoutNames :
            ImagesIn(us, l) \in SUBSET UseType /\ ImagesOut(us, l) \in SUBSET UseType
  BY <1>1, BuffersAre DEF TransferIn, TransferOut, ImagesIn, ImagesOut, Buffer, Image, UseType
<1>5. /\ \A b \in Buffers \cup {Temporary} : \A S, B : BufferUses(TransferIn(b), S, B)
      /\ BufferUses(TransferOut(Temporary), {}, {})
      /\ \A b \in Buffers : BufferUses(TransferOut(b), TransferWrites, {b})
  BY <1>2, <1>3, BuffersAre DEF TransferIn, TransferOut, Buffer, BufferUses, TransferWrites
<1>6. \A us \in SUBSET Units : \A l, S, B : BufferUses(ImagesIn(us, l), S, B) /\ BufferUses(ImagesOut(us, l), S, B)
  BY BuffersAre DEF ImagesIn, ImagesOut, Image, BufferUses
<1>7. QED
  BY <1>4, <1>5, <1>6

\* Uses of buffers together.
LEMMA BufferUsesUnion ==
  ASSUME NEW U, NEW V, NEW S, NEW B, BufferUses(U, S, B), BufferUses(V, S, B)
  PROVE  BufferUses(U \cup V, S, B)
BY DEF BufferUses

\* Copies name the layout their images were brought into.
LEMMA ImagesNamed ==
  ASSUME NEW d, NEW us, NEW l, InLayout(d, us, l)
  PROVE  Names(ImagesIn(us, l), d) /\ Names(ImagesOut(us, l), d)
BY DEF InLayout, Names, ImagesIn, ImagesOut, Image

\* Buffers have no layout to name.
LEMMA TransfersNamed ==
  \A d : \A b \in Buffers \cup {Temporary} : Names(TransferIn(b), d) /\ Names(TransferOut(b), d)
BY BuffersAre DEF Names, TransferIn, TransferOut, Buffer

\* Uses that name layouts, together.
LEMMA NamesUnion ==
  ASSUME NEW d, NEW U, NEW V, Names(U, d), Names(V, d)
  PROVE  Names(U \cup V, d)
BY DEF Names

\* The layouts that commands use.
LEMMA TransferLayouts ==
  /\ "transfer_src" \in LayoutNames /\ "transfer_dst" \in LayoutNames /\ "general" \in LayoutNames
  /\ "shader_read" \in LayoutNames /\ "color" \in LayoutNames /\ "depth" \in LayoutNames
BY DEF LayoutNames

\* A copy between buffers keeps what a command promises.
LEMMA BufferCopyKeeps ==
  ASSUME NEW d, Fine(d), Prepared(d), NEW c, c.from \in Buffers, c.to \in Buffers
  PROVE  Keeps(BufferCopy(d, c), d)
<1> DEFINE uses == TransferIn(c.from) \cup TransferOut(c.to)
<1>1. uses \in SUBSET UseType /\ BufferUses(uses, TransferWrites, {c.to}) /\ Names(uses, d)
  BY TransferUses, BufferUsesUnion, TransfersNamed, NamesUnion
<1> HIDE DEF uses
<1>2. {c.to} \subseteq Resources
  BY BuffersAre
<1>3. Keeps(Barrier(Use(d, uses), TransferToCompute, Resources), d)
  BY <1>1, <1>2, WriteKeeps, NamedBarriers, SettlingBarriers
<1>4. QED
  BY <1>3 DEF BufferCopy, RecordMemoryBarrier, uses

\* So does a clear.
LEMMA BufferClearKeeps ==
  ASSUME NEW d, Fine(d), Prepared(d), NEW c, c.to \in Buffers
  PROVE  Keeps(BufferClear(d, c), d)
<1>1. /\ TransferOut(c.to) \in SUBSET UseType /\ BufferUses(TransferOut(c.to), TransferWrites, {c.to})
      /\ Names(TransferOut(c.to), d)
  BY TransferUses, TransfersNamed
<1>2. {c.to} \subseteq Resources
  BY BuffersAre
<1>3. Keeps(Barrier(Use(d, TransferOut(c.to)), TransferToCompute, Resources), d)
  BY <1>1, <1>2, WriteKeeps, NamedBarriers, SettlingBarriers
<1>4. QED
  BY <1>3 DEF BufferClear, RecordMemoryBarrier

\* The zeroes are written first, then what the queries have.
LEMMA ResolveKeeps ==
  ASSUME NEW d, Fine(d), Prepared(d), NEW c, c.to \in Buffers
  PROVE  Keeps(ResolveQuerySet(d, c), d)
<1> DEFINE uses == TransferOut(c.to)
           mid == TransferThen({"transfer_write"})
           zeroed == Use(d, uses)
           filled == Barrier(zeroed, mid, {c.to})
           e == Use(filled, uses)
<1>1. /\ uses \in SUBSET UseType /\ BufferUses(uses, TransferWrites, {c.to})
      /\ \A f : Names(uses, f)
  BY TransferUses, TransfersNamed
<1>2. Nearly(zeroed, TransferWrites, {c.to}) /\ NoNewRace(zeroed, d)
  BY <1>1, UseWrites
<1>3. IsDependency(mid) /\ <<"transfer", "transfer_write">> \in Scope(mid.src, mid.src_access)
      /\ <<"transfer", "transfer_write">> \in Scope(mid.dst, mid.dst_access)
  BY NamedBarriers, ScopeIs, StageNames DEF TransferThen, Dependency, Accesses
<1>4. \A p \in zeroed.past[c.to] : KeptOrMade(d, uses, External, c.to, p)
  <2> HIDE DEF uses, mid
  <2>1. External \in Int /\ d \in Device /\ c.to \in Resources
    BY BuffersAre DEF External, Fine
  <2>2. QED
    BY <1>1, <2>1, UseInEffect DEF Use
<1> HIDE DEF zeroed, mid
<1>5. Nearly(filled, TransferWrites, {c.to}) /\ NoNewRace(filled, zeroed)
  BY <1>2, <1>3, BarrierNearly
<1>6. \A q \in filled.past[c.to] : BarrieredBy(zeroed, mid, {c.to}, c.to, q)
  BY <1>2, <1>3, BarrierEffect, BuffersAre DEF Nearly
<1> HIDE DEF filled
<1>7. ASSUME NEW q \in filled.past[c.to] PROVE ~Races(q, "transfer", "transfer_write")
  <2>1. PICK p \in zeroed.past[c.to] : q = Barriered(p, mid, TRUE)
    BY <1>6 DEF BarrieredBy
  <2>2. p \in PastAccess
    BY <1>2, BuffersAre DEF Nearly, Device
  <2>3. CASE p \in d.past[c.to]
    <3>1. ~Races(p, "transfer", "transfer_write")
      <4>1. <<"transfer", "transfer_write">> \in BufferScope
        BY BufferScopeIs DEF BufferReaders, BufferAccesses, Accesses
      <4>2. QED
        BY <2>3, <4>1, SettledRaces DEF Fine, WriterStages
    <3>2. Extends(q, p)
      BY <2>1, <2>2, <1>3, BarrieredExtends
    <3>3. QED
      BY <3>1, <3>2, ExtendsRaces
  <2>4. CASE p = Accessed("transfer", "transfer_write", External)
    <3>1. p.stage = "transfer" /\ p.access = "transfer_write"
      BY <2>4 DEF Accessed
    <3>2. Scope(mid.dst, mid.dst_access) \subseteq q.visible
      BY <2>1, <2>2, <3>1, <1>3, BarrieredShows
    <3>3. q.access = "transfer_write"
      BY <2>1, <2>2, <3>1, <1>3, BarrieredExtends DEF Extends
    <3>4. QED
      BY <1>3, <3>2, <3>3 DEF Races, IsWrite, Writes
  <2>5. p \in d.past[c.to] \/ p = Accessed("transfer", "transfer_write", External)
    BY <1>4 DEF KeptOrMade, TransferOut, Buffer
  <2>6. QED
    BY <2>3, <2>4, <2>5
<1>8. \A u \in uses : u.on \in Buffers => \A p \in filled.past[u.on] : ~Races(p, u.stage, u.access)
  BY <1>7 DEF TransferOut, Buffer
<1> HIDE DEF uses
<1>9. e \in Device /\ Outside(e) /\ External \in Int
  BY <1>1, <1>5, UseOutside DEF Nearly, External
<1>10. NoNewRace(e, filled)
  BY <1>1, <1>5, <1>8, UseRaces DEF NoNewRace, Nearly
<1>11. BuffersNear(e, TransferWrites, {c.to}) /\ Told(e)
  BY <1>1, <1>5, <1>9, UseNear, UseTold DEF Use, Nearly
<1> HIDE DEF e
<1>12. Keeps(Barrier(e, QueryResolveOutgoing, {c.to}), e)
  BY <1>9, <1>11, BarrierSettling, NamedBarriers, SettlingBarriers DEF Nearly
<1>13. ResolveQuerySet(d, c) = Barrier(e, QueryResolveOutgoing, {c.to})
  BY DEF ResolveQuerySet, e, filled, zeroed, uses, mid
<1>14. QED
  BY <1>2, <1>5, <1>10, <1>12, <1>13 DEF Keeps, NoNewRace

\* Filling the temporary buffer.
LEMMA TemporaryKeeps ==
  ASSUME NEW d, Fine(d), NEW uses \in SUBSET UseType, BufferUses(uses, {}, {}), Names(uses, d)
  PROVE  Keeps(ByTemporary(d, uses), d) /\ ByTemporary(d, uses).layout = d.layout
<1> DEFINE all == uses \cup TransferOut(Temporary)
           e == Use(d, all)
           f == Barrier(e, TransferThen({"transfer_read"}), {Temporary})
<1>1. all \in SUBSET UseType /\ BufferUses(all, {}, {}) /\ Names(all, d)
  BY TransferUses, BufferUsesUnion, TransfersNamed, NamesUnion
<1> HIDE DEF all
<1>2. Keeps(e, d) /\ e.layout = d.layout
  BY <1>1, UseKeeps
<1> HIDE DEF e
<1>3. Keeps(f, e) /\ f.layout = e.layout
  BY <1>2, BarrierKeeps, NamedBarriers DEF Keeps
<1> HIDE DEF f
<1>4. QED
  BY <1>2, <1>3, KeepsOn DEF ByTemporary, f, e, all

\* Reading the temporary buffer into images, and reading or writing images alone.
LEMMA ImageUses ==
  ASSUME NEW d, Fine(d), NEW us \in SUBSET Units, NEW l \in LayoutNames, InLayout(d, us, l)
  PROVE  /\ Keeps(Use(d, ImagesOut(us, l)), d)
         /\ \A b \in Buffers \cup {Temporary} :
               Keeps(Use(d, TransferIn(b) \cup ImagesOut(us, l)), d)
         /\ \A vs \in SUBSET Units, k \in LayoutNames :
               InLayout(d, vs, k) => Keeps(Use(d, ImagesIn(vs, k) \cup ImagesOut(us, l)), d)
<1> DEFINE write == ImagesOut(us, l)
<1>1. write \in SUBSET UseType /\ BufferUses(write, {}, {}) /\ Names(write, d)
  BY TransferUses, ImagesNamed
<1> HIDE DEF write
<1>2. Keeps(Use(d, write), d)
  BY <1>1, UseKeeps
<1>3. ASSUME NEW b \in Buffers \cup {Temporary} PROVE Keeps(Use(d, TransferIn(b) \cup write), d)
  <2> DEFINE all == TransferIn(b) \cup write
  <2>1. all \in SUBSET UseType /\ BufferUses(all, {}, {}) /\ Names(all, d)
    BY <1>1, TransferUses, BufferUsesUnion, TransfersNamed, NamesUnion
  <2> HIDE DEF all
  <2>2. Keeps(Use(d, all), d)
    BY <2>1, UseKeeps
  <2>3. QED
    BY <2>2 DEF all
<1>4. ASSUME NEW vs \in SUBSET Units, NEW k \in LayoutNames, InLayout(d, vs, k)
      PROVE  Keeps(Use(d, ImagesIn(vs, k) \cup write), d)
  <2> DEFINE all == ImagesIn(vs, k) \cup write
  <2>1. ImagesIn(vs, k) \in SUBSET UseType /\ BufferUses(ImagesIn(vs, k), {}, {})
    BY TransferUses
  <2>2. Names(ImagesIn(vs, k), d)
    BY <1>4, ImagesNamed
  <2>3. all \in SUBSET UseType /\ BufferUses(all, {}, {}) /\ Names(all, d)
    BY <1>1, <2>1, <2>2, BufferUsesUnion, NamesUnion
  <2> HIDE DEF all
  <2>4. Keeps(Use(d, all), d)
    BY <2>3, UseKeeps
  <2>5. QED
    BY <2>4 DEF all
<1>5. QED
  BY <1>2, <1>3, <1>4 DEF write

\* A clear of an image, by way of the temporary buffer or not.
LEMMA ClearTextureKeeps ==
  ASSUME NEW d, Fine(d), NEW c, c.units \in SUBSET Units
  PROVE  Keeps(ClearTexture(d, c), d)
<1> DEFINE us == c.units
           ready == TransitionImageRange(d, us, "transfer_dst")
           write == ImagesOut(us, "transfer_dst")
           filled == ByTemporary(ready, {})
           copied == Use(filled, TransferIn(Temporary) \cup write)
           cleared == IF c.compressed THEN Dropped(copied) ELSE Use(ready, write)
           last == Barrier(cleared, TransferThen({"transfer_write", "transfer_read"}), us)
<1>1. ClearTexture(d, c) = last
  BY DEF ClearTexture
<1>2. us \in SUBSET Units /\ "transfer_dst" \in LayoutNames
  BY TransferLayouts
<1> HIDE DEF us
<1>3. Keeps(ready, d) /\ InLayout(ready, us, "transfer_dst")
  BY <1>2, TransitionKeeps
<1> HIDE DEF ready
<1>4. Keeps(Use(ready, write), ready)
  BY <1>2, <1>3, ImageUses DEF Keeps
<1>5. Keeps(filled, ready) /\ filled.layout = ready.layout
  <2>1. {} \in SUBSET UseType /\ BufferUses({}, {}, {}) /\ Names({}, ready)
    BY DEF BufferUses, Names
  <2>2. QED
    BY <1>3, <2>1, TemporaryKeeps DEF Keeps
<1> HIDE DEF filled
<1>6. InLayout(filled, us, "transfer_dst")
  BY <1>3, <1>5 DEF InLayout
<1>7. Keeps(copied, filled)
  BY <1>2, <1>5, <1>6, ImageUses DEF Keeps
<1> HIDE DEF copied
<1>8. Keeps(Dropped(copied), copied)
  BY <1>7, DroppedKeeps DEF Keeps
<1>9. Keeps(cleared, ready)
  BY <1>4, <1>5, <1>7, <1>8, KeepsOn
<1> HIDE DEF cleared
<1>10. Keeps(last, cleared)
  BY <1>9, BarrierKeeps, NamedBarriers DEF Keeps
<1> HIDE DEF last
<1>11. QED
  BY <1>1, <1>3, <1>9, <1>10, KeepsOn

\* A copy from a buffer to an image.
LEMMA BufferToTextureKeeps ==
  ASSUME NEW d, Fine(d), NEW c, c.from \in Buffers, c.units \in SUBSET Units
  PROVE  Keeps(BufferToTexture(d, c), d)
<1> DEFINE us == c.units
           ready == TransitionImageRange(d, us, "transfer_dst")
           done == Use(ready, TransferIn(c.from) \cup ImagesOut(us, "transfer_dst"))
<1>1. BufferToTexture(d, c) = done
  BY DEF BufferToTexture
<1>2. us \in SUBSET Units /\ "transfer_dst" \in LayoutNames
  BY TransferLayouts
<1> HIDE DEF us
<1>3. Keeps(ready, d) /\ InLayout(ready, us, "transfer_dst")
  BY <1>2, TransitionKeeps
<1> HIDE DEF ready
<1>4. Keeps(done, ready)
  BY <1>2, <1>3, ImageUses DEF Keeps
<1> HIDE DEF done
<1>5. QED
  BY <1>1, <1>3, <1>4, KeepsOn

\* A copy from an image to a buffer.
LEMMA TextureToBufferKeeps ==
  ASSUME NEW d, Fine(d), Prepared(d), NEW c, c.to \in Buffers, c.units \in SUBSET Units
  PROVE  Keeps(TextureToBuffer(d, c), d)
<1> DEFINE us == c.units
           ready == TransitionImageRange(d, us, "transfer_src")
           uses == ImagesIn(us, "transfer_src") \cup TransferOut(c.to)
           done == Barrier(Use(ready, uses), TransferToCompute, Resources)
<1>1. TextureToBuffer(d, c) = done
  BY DEF TextureToBuffer, RecordMemoryBarrier
<1>2. us \in SUBSET Units /\ "transfer_src" \in LayoutNames
  BY TransferLayouts
<1> HIDE DEF us
<1>3. Keeps(ready, d) /\ InLayout(ready, us, "transfer_src") /\ Prepared(ready)
  BY <1>2, TransitionKeeps
<1> HIDE DEF ready
<1>4. uses \in SUBSET UseType /\ BufferUses(uses, TransferWrites, {c.to}) /\ Names(uses, ready)
  <2>1. /\ ImagesIn(us, "transfer_src") \in SUBSET UseType
        /\ BufferUses(ImagesIn(us, "transfer_src"), TransferWrites, {c.to})
        /\ Names(ImagesIn(us, "transfer_src"), ready)
    BY <1>2, <1>3, TransferUses, ImagesNamed
  <2>2. QED
    BY <2>1, TransferUses, BufferUsesUnion, TransfersNamed, NamesUnion
<1> HIDE DEF uses
<1>5. {c.to} \subseteq Resources
  BY BuffersAre
<1>6. Keeps(done, ready)
  BY <1>3, <1>4, <1>5, WriteKeeps, NamedBarriers, SettlingBarriers DEF Keeps
<1> HIDE DEF done
<1>7. QED
  BY <1>1, <1>3, <1>6, KeepsOn

\* A copy between images, or within one.
LEMMA TextureToTextureKeeps ==
  ASSUME NEW d, Fine(d), NEW c, c.from \in SUBSET Units, c.to \in SUBSET Units
  PROVE  Keeps(TextureToTexture(d, c), d)
<1> DEFINE from == c.from
           to == c.to
<1>0. /\ from \in SUBSET Units /\ to \in SUBSET Units /\ from \cup to \in SUBSET Units
      /\ "transfer_dst" \in LayoutNames /\ "transfer_src" \in LayoutNames /\ "general" \in LayoutNames
  BY TransferLayouts
<1> DEFINE source == TransitionImageRange(d, from, "transfer_src")
           target == TransitionImageRange(source, to, "transfer_dst")
           both == TransitionImageRange(d, from \cup to, "general")
           read == ByTemporary(source, ImagesIn(from, "transfer_src"))
           ready == TransitionImageRange(read, to, "transfer_dst")
           write == ImagesOut(to, "transfer_dst")
<1>1. TextureToTexture(d, c) =
        IF c.compressed THEN Dropped(Use(ready, TransferIn(Temporary) \cup write))
        ELSE IF from \cap to # {}
          THEN Use(both, ImagesIn(from, "general") \cup ImagesOut(to, "general"))
        ELSE Use(target, ImagesIn(from, "transfer_src") \cup write)
  BY DEF TextureToTexture
<1> HIDE DEF from, to
<1>2. Keeps(source, d) /\ InLayout(source, from, "transfer_src")
  BY <1>0, TransitionKeeps
<1> HIDE DEF source
<1>3. Keeps(Dropped(Use(ready, TransferIn(Temporary) \cup write)), d)
  <2>1. ImagesIn(from, "transfer_src") \in SUBSET UseType
        /\ BufferUses(ImagesIn(from, "transfer_src"), {}, {})
        /\ Names(ImagesIn(from, "transfer_src"), source)
    BY <1>0, <1>2, TransferUses, ImagesNamed
  <2>2. Keeps(read, source)
    BY <1>2, <2>1, TemporaryKeeps DEF Keeps
  <2> HIDE DEF read
  <2>3. Keeps(ready, read) /\ InLayout(ready, to, "transfer_dst")
    BY <1>0, <2>2, TransitionKeeps DEF Keeps
  <2> HIDE DEF ready
  <2> DEFINE copied == Use(ready, TransferIn(Temporary) \cup write)
  <2>4. Keeps(copied, ready)
    BY <1>0, <2>3, ImageUses DEF Keeps
  <2> HIDE DEF copied
  <2>5. Keeps(Dropped(copied), copied)
    BY <2>4, DroppedKeeps DEF Keeps
  <2>6. Keeps(Dropped(copied), d)
    BY <1>2, <2>2, <2>3, <2>4, <2>5, KeepsOn
  <2>7. QED
    BY <2>6 DEF copied
<1>4. Keeps(Use(both, ImagesIn(from, "general") \cup ImagesOut(to, "general")), d)
  <2>1. Keeps(both, d) /\ InLayout(both, from \cup to, "general")
    BY <1>0, TransitionKeeps
  <2> HIDE DEF both
  <2>2. InLayout(both, from, "general") /\ InLayout(both, to, "general")
    BY <2>1 DEF InLayout
  <2>3. Keeps(Use(both, ImagesIn(from, "general") \cup ImagesOut(to, "general")), both)
    BY <1>0, <2>1, <2>2, ImageUses DEF Keeps
  <2>4. QED
    BY <2>1, <2>3, KeepsOn
<1>5. CASE from \cap to = {}
  <2>1. Keeps(target, source) /\ InLayout(target, to, "transfer_dst") /\ LayoutsKept(target, source, to)
    BY <1>0, <1>2, TransitionKeeps DEF Keeps
  <2> HIDE DEF target
  <2>2. InLayout(target, from, "transfer_src")
    BY <1>0, <1>2, <1>5, <2>1 DEF InLayout, LayoutsKept
  <2>3. Keeps(Use(target, ImagesIn(from, "transfer_src") \cup write), target)
    BY <1>0, <2>1, <2>2, ImageUses DEF Keeps
  <2>4. Keeps(Use(target, ImagesIn(from, "transfer_src") \cup write), d)
    BY <1>2, <2>1, <2>3, KeepsOn
  <2>5. QED
    BY <1>1, <1>3, <1>5, <2>4
<1>6. CASE from \cap to # {}
  BY <1>1, <1>3, <1>4, <1>6
<1>7. QED
  BY <1>5, <1>6

-----------------------------------------------------------------------------
(* Transitions of many subresources                                        *)

\* The state after each of n transitions or none, of U[k] to L[k].
Moves(p, n, U, L) ==
  \A k \in 1 .. n :
     \/ p[k] = p[k - 1] /\ U[k] = {}
     \/ /\ p[k] = TransitionImageRange(p[k - 1], U[k], L[k])
        /\ U[k] \in SUBSET Units /\ L[k] \in LayoutNames

\* Where they lead: the layouts of units up to k, of what is among them, and of
\* the rest.
MovedIn(e, k, U, want) == \A i \in 1 .. k : \A u \in U[i] : e.layout[u] = want[u]
UnmovedIn(e, d, k, U) == \A u \in Units : (\A i \in 1 .. k : u \notin U[i]) => e.layout[u] = d.layout[u]

Wanted(n, U, L, want) == \A k \in 1 .. n : \A u \in U[k] : L[k] = want[u]

\* Transitions one after the other keep what a command promises and lead each unit to
\* the layout wanted for it, if no two want different ones.
LEMMA MovesKeep ==
  ASSUME NEW d, Fine(d), NEW n \in Nat, NEW p, NEW U, NEW L, NEW want, p[0] = d, Moves(p, n, U, L),
         Wanted(n, U, L, want)
  PROVE  /\ Keeps(p[n], d) /\ (Prepared(d) => Prepared(p[n]))
         /\ MovedIn(p[n], n, U, want) /\ UnmovedIn(p[n], d, n, U)
<1> DEFINE A == {k \in 0 .. n : /\ Keeps(p[k], d) /\ (Prepared(d) => Prepared(p[k]))
                                /\ MovedIn(p[k], k, U, want) /\ UnmovedIn(p[k], d, k, U)}
<1>1. 0 \in A
  BY DEF Keeps, NoNewRace, MovedIn, UnmovedIn
<1>2. ASSUME NEW k \in 1 .. n, k - 1 \in A PROVE k \in A
  <2>1. /\ Keeps(p[k - 1], d) /\ (Prepared(d) => Prepared(p[k - 1]))
        /\ MovedIn(p[k - 1], k - 1, U, want) /\ UnmovedIn(p[k - 1], d, k - 1, U)
    BY <1>2
  <2>2. \A i \in 1 .. k : i = k \/ i \in 1 .. (k - 1)
    OBVIOUS
  <2>3. k \in 1 .. k /\ 1 .. (k - 1) \subseteq 1 .. k
    OBVIOUS
  <2>4. CASE p[k] = p[k - 1] /\ U[k] = {}
    <3>1. MovedIn(p[k], k, U, want)
      BY <2>1, <2>2, <2>4 DEF MovedIn
    <3>2. UnmovedIn(p[k], d, k, U)
      BY <2>1, <2>3, <2>4 DEF UnmovedIn
    <3>3. QED
      BY <2>1, <2>4, <3>1, <3>2
  <2>5. CASE /\ p[k] = TransitionImageRange(p[k - 1], U[k], L[k])
             /\ U[k] \in SUBSET Units /\ L[k] \in LayoutNames
    <3>1. /\ Keeps(p[k], p[k - 1]) /\ (Prepared(p[k - 1]) => Prepared(p[k]))
          /\ InLayout(p[k], U[k], L[k]) /\ LayoutsKept(p[k], p[k - 1], U[k])
      BY <2>1, <2>5, TransitionKeeps DEF Keeps
    <3>2. Keeps(p[k], d)
      BY <2>1, <3>1, KeepsOn
    <3>3. MovedIn(p[k], k, U, want)
      <4>1. SUFFICES ASSUME NEW i \in 1 .. k, NEW u \in U[i] PROVE p[k].layout[u] = want[u]
        BY DEF MovedIn
      <4>2. CASE u \in U[k]
        BY <3>1, <4>2 DEF InLayout, Wanted
      <4>3. CASE u \notin U[k]
        <5>1. i \in 1 .. (k - 1)
          BY <2>2, <4>3
        <5>2. p[k - 1].layout[u] = want[u]
          BY <2>1, <5>1 DEF MovedIn
        <5>3. u \in Units
          <6>1. i \in 1 .. n
            OBVIOUS
          <6>2. QED
            BY <6>1 DEF Moves
        <5>4. QED
          BY <3>1, <4>3, <5>2, <5>3 DEF LayoutsKept
      <4>4. QED
        BY <4>2, <4>3
    <3>4. UnmovedIn(p[k], d, k, U)
      BY <2>1, <2>3, <3>1 DEF UnmovedIn, LayoutsKept
    <3>5. QED
      BY <2>1, <3>1, <3>2, <3>3, <3>4
  <2>6. QED
    BY <2>4, <2>5 DEF Moves
<1> HIDE DEF A
<1>3. n \in A
  BY <1>1, <1>2, ViewFold!Counting
<1>4. QED
  BY <1>3 DEF A

\* What of an image is sampled is in this layout, unless it is attached.
SampledIn(bound, u) ==
  IF \E i \in DOMAIN bound : bound[i].as = "storage_texture" /\ ImageOf[bound[i].on] = ImageOf[u]
    THEN "general" ELSE "shader_read"

\* The textures that a pass samples are in the layout they are sampled in.
LEMMA SampledKeeps ==
  ASSUME NEW d, Fine(d), NEW bound \in Seq(Bindings), NEW attached
  PROVE  LET e == TransitionSampled(d, bound, attached) IN
         /\ Keeps(e, d) /\ (Prepared(d) => Prepared(e))
         /\ \A i \in DOMAIN bound : bound[i].as = "sampled" /\ bound[i].on \notin attached
               => e.layout[bound[i].on] = SampledIn(bound, bound[i].on)
         /\ \A u \in Units \cap attached : e.layout[u] = d.layout[u]
<1> DEFINE n == Len(bound)
           ctx == [bound |-> bound, attached |-> attached]
           e == TransitionSampled(d, bound, attached)
           U == [k \in 1 .. n |-> IF bound[k].as = "sampled" THEN {bound[k].on} \ attached ELSE {}]
           L == [k \in 1 .. n |-> SampledLayout(bound[k], bound)]
           want == [u \in Units |-> SampledIn(bound, u)]
<1>0. /\ n \in Nat /\ DOMAIN bound = 1 .. n
      /\ \A i \in 1 .. n : bound[i].as = "sampled" => bound[i].on \in Units
  <2>1. \A i \in 1 .. n : bound[i] \in Bindings
    OBVIOUS
  <2>2. QED
    BY <2>1 DEF Bindings
<1>1. e = SampledFold!Fold(ctx, d, bound)
  BY DEF TransitionSampled, FoldLeft, MapThenFoldSet, Max, SampledFold!Fold, SampledFold!Iteration,
     SampledFold!Top, SampledStep
<1> HIDE DEF ctx
<1>2. PICK p : SampledFold!Through(ctx, p, d, bound) /\ e = p[n]
  BY <1>1, SampledFold!FoldThrough
<1> HIDE DEF e
<1>3. p[0] = d /\ \A k \in 1 .. n : p[k] = SampledStep(ctx, p[k - 1], bound[k])
  BY <1>2 DEF SampledFold!Through
<1>4. \A k \in 1 .. n : SampledLayout(bound[k], bound) = SampledIn(bound, bound[k].on)
  BY DEF SampledLayout, SharesStorage, SampledIn
<1>5. \A u : SampledIn(bound, u) \in LayoutNames
  BY TransferLayouts DEF SampledIn
<1> HIDE DEF n
<1>6. Moves(p, n, U, L)
  <2>1. SUFFICES ASSUME NEW k \in 1 .. n
                 PROVE  \/ p[k] = p[k - 1] /\ U[k] = {}
                        \/ /\ p[k] = TransitionImageRange(p[k - 1], U[k], L[k])
                           /\ U[k] \in SUBSET Units /\ L[k] \in LayoutNames
    BY DEF Moves
  <2>2. CASE bound[k].as = "sampled"
    BY <1>0, <1>3, <1>4, <1>5, <2>2 DEF SampledStep, ctx
  <2>3. CASE bound[k].as # "sampled"
    BY <1>3, <2>3 DEF SampledStep
  <2>4. QED
    BY <2>2, <2>3
<1>7. Wanted(n, U, L, want)
  BY <1>0, <1>4 DEF Wanted
<1>8. \A i \in 1 .. n : bound[i].as = "sampled" /\ bound[i].on \notin attached
        => bound[i].on \in U[i] /\ want[bound[i].on] = SampledIn(bound, bound[i].on)
  BY <1>0
<1>9. \A u \in Units \cap attached : \A i \in 1 .. n : u \notin U[i]
  OBVIOUS
<1> HIDE DEF U, L, want
<1>10. /\ Keeps(e, d) /\ (Prepared(d) => Prepared(e))
       /\ MovedIn(e, n, U, want) /\ UnmovedIn(e, d, n, U)
  BY <1>0, <1>2, <1>3, <1>6, <1>7, MovesKeep
<1>11. QED
  BY <1>0, <1>8, <1>9, <1>10 DEF MovedIn, UnmovedIn, e

\* The storage textures of a pass are in the general layout, and nothing else moves.
LEMMA StorageKeeps ==
  ASSUME NEW d, Fine(d), NEW bound \in Seq(Bindings), NEW attached
  PROVE  LET e == TransitionStorage(d, bound, attached) IN
         /\ Keeps(e, d) /\ (Prepared(d) => Prepared(e))
         /\ \A u \in Units :
               e.layout[u] = IF u \notin attached
                                  /\ \E i \in DOMAIN bound : bound[i].as = "storage_texture" /\ bound[i].on = u
                               THEN "general" ELSE d.layout[u]
<1> DEFINE n == Len(bound)
           ctx == [bound |-> bound, attached |-> attached]
           e == TransitionStorage(d, bound, attached)
           U == [k \in 1 .. n |-> IF bound[k].as = "storage_texture" THEN {bound[k].on} \ attached ELSE {}]
           L == [k \in 1 .. n |-> "general"]
           want == [u \in Units |-> "general"]
<1>0. /\ n \in Nat /\ DOMAIN bound = 1 .. n
      /\ \A i \in 1 .. n : bound[i].as = "storage_texture" => bound[i].on \in Units
  <2>1. \A i \in 1 .. n : bound[i] \in Bindings
    OBVIOUS
  <2>2. QED
    BY <2>1 DEF Bindings
<1>1. e = StorageFold!Fold(ctx, d, bound)
  BY DEF TransitionStorage, FoldLeft, MapThenFoldSet, Max, StorageFold!Fold, StorageFold!Iteration,
     StorageFold!Top, StorageStep
<1> HIDE DEF ctx
<1>2. PICK p : StorageFold!Through(ctx, p, d, bound) /\ e = p[n]
  BY <1>1, StorageFold!FoldThrough
<1> HIDE DEF e
<1>3. p[0] = d /\ \A k \in 1 .. n : p[k] = StorageStep(ctx, p[k - 1], bound[k])
  BY <1>2 DEF StorageFold!Through
<1> HIDE DEF n
<1>4. Moves(p, n, U, L)
  <2>1. SUFFICES ASSUME NEW k \in 1 .. n
                 PROVE  \/ p[k] = p[k - 1] /\ U[k] = {}
                        \/ /\ p[k] = TransitionImageRange(p[k - 1], U[k], L[k])
                           /\ U[k] \in SUBSET Units /\ L[k] \in LayoutNames
    BY DEF Moves
  <2>2. CASE bound[k].as = "storage_texture"
    BY <1>0, <1>3, <2>2, TransferLayouts DEF StorageStep, ctx
  <2>3. CASE bound[k].as # "storage_texture"
    BY <1>3, <2>3 DEF StorageStep
  <2>4. QED
    BY <2>2, <2>3
<1>5. Wanted(n, U, L, want)
  BY <1>0 DEF Wanted
<1>6. \A u \in Units, i \in 1 .. n : u \in U[i] <=>
          u \notin attached /\ bound[i].as = "storage_texture" /\ bound[i].on = u
  OBVIOUS
<1>7. \A u \in Units : want[u] = "general"
  OBVIOUS
<1> HIDE DEF U, L, want
<1>8. /\ Keeps(e, d) /\ (Prepared(d) => Prepared(e))
      /\ MovedIn(e, n, U, want) /\ UnmovedIn(e, d, n, U)
  BY <1>0, <1>2, <1>3, <1>4, <1>5, MovesKeep
<1>9. ASSUME NEW u \in Units
      PROVE  e.layout[u] = IF u \notin attached
                                /\ \E i \in DOMAIN bound : bound[i].as = "storage_texture" /\ bound[i].on = u
                             THEN "general" ELSE d.layout[u]
  <2>1. CASE \E i \in 1 .. n : u \in U[i]
    BY <1>0, <1>6, <1>7, <1>8, <2>1 DEF MovedIn
  <2>2. CASE \A i \in 1 .. n : u \notin U[i]
    BY <1>0, <1>6, <1>8, <2>2 DEF UnmovedIn
  <2>3. QED
    BY <2>1, <2>2
<1>10. QED
  BY <1>8, <1>9 DEF e

\* The layout a shader finds what is bound in.
LayoutOf(b, bound) ==
  CASE b.as = "sampled" -> SampledLayout(b, bound)
    [] b.as = "storage_texture" -> "general"
    [] OTHER -> "none"

BoundReady(e, bound, attached) ==
  \A i \in DOMAIN bound : bound[i].on \in Units \ attached
     => e.layout[bound[i].on] = LayoutOf(bound[i], bound)

\* Every binding of a pass is in the layout its shaders expect.
LEMMA TexturesKeep ==
  ASSUME NEW d, Fine(d), NEW bound \in Seq(Bindings), NEW attached
  PROVE  LET e == TransitionStorage(TransitionSampled(d, bound, attached), bound, attached) IN
         /\ Keeps(e, d) /\ (Prepared(d) => Prepared(e)) /\ BoundReady(e, bound, attached)
         /\ \A u \in Units \cap attached : e.layout[u] = d.layout[u]
<1> DEFINE m == TransitionSampled(d, bound, attached)
           e == TransitionStorage(m, bound, attached)
<1>1. /\ Keeps(m, d) /\ (Prepared(d) => Prepared(m))
      /\ \A i \in DOMAIN bound : bound[i].as = "sampled" /\ bound[i].on \notin attached
            => m.layout[bound[i].on] = SampledIn(bound, bound[i].on)
      /\ \A u \in Units \cap attached : m.layout[u] = d.layout[u]
  BY SampledKeeps
<1> HIDE DEF m
<1>2. /\ Keeps(e, m) /\ (Prepared(m) => Prepared(e))
      /\ \A u \in Units :
            e.layout[u] = IF u \notin attached
                               /\ \E i \in DOMAIN bound : bound[i].as = "storage_texture" /\ bound[i].on = u
                            THEN "general" ELSE m.layout[u]
  BY <1>1, StorageKeeps DEF Keeps
<1> HIDE DEF e
<1>3. Keeps(e, d)
  BY <1>1, <1>2, KeepsOn
<1>4. ASSUME NEW i \in DOMAIN bound, bound[i].on \in Units \ attached
      PROVE  e.layout[bound[i].on] = LayoutOf(bound[i], bound)
  <2>1. bound[i] \in Bindings
    OBVIOUS
  <2>2. bound[i].as = "sampled" \/ bound[i].as = "storage_texture"
    BY <2>1, <1>4, BuffersAre DEF Bindings
  <2>3. CASE bound[i].as = "storage_texture"
    BY <1>2, <1>4, <2>3 DEF LayoutOf
  <2>4. CASE bound[i].as = "sampled"
    <3>1. LayoutOf(bound[i], bound) = SampledIn(bound, bound[i].on)
      BY <2>4 DEF LayoutOf, SampledLayout, SharesStorage, SampledIn
    <3>2. m.layout[bound[i].on] = SampledIn(bound, bound[i].on)
      BY <1>1, <1>4, <2>4
    <3>3. (\E j \in DOMAIN bound : bound[j].as = "storage_texture" /\ bound[j].on = bound[i].on)
            => SampledIn(bound, bound[i].on) = "general"
      BY DEF SampledIn
    <3>4. QED
      BY <1>2, <1>4, <3>1, <3>2, <3>3
  <2>5. QED
    BY <2>2, <2>3, <2>4
<1>5. \A u \in Units \cap attached : e.layout[u] = d.layout[u]
  BY <1>1, <1>2
<1>6. QED
  BY <1>1, <1>2, <1>3, <1>4, <1>5 DEF BoundReady, m, e

-----------------------------------------------------------------------------
(* What shaders do                                                         *)

ShaderStages == {"vertex", "fragment", "compute"}

\* A use that a shader makes of a binding.
ShaderUse(u, pipeline, binds, bound, stages) ==
  \E b \in binds :
     /\ b.key \in pipeline.declared /\ u.on = b.on /\ u.layout = LayoutOf(b, bound) /\ u.stage \in stages
     /\ \/ u.access = "uniform_read" /\ b.as = "uniform"
        \/ u.access = "shader_read" /\ b.as # "uniform"
        \/ u.access = "shader_write" /\ b.key \in pipeline.writable /\ u.stage # "vertex"

\* What shaders do is done to something bound, as the pipeline declares it.
LEMMA ShaderUsesAre ==
  ASSUME NEW pipeline, NEW binds, NEW bound, NEW stages
  PROVE  \A u \in ShaderUses(pipeline, binds, bound, stages) :
            /\ ShaderUse(u, pipeline, binds, bound, stages)
            /\ u = Image(u.on, u.stage, u.access, u.layout)
<1> DEFINE read(b) == IF b.as = "uniform" THEN "uniform_read" ELSE "shader_read"
           writers(b) == IF b.key \in pipeline.writable THEN stages \ {"vertex"} ELSE {}
           Of(b) == {Image(b.on, s, read(b), LayoutOf(b, bound)) : s \in stages}
                      \cup {Image(b.on, s, "shader_write", LayoutOf(b, bound)) : s \in writers(b)}
<1>1. ShaderUses(pipeline, binds, bound, stages) = UNION {Of(b) : b \in {b \in binds : b.key \in pipeline.declared}}
  BY DEF ShaderUses, LayoutOf
<1>2. ASSUME NEW b \in binds, b.key \in pipeline.declared, NEW u \in Of(b)
      PROVE  ShaderUse(u, pipeline, binds, bound, stages) /\ u = Image(u.on, u.stage, u.access, u.layout)
  <2>1. CASE u \in {Image(b.on, s, read(b), LayoutOf(b, bound)) : s \in stages}
    <3>1. PICK s \in stages : u = Image(b.on, s, read(b), LayoutOf(b, bound))
      BY <2>1
    <3>2. u.on = b.on /\ u.stage = s /\ u.access = read(b) /\ u.layout = LayoutOf(b, bound)
      BY <3>1 DEF Image
    <3>3. QED
      BY <1>2, <3>1, <3>2 DEF ShaderUse
  <2>2. CASE u \in {Image(b.on, s, "shader_write", LayoutOf(b, bound)) : s \in writers(b)}
    <3>1. PICK s \in writers(b) : u = Image(b.on, s, "shader_write", LayoutOf(b, bound))
      BY <2>2
    <3>2. u.on = b.on /\ u.stage = s /\ u.access = "shader_write" /\ u.layout = LayoutOf(b, bound)
      BY <3>1 DEF Image
    <3>3. s \in stages /\ s # "vertex" /\ b.key \in pipeline.writable
      BY <3>1
    <3>4. QED
      BY <1>2, <3>1, <3>2, <3>3 DEF ShaderUse
  <2>3. QED
    BY <1>2, <2>1, <2>2
<1> HIDE DEF Of
<1>3. QED
  BY <1>1, <1>2

\* The layout of a binding.
LEMMA LayoutOfType ==
  \A b \in Bindings : \A bound : LayoutOf(b, bound) \in LayoutNames \cup {"none"}
BY TransferLayouts DEF LayoutOf, SampledLayout

\* What shaders write to buffers.
ShaderWrites(stages) == {<<s, "shader_write">> : s \in stages \ {"vertex"}}

\* The buffers that a draw or dispatch may write.
WrittenBy(pipeline, binds) == IF WritableIsBound(BufferWritable(pipeline), binds) THEN Buffers ELSE {}

\* Shaders write no buffers but where CommandWritesBuffer finds it out.
LEMMA ShaderUsesType ==
  ASSUME NEW pipeline, NEW binds \in SUBSET Bindings, NEW bound, NEW stages \in SUBSET ShaderStages,
         BindGroupsMatch([pipeline |-> pipeline, binds |-> binds])
  PROVE  /\ ShaderUses(pipeline, binds, bound, stages) \in SUBSET UseType
         /\ BufferUses(ShaderUses(pipeline, binds, bound, stages), ShaderWrites(stages),
                       WrittenBy(pipeline, binds))
<1> DEFINE uses == ShaderUses(pipeline, binds, bound, stages)
<1>1. \A u \in uses : /\ ShaderUse(u, pipeline, binds, bound, stages)
                      /\ u = Image(u.on, u.stage, u.access, u.layout)
  BY ShaderUsesAre
<1> HIDE DEF uses
<1>2. \A s \in stages : /\ s \in Stages /\ s \in BufferReaders
                        /\ {"uniform_read", "shader_read", "shader_write"} \subseteq Accesses[s]
  BY StageNames DEF ShaderStages, BufferReaders, Accesses
<1>3. {"uniform_read", "shader_read", "shader_write"} \subseteq AccessNames
  <2>1. "fragment" \in DOMAIN Accesses /\ {"uniform_read", "shader_read", "shader_write"} \subseteq Accesses["fragment"]
    BY StageNames DEF Accesses
  <2>2. QED
    BY <2>1, AccessesNamed
<1>4. ASSUME NEW u \in uses
      PROVE  /\ u \in UseType
             /\ u.on \in Buffers => /\ <<u.stage, u.access>> \in BufferScope
                                    /\ IsWrite(u.access) => /\ u.on \in WrittenBy(pipeline, binds)
                                                            /\ <<u.stage, u.access>> \in ShaderWrites(stages)
  <2>1. PICK b \in binds :
          /\ b.key \in pipeline.declared /\ u.on = b.on /\ u.layout = LayoutOf(b, bound) /\ u.stage \in stages
          /\ \/ u.access = "uniform_read" /\ b.as = "uniform"
             \/ u.access = "shader_read" /\ b.as # "uniform"
             \/ u.access = "shader_write" /\ b.key \in pipeline.writable /\ u.stage # "vertex"
    BY <1>1, <1>4 DEF ShaderUse
  <2>2. b.on \in Resources /\ u.layout \in LayoutNames \cup {"none"}
    BY <2>1, BuffersAre, LayoutOfType DEF Bindings
  <2>3. u.access \in {"uniform_read", "shader_read", "shader_write"}
    BY <2>1
  <2>4. u \in UseType
    BY <1>1, <1>2, <1>3, <1>4, <2>1, <2>2, <2>3 DEF UseType, Image
  <2>5. <<u.stage, u.access>> \in BufferScope
    BY <1>2, <2>1, <2>3, BufferScopeIs DEF BufferAccesses
  <2>6. ASSUME IsWrite(u.access), u.on \in Buffers
        PROVE  u.on \in WrittenBy(pipeline, binds) /\ <<u.stage, u.access>> \in ShaderWrites(stages)
    <3>1. u.access = "shader_write" /\ b.key \in pipeline.writable /\ u.stage # "vertex"
      BY <2>1, <2>6 DEF IsWrite, Writes
    <3>2. b.key \in pipeline.buffers
      BY <2>1, <2>6, <3>1 DEF BindGroupsMatch
    <3>3. WritableIsBound(BufferWritable(pipeline), binds)
      BY <3>1, <3>2 DEF WritableIsBound, BufferWritable
    <3>4. QED
      BY <2>1, <2>6, <3>1, <3>3 DEF WrittenBy, ShaderWrites
  <2>7. QED
    BY <2>4, <2>5, <2>6
<1>5. QED
  BY <1>4 DEF BufferUses, uses

\* Shaders find what is bound in the layouts they expect.
LEMMA ShaderUsesNamed ==
  ASSUME NEW d, NEW pipeline, NEW binds, NEW bound, NEW stages, NEW attached,
         BoundReady(d, bound, attached), \A b \in binds : \E i \in DOMAIN bound : b = bound[i],
         \A b \in binds : b.key \in pipeline.declared => b.on \notin attached
  PROVE  Names(ShaderUses(pipeline, binds, bound, stages), d)
<1> DEFINE uses == ShaderUses(pipeline, binds, bound, stages)
<1>1. \A u \in uses : ShaderUse(u, pipeline, binds, bound, stages)
  BY ShaderUsesAre
<1> HIDE DEF uses
<1>2. SUFFICES ASSUME NEW u \in uses, u.on \in Units PROVE u.layout = d.layout[u.on]
  BY DEF Names, uses
<1>3. PICK b \in binds : b.key \in pipeline.declared /\ u.on = b.on /\ u.layout = LayoutOf(b, bound)
  BY <1>1 DEF ShaderUse
<1>4. PICK i \in DOMAIN bound : b = bound[i]
  OBVIOUS
<1>5. QED
  BY <1>2, <1>3, <1>4 DEF BoundReady

-----------------------------------------------------------------------------
(* Compute passes                                                          *)

\* A compute pass keeps what a command promises.
LEMMA ComputePassKeeps ==
  ASSUME NEW d, Fine(d), NEW c, CommandWritesBuffer(c) => Prepared(d), c.kind = "compute",
         c.pipeline \in Pipelines, c.binds \in Seq(Bindings), c.indirect \in SUBSET Buffers,
         BindGroupsMatch([pipeline |-> c.pipeline, binds |-> ToSet(c.binds)])
  PROVE  Keeps(ComputePass(d, c), d)
<1> DEFINE bound == c.binds
           binds == ToSet(bound)
           pipeline == c.pipeline
           B == WrittenBy(pipeline, binds)
           ready == TransitionStorage(TransitionSampled(d, bound, {}), bound, {})
           fetches == {Buffer(b, "indirect", "indirect_read") : b \in c.indirect}
           shader == ShaderUses(pipeline, binds, bound, {"compute"})
           uses == shader \cup fetches
           begun == Barrier(ready, ComputePreDispatch, Resources)
           done == Barrier(Use(begun, uses), ComputePostDispatch, Resources)
<1>1. ComputePass(d, c) = done
  BY DEF ComputePass, RecordMemoryBarrier
<1>2. B # {} => Prepared(d)
  BY DEF WrittenBy, CommandWritesBuffer
<1>3. /\ bound \in Seq(Bindings) /\ binds \in SUBSET Bindings
      /\ \A b \in binds : \E i \in DOMAIN bound : b = bound[i]
  BY DEF ToSet
<1>4. fetches \in SUBSET UseType /\ BufferUses(fetches, ComputeWrites, B) /\ \A e : Names(fetches, e)
  <2>1. /\ "indirect" \in Stages /\ "indirect" \in BufferReaders /\ "indirect_read" \in Accesses["indirect"]
        /\ "indirect" \in DOMAIN Accesses /\ ~IsWrite("indirect_read") /\ "indirect_read" \in BufferAccesses
    BY StageNames DEF BufferReaders, Accesses, IsWrite, Writes, BufferAccesses
  <2>2. "indirect_read" \in AccessNames /\ <<"indirect", "indirect_read">> \in BufferScope
    BY <2>1, AccessesNamed, BufferScopeIs
  <2>3. \A u \in fetches : /\ u.on \in Buffers /\ u.stage = "indirect" /\ u.access = "indirect_read"
                           /\ u = [on |-> u.on, stage |-> u.stage, access |-> u.access, layout |-> "none"]
    BY DEF Buffer
  <2> HIDE DEF fetches, B
  <2>4. fetches \in SUBSET UseType
    BY <2>1, <2>2, <2>3, BuffersAre DEF UseType
  <2>5. QED
    BY <2>1, <2>2, <2>3, <2>4, BuffersAre DEF BufferUses, Names
<1> HIDE DEF fetches
<1>5. ComputeWrites = ShaderWrites({"compute"})
  BY DEF ComputeWrites, ShaderWrites
<1>6. shader \in SUBSET UseType /\ BufferUses(shader, ComputeWrites, B)
  <2> HIDE DEF bound, binds, pipeline
  <2>1. BindGroupsMatch([pipeline |-> pipeline, binds |-> binds])
    BY DEF bound, binds, pipeline
  <2>2. QED
    BY <1>3, <1>5, <2>1, ShaderUsesType DEF ShaderStages
<1> HIDE DEF bound
<1>7. Keeps(ready, d) /\ (Prepared(d) => Prepared(ready)) /\ BoundReady(ready, bound, {})
  BY <1>3, TexturesKeep
<1> HIDE DEF ready
<1>8. Keeps(begun, ready) /\ begun.layout = ready.layout /\ (Prepared(ready) => Prepared(begun))
  BY <1>7, BarrierKeeps, NamedBarriers DEF Keeps
<1> HIDE DEF begun
<1>9. Names(shader, begun)
  <2>1. BoundReady(begun, bound, {})
    BY <1>7, <1>8 DEF BoundReady
  <2> HIDE DEF binds
  <2>2. QED
    BY <1>3, <2>1, ShaderUsesNamed
<1> HIDE DEF shader, B, binds
<1>10. uses \in SUBSET UseType /\ BufferUses(uses, ComputeWrites, B) /\ Names(uses, begun)
  BY <1>4, <1>6, <1>9, BufferUsesUnion, NamesUnion
<1>11. B \subseteq Resources
  BY BuffersAre DEF B, WrittenBy
<1> HIDE DEF uses
<1>12. Keeps(done, begun)
  BY <1>2, <1>7, <1>8, <1>10, <1>11, WriteKeeps, NamedBarriers, SettlingBarriers DEF Keeps
<1> HIDE DEF done
<1>13. QED
  BY <1>1, <1>7, <1>8, <1>12, KeepsOn

-----------------------------------------------------------------------------
(* Subpasses                                                               *)

\* The layout of u in the subpass.
SubpassLayout(d, uses, attached, u) ==
  IF u \in Changed(d, uses, attached) THEN (CHOOSE x \in uses : x.on = u).layout ELSE d.layout[u]

\* An access that a subpass leaves.
SubpassLeaves(d, uses, deps, k, r, p) ==
  \/ p \in d.past[r]
  \/ r \in Units /\ p = Transitioned({e \in deps : e.to = k}, k)
  \/ \E u \in uses : u.on = r /\ p = Accessed(u.stage, u.access, k)

Unnamed(d, uses, attached, r) ==
  \E u \in uses : u.on = r /\ r \in Units /\ u.layout # SubpassLayout(d, uses, attached, r)

\* Uses of subresources name layouts.
NameLayouts(uses) == \A u \in uses : u.on \in Units => u.layout \in LayoutNames

\* What a subpass leaves: its attachments in its layouts, its accesses, and races of
\* buffers only with accesses before.
LEMMA SubpassEffect ==
  ASSUME NEW d \in Device, NEW uses \in SUBSET UseType, NameLayouts(uses), NEW attached \in SUBSET Units,
         NEW deps, \A b \in deps : IsDependency(b), NEW k \in Int
  PROVE  LET e == Subpass(d, uses, attached, deps, k) IN
         /\ e \in Device /\ e.states = d.states
         /\ \A u \in Units : e.layout[u] = SubpassLayout(d, uses, attached, u)
         /\ \A r \in e.mislaid : r \in d.mislaid \/ Unnamed(d, uses, attached, r)
         /\ \A r \in e.races : r \in d.races \/ r \in Units \/ RacesWith(d, uses, deps, k, r)
         /\ \A r \in Resources : \A p \in e.past[r] : SubpassLeaves(d, uses, deps, k, r, p)
<1> DEFINE into == {e \in deps : e.to = k}
           changed == Changed(d, uses, attached)
           races == d.races \cup {u \in changed : Unordered(d, u, [all |-> deps, into |-> into])}
           past == [r \in Resources |-> IF r \in changed THEN {Transitioned(into, k)} ELSE d.past[r]]
           layout == [u \in Units |-> IF u \in changed THEN (CHOOSE x \in uses : x.on = u).layout
                                                       ELSE d.layout[u]]
           ready == [d EXCEPT !.races = races, !.past = past, !.layout = layout]
           e == Subpass(d, uses, attached, deps, k)
<1>1. e = UseIn(ready, uses, deps, k)
  BY DEF Subpass, Device
<1>2. changed \subseteq Units
  BY DEF Changed
<1>3. \A u \in changed : (CHOOSE x \in uses : x.on = u).layout \in LayoutNames
  <2>1. SUFFICES ASSUME NEW u \in changed PROVE (CHOOSE x \in uses : x.on = u).layout \in LayoutNames
    OBVIOUS
  <2>2. \E x \in uses : x.on = u
    BY DEF Changed
  <2>3. (CHOOSE x \in uses : x.on = u) \in uses /\ (CHOOSE x \in uses : x.on = u).on = u
    BY <2>2
  <2>4. QED
    BY <1>2, <2>3 DEF NameLayouts
<1>4. layout \in [Units -> LayoutNames]
  BY <1>3 DEF Device
<1>5. past \in [Resources -> SUBSET PastAccess]
  <2>1. \A b \in into : IsDependency(b)
    OBVIOUS
  <2>2. Transitioned(into, k) \in PastAccess
    BY <2>1, TransitionedType
  <2>3. QED
    BY <2>2 DEF Device
<1>6. races \in SUBSET Resources
  BY <1>2, BuffersAre DEF Device
<1>7. /\ \A u \in Units : layout[u] = SubpassLayout(d, uses, attached, u)
      /\ \A r \in races : r \in d.races \/ r \in Units
      /\ \A r \in Resources : r \notin Units => past[r] = d.past[r]
      /\ \A r \in Resources : \A p \in past[r] :
            p \in d.past[r] \/ (r \in Units /\ p = Transitioned({x \in deps : x.to = k}, k))
  BY <1>2 DEF SubpassLayout
<1> HIDE DEF changed, races, past, layout
<1>8. /\ ready \in Device /\ ready.past = past /\ ready.races = races /\ ready.layout = layout
      /\ ready.states = d.states /\ ready.mislaid = d.mislaid
  BY <1>4, <1>5, <1>6 DEF Device
<1> HIDE DEF ready, e
<1>9. /\ e \in Device /\ e.layout = ready.layout /\ e.states = ready.states
      /\ \A r \in Resources : \A p \in e.past[r] : KeptOrMade(ready, uses, k, r, p)
      /\ \A r \in e.races : r \in ready.races \/ RacesWith(ready, uses, deps, k, r)
      /\ \A r \in e.mislaid : r \in ready.mislaid \/ Misnamed(ready, uses, r)
  BY <1>1, <1>8, UseInEffect
<1>10. \A r \in Resources : \A p \in e.past[r] : SubpassLeaves(d, uses, deps, k, r, p)
  BY <1>7, <1>8, <1>9 DEF KeptOrMade, SubpassLeaves
<1>11. \A r \in e.mislaid : r \in d.mislaid \/ Unnamed(d, uses, attached, r)
  BY <1>7, <1>8, <1>9 DEF Misnamed, Unnamed
<1>12. \A r \in e.races : r \in d.races \/ r \in Units \/ RacesWith(d, uses, deps, k, r)
  <2>1. SUFFICES ASSUME NEW r \in e.races, r \notin Units, RacesWith(ready, uses, deps, k, r)
                 PROVE  RacesWith(d, uses, deps, k, r)
    BY <1>7, <1>8, <1>9
  <2>2. r \in Resources
    BY <1>9 DEF Device
  <2>3. ready.past[r] = d.past[r]
    BY <1>7, <1>8, <2>1, <2>2
  <2>4. QED
    BY <2>1, <2>3 DEF RacesWith
<1>13. QED
  BY <1>7, <1>8, <1>9, <1>10, <1>11, <1>12 DEF e

-----------------------------------------------------------------------------
(* Render passes on the device                                             *)

AttachmentType == [on : Units, initial : LayoutNames, final : LayoutNames]

Attached(attachments) == {a.on : a \in ToSet(attachments)}

\* RunRenderPass, from its beginning to its end.
AllDependencies(d, attachments, declared, uses) ==
  declared \cup Implicit(d, attachments, uses, declared)

Begun(d, attachments) ==
  [d EXCEPT !.mislaid = @ \cup {a.on : a \in {a \in ToSet(attachments) : a.initial # d.layout[a.on]}}]

Finals(done, attachments) ==
  [a \in {a.on : a \in {a \in ToSet(attachments) : a.final # done.layout[a.on]}} |->
     (CHOOSE x \in ToSet(attachments) : x.on = a).final]

Ended(done, attachments, deps, end) ==
  LET out   == {e \in deps : e.to = end}
      final == Finals(done, attachments)
  IN [done EXCEPT
       !.races = @ \cup {u \in DOMAIN final : Unordered(done, u, [all |-> deps, into |-> out])},
       !.past = [r \in Resources |->
                  IF r \in DOMAIN final THEN {Transitioned(out, External)}
                  ELSE {[Seen(p, deps, end) EXCEPT !.at = External] : p \in @[r]}],
       !.layout = [u \in Units |-> IF u \in DOMAIN final THEN final[u] ELSE @[u]]]

Ran(run, d, attachments, deps, uses) ==
  /\ run[0] = Begun(d, attachments)
  /\ \A k \in 1 .. Len(uses) :
        run[k] = Subpass(run[k - 1], uses[k], Attached(attachments), deps, k - 1)

\* A render pass begins, runs its subpasses and ends.
LEMMA RunRenderPassIs ==
  ASSUME NEW d, NEW attachments, NEW declared, NEW uses, Len(uses) \in Nat
  PROVE  LET deps == AllDependencies(d, attachments, declared, uses) IN
         \E run : /\ Ran(run, d, attachments, deps, uses)
                  /\ RunRenderPass(d, attachments, declared, uses)
                       = Ended(run[Len(uses)], attachments, deps, Len(uses))
<1> DEFINE end == Len(uses)
           deps == AllDependencies(d, attachments, declared, uses)
           attached == Attached(attachments)
           begun == Begun(d, attachments)
           ctx == [uses |-> uses, attached |-> attached, deps |-> deps]
           seq == [k \in 1 .. end |-> k]
           IsRun(run) == run = [k \in 0 .. end |->
                           IF k = 0 THEN begun ELSE Subpass(run[k - 1], uses[k], attached, deps, k - 1)]
<1>1. seq \in Seq(Nat) /\ Len(seq) = end
  OBVIOUS
<1>2. PICK p : SubpassFold!Through(ctx, p, begun, seq)
  BY <1>1, SubpassFold!FoldThrough
<1>3. p[0] = begun /\ \A k \in 1 .. end : p[k] = Subpass(p[k - 1], uses[k], attached, deps, k - 1)
  <2> HIDE DEF end, deps, attached, begun
  <2>1. QED
    BY <1>1, <1>2 DEF SubpassFold!Through, SubpassStep
<1> DEFINE q == [k \in 0 .. end |-> p[k]]
<1>4. q = [k \in 0 .. end |->
             IF k = 0 THEN begun ELSE Subpass(q[k - 1], uses[k], attached, deps, k - 1)]
  <2> HIDE DEF end, deps, attached, begun
  <2>1. \A k \in 0 .. end :
           q[k] = IF k = 0 THEN begun ELSE Subpass(q[k - 1], uses[k], attached, deps, k - 1)
    <3>1. SUFFICES ASSUME NEW k \in 0 .. end, k # 0 PROVE q[k] = Subpass(q[k - 1], uses[k], attached, deps, k - 1)
      BY <1>3
    <3>2. k \in 1 .. end /\ k - 1 \in 0 .. end
      BY <3>1 DEF end
    <3>3. QED
      BY <1>3, <3>2
  <2>2. QED
    BY <2>1
<1> HIDE DEF q
<1> DEFINE run == CHOOSE run : IsRun(run)
<1>5. \E r : IsRun(r)
  BY <1>4
<1>6. IsRun(run)
  <2> HIDE DEF IsRun
  <2>1. QED
    BY <1>5
<1>7. RunRenderPass(d, attachments, declared, uses) = Ended(run[end], attachments, deps, end)
  BY DEF RunRenderPass, Ended, Finals, AllDependencies, Attached, Begun
<1> HIDE DEF run, begun, deps, attached
<1>8. run[0] = begun /\ \A k \in 1 .. end : run[k] = Subpass(run[k - 1], uses[k], attached, deps, k - 1)
  BY <1>6
<1>9. Ran(run, d, attachments, deps, uses)
  BY <1>8 DEF Ran, begun, attached, end
<1>10. QED
  BY <1>7, <1>9 DEF deps, end

\* What a pass is given: its attachments are in their initial layouts, all
\* else it uses in the layouts it names, and a subpass uses each attachment in
\* one layout; B are the buffers it may write.
PassAttachments(d, attachments) ==
  /\ ToSet(attachments) \subseteq AttachmentType
  /\ \A a \in ToSet(attachments) : a.initial = d.layout[a.on]
  /\ \A a, b \in ToSet(attachments) : a.on = b.on => a.final = b.final

SubpassIsGiven(d, attached, uses, B) ==
  /\ uses \in SUBSET UseType /\ NameLayouts(uses) /\ BufferUses(uses, DrawWrites, B)
  /\ \A x \in uses : x.on \in Units \ attached => x.layout = d.layout[x.on]
  /\ \A x, y \in uses : x.on = y.on /\ x.on \in attached => x.layout = y.layout

PassIsGiven(d, attached, uses, B) ==
  /\ Len(uses) \in Nat
  /\ \A k \in 1 .. Len(uses) : SubpassIsGiven(d, attached, uses[k], B)

\* No buffer that a subpass writes is used by another one.
SubpassesApart(uses) ==
  \A j, k \in 1 .. Len(uses) : j # k =>
     \A x \in uses[j], y \in uses[k] :
        x.on = y.on /\ x.on \in Buffers => ~IsWrite(x.access) /\ ~IsWrite(y.access)

\* An access to a buffer that is left after k subpasses.
FromPass(d, uses, k, b, p) ==
  \/ p \in d.past[b]
  \/ \E j \in 1 .. k : \E u \in uses[j] : u.on = b /\ p = Accessed(u.stage, u.access, j - 1)

\* The device after k subpasses.
InPass(e, d, attached, uses, k) ==
  /\ e \in Device /\ e.states = d.states /\ e.mislaid = {}
  /\ \A u \in Units \ attached : e.layout[u] = d.layout[u]
  /\ \A r \in Resources : \A p \in e.past[r] : p.at < k /\ External <= p.at
  /\ \A b \in Buffers : \A p \in e.past[b] : FromPass(d, uses, k, b, p)

\* At its beginning attachments are in the layouts they are said to be in.
LEMMA PassBegins ==
  ASSUME NEW d, Fine(d), NEW attachments, PassAttachments(d, attachments), NEW attached, NEW uses
  PROVE  InPass(Begun(d, attachments), d, attached, uses, 0) /\ NoNewRace(Begun(d, attachments), d)
<1> DEFINE e == Begun(d, attachments)
<1>1. {a.on : a \in {a \in ToSet(attachments) : a.initial # d.layout[a.on]}} = {}
  BY DEF PassAttachments
<1>2. d \in Device /\ d.mislaid = {} /\ Outside(d)
  BY DEF Fine, Told
<1>3. e = [d EXCEPT !.mislaid = {}]
  BY <1>1, <1>2 DEF Begun, Device
<1>4. /\ e \in Device /\ e.states = d.states /\ e.layout = d.layout /\ e.past = d.past /\ e.races = d.races
      /\ e.mislaid = {}
  BY <1>2, <1>3 DEF Device
<1>5. \A r \in Resources : \A p \in d.past[r] : p.at < 0 /\ External <= p.at
  BY <1>2 DEF Outside, External
<1> HIDE DEF e
<1>6. QED
  BY <1>4, <1>5 DEF InPass, FromPass, NoNewRace, e

\* A subpass brings its attachments into the layouts it names.
SameBeside(e, d, attached) == \A u \in Units \ attached : e.layout[u] = d.layout[u]

\* A subpass names the layouts that it finds or makes.
LEMMA SubpassNamed ==
  ASSUME NEW d, NEW e, NEW attached \in SUBSET Units, NEW uses, NEW B,
         SubpassIsGiven(d, attached, uses, B), SameBeside(e, d, attached)
  PROVE  /\ \A r : ~Unnamed(e, uses, attached, r)
         /\ \A u \in Units \ attached : SubpassLayout(e, uses, attached, u) = d.layout[u]
<1>1. \A u : u \in Changed(e, uses, attached) <=>
               \E x \in uses : x.on = u /\ u \in attached /\ x.layout # e.layout[u]
  BY DEF Changed
<1>2. SUFFICES ASSUME NEW x \in uses, x.on \in Units
               PROVE  x.layout = SubpassLayout(e, uses, attached, x.on)
  BY <1>1 DEF Unnamed, SubpassLayout, SameBeside
<1>3. CASE x.on \notin attached
  BY <1>1, <1>2, <1>3 DEF SubpassIsGiven, SubpassLayout, SameBeside
<1>4. CASE x.on \in attached /\ x.on \notin Changed(e, uses, attached)
  BY <1>1, <1>2, <1>4 DEF SubpassLayout
<1>5. CASE x.on \in Changed(e, uses, attached)
  <2> DEFINE y == CHOOSE y \in uses : y.on = x.on
  <2>1. y \in uses /\ y.on = x.on
    OBVIOUS
  <2>2. SubpassLayout(e, uses, attached, x.on) = y.layout
    BY <1>5 DEF SubpassLayout
  <2> HIDE DEF y
  <2>3. x.on \in attached
    BY <1>1, <1>5
  <2>4. QED
    BY <2>1, <2>2, <2>3 DEF SubpassIsGiven
<1>6. QED
  BY <1>3, <1>4, <1>5

\* A subpass leaves to settle what it writes, and races with no buffer access of others.
LEMMA PassGoesOn ==
  ASSUME NEW d, Fine(d), NEW attached \in SUBSET Units, NEW uses, NEW B, PassIsGiven(d, attached, uses, B),
         NEW k \in 1 .. Len(uses), NEW deps, \A b \in deps : IsDependency(b),
         NEW e, InPass(e, d, attached, uses, k - 1)
  PROVE  LET f == Subpass(e, uses[k], attached, deps, k - 1) IN
         /\ InPass(f, d, attached, uses, k)
         /\ (B # {} => Prepared(d)) /\ SubpassesApart(uses) => NoNewRace(f, e)
<1> DEFINE f == Subpass(e, uses[k], attached, deps, k - 1)
           us == uses[k]
<1>1. SubpassIsGiven(d, attached, us, B)
  BY DEF PassIsGiven
<1>2. us \in SUBSET UseType /\ NameLayouts(us) /\ BufferUses(us, DrawWrites, B)
  BY <1>1 DEF SubpassIsGiven
<1>3. k - 1 \in Int /\ Len(uses) \in Nat /\ k \in Int
  BY DEF PassIsGiven
<1>4. e \in Device
  BY DEF InPass
<1> HIDE DEF us
<1>5. /\ f \in Device /\ f.states = e.states
      /\ \A u \in Units : f.layout[u] = SubpassLayout(e, us, attached, u)
      /\ \A r \in f.mislaid : r \in e.mislaid \/ Unnamed(e, us, attached, r)
      /\ \A r \in f.races : r \in e.races \/ r \in Units \/ RacesWith(e, us, deps, k - 1, r)
      /\ \A r \in Resources : \A p \in f.past[r] : SubpassLeaves(e, us, deps, k - 1, r, p)
  BY <1>2, <1>3, <1>4, SubpassEffect DEF us
<1> HIDE DEF f
<1>6. /\ \A r : ~Unnamed(e, us, attached, r)
      /\ \A u \in Units \ attached : SubpassLayout(e, us, attached, u) = d.layout[u]
  <2>1. SameBeside(e, d, attached)
    BY DEF InPass, SameBeside
  <2>2. QED
    BY <1>1, <2>1, SubpassNamed
<1>7. ASSUME NEW r \in Resources, NEW p \in f.past[r] PROVE p.at < k /\ External <= p.at
  <2>1. SubpassLeaves(e, us, deps, k - 1, r, p)
    BY <1>5
  <2>2. CASE p \in e.past[r]
    <3>1. p.at \in Int
      BY <1>4, <2>2 DEF Device, PastAccess
    <3>2. p.at < k - 1 /\ External <= p.at
      BY <2>2 DEF InPass
    <3>3. QED
      BY <1>3, <3>1, <3>2 DEF External
  <2>3. CASE p.at = k - 1
    BY <1>3, <2>3 DEF External
  <2>4. QED
    BY <2>1, <2>2, <2>3 DEF SubpassLeaves, Transitioned, Accessed
<1>8. ASSUME NEW b \in Buffers, NEW p \in f.past[b] PROVE FromPass(d, uses, k, b, p)
  <2>1. SubpassLeaves(e, us, deps, k - 1, b, p)
    BY <1>5, BuffersAre
  <2>2. CASE p \in e.past[b]
    <3>1. FromPass(d, uses, k - 1, b, p)
      BY <2>2 DEF InPass
    <3>2. 1 .. (k - 1) \subseteq 1 .. k
      BY <1>3
    <3>3. QED
      BY <3>1, <3>2 DEF FromPass
  <2>3. CASE \E u \in us : u.on = b /\ p = Accessed(u.stage, u.access, k - 1)
    <3>1. k \in 1 .. k
      BY <1>3
    <3>2. QED
      BY <2>3, <3>1 DEF FromPass, us
  <2>4. QED
    BY <2>1, <2>2, <2>3, BuffersAre DEF SubpassLeaves
<1>9. InPass(f, d, attached, uses, k)
  BY <1>5, <1>6, <1>7, <1>8 DEF InPass
<1>10. ASSUME B # {} => Prepared(d), SubpassesApart(uses) PROVE NoNewRace(f, e)
  <2>1. SUFFICES ASSUME NEW b \in Buffers, NEW u \in us, u.on = b, NEW p \in e.past[b],
                        Races(Seen(p, deps, k - 1), u.stage, u.access)
                 PROVE FALSE
    BY <1>5, BuffersAre DEF NoNewRace, RacesWith
  <2>2. p \in PastAccess /\ FromPass(d, uses, k - 1, b, p) /\ p.at < k - 1
    BY <1>4, BuffersAre DEF Device, InPass
  <2>3. /\ Seen(p, deps, k - 1).access = p.access
        /\ p.at = External => Extends(Seen(p, deps, k - 1), p)
    <3>1. p.at \in Int /\ p.at <= k - 1
      BY <1>3, <2>2 DEF PastAccess
    <3>2. QED
      BY <1>3, <2>2, <3>1, SeenExtends
  <2>4. CASE p \in d.past[b]
    <3>1. p.at = External
      BY <2>4, BuffersAre DEF Fine, Outside
    <3>2. <<u.stage, u.access>> \in BufferScope /\ (IsWrite(u.access) => Prepared(d))
      BY <1>2, <1>10, <2>1 DEF BufferUses
    <3>3. ~Races(p, u.stage, u.access)
      BY <2>4, <3>2, WritersAre, SettledRaces DEF Fine
    <3>4. QED
      BY <2>1, <2>3, <3>1, <3>3, ExtendsRaces
  <2>5. ASSUME NEW j \in 1 .. k - 1, NEW x \in uses[j], x.on = b, p = Accessed(x.stage, x.access, j - 1)
        PROVE FALSE
    <3>1. j \in 1 .. Len(uses) /\ j # k
      BY <1>3
    <3>2. ~IsWrite(x.access) /\ ~IsWrite(u.access)
      BY <1>10, <2>1, <2>5, <3>1 DEF SubpassesApart, us
    <3>3. p.access = x.access
      BY <2>5 DEF Accessed
    <3>4. QED
      BY <2>1, <2>3, <3>2, <3>3 DEF Races
  <2>6. QED
    BY <2>2, <2>4, <2>5 DEF FromPass
<1>11. QED
  BY <1>9, <1>10 DEF f, us

\* The layout of u after a pass.
EndLayout(done, attachments, u) ==
  IF u \in DOMAIN Finals(done, attachments) THEN Finals(done, attachments)[u] ELSE done.layout[u]

\* A pass leaves each attachment in its final layout and other images where they were.
LEMMA FinalsAre ==
  ASSUME NEW done \in Device, NEW d, NEW attachments, PassAttachments(d, attachments)
  PROVE  /\ DOMAIN Finals(done, attachments) \subseteq Attached(attachments)
         /\ Attached(attachments) \subseteq Units
         /\ \A u \in Units : EndLayout(done, attachments, u) \in LayoutNames
         /\ \A a \in ToSet(attachments) : EndLayout(done, attachments, a.on) = a.final
         /\ \A u \in Units \ Attached(attachments) : EndLayout(done, attachments, u) = done.layout[u]
<1> DEFINE all == ToSet(attachments)
           out == {a.on : a \in {a \in all : a.final # done.layout[a.on]}}
           of(u) == CHOOSE x \in all : x.on = u
<1>1. DOMAIN Finals(done, attachments) = out /\ \A u \in out : Finals(done, attachments)[u] = of(u).final
  BY DEF Finals
<1>2. \A a \in all : of(a.on) \in all /\ of(a.on).on = a.on
  OBVIOUS
<1> HIDE DEF of
<1>3. \A a \in all : of(a.on).final = a.final /\ a.final \in LayoutNames /\ a.on \in Units
  BY <1>2 DEF PassAttachments, AttachmentType
<1>4. \A u : u \in out <=> \E a \in all : u = a.on /\ a.final # done.layout[a.on]
  OBVIOUS
<1>5. \A u : u \in Attached(attachments) <=> \E a \in all : u = a.on
  BY DEF Attached
<1> HIDE DEF all, out
<1>6. \A a \in all : EndLayout(done, attachments, a.on) = a.final
  BY <1>1, <1>3, <1>4 DEF EndLayout
<1>7. \A u \in Units \ Attached(attachments) : EndLayout(done, attachments, u) = done.layout[u]
  BY <1>1, <1>4, <1>5 DEF EndLayout
<1>8. \A u \in Units : EndLayout(done, attachments, u) \in LayoutNames
  BY <1>3, <1>5, <1>6, <1>7 DEF Device
<1>9. QED
  BY <1>1, <1>3, <1>4, <1>5, <1>6, <1>7, <1>8 DEF all

\* An access to a buffer after the pass.
SeenAtEnd(done, deps, end, b, q) == \E p \in done.past[b] : q = [Seen(p, deps, end) EXCEPT !.at = External]

EndLayouts(e, done, attachments) == \A u \in Units : e.layout[u] = EndLayout(done, attachments, u)
EndPast(e, done, deps, end) ==
  \A b \in Buffers : \A q \in e.past[b] : SeenAtEnd(done, deps, end, b, q)

MadeBefore(done, end) == \A r \in Resources : \A p \in done.past[r] : p.at < end

\* At its end accesses are outside, and no buffer races.
LEMMA EndedEffect ==
  ASSUME NEW done \in Device, NEW d, NEW attachments, PassAttachments(d, attachments),
         NEW deps, \A b \in deps : IsDependency(b), NEW end \in Nat, MadeBefore(done, end)
  PROVE  LET e == Ended(done, attachments, deps, end) IN
         /\ e \in Device /\ Outside(e) /\ e.states = done.states /\ e.mislaid = done.mislaid
         /\ EndLayouts(e, done, attachments) /\ NoNewRace(e, done) /\ EndPast(e, done, deps, end)
<1> DEFINE out == {x \in deps : x.to = end}
           final == Finals(done, attachments)
           ids == DOMAIN final
           races == done.races \cup {u \in ids : Unordered(done, u, [all |-> deps, into |-> out])}
           past == [r \in Resources |->
                      IF r \in ids THEN {Transitioned(out, External)}
                      ELSE {[Seen(p, deps, end) EXCEPT !.at = External] : p \in done.past[r]}]
           layout == [u \in Units |-> IF u \in ids THEN final[u] ELSE done.layout[u]]
           e == Ended(done, attachments, deps, end)
<1>1. e = [done EXCEPT !.races = races, !.past = past, !.layout = layout]
  BY DEF Ended, Device
<1>2. ids \subseteq Units
  BY FinalsAre
<1>3. \A u \in Units : layout[u] = EndLayout(done, attachments, u)
  BY DEF EndLayout
<1>4. layout \in [Units -> LayoutNames]
  <2>1. \A u \in Units : EndLayout(done, attachments, u) \in LayoutNames
    BY FinalsAre
  <2>2. layout = [u \in Units |-> layout[u]]
    OBVIOUS
  <2> HIDE DEF layout
  <2>3. QED
    BY <1>3, <2>1, <2>2
<1>5. External \in Int
  BY DEF External
<1>6. \A r \in Resources : past[r] \in SUBSET PastAccess /\ \A q \in past[r] : q.at = External
  <2>1. SUFFICES ASSUME NEW r \in Resources, NEW q \in past[r] PROVE q \in PastAccess /\ q.at = External
    OBVIOUS
  <2>2. CASE q = Transitioned(out, External)
    BY <1>5, <2>2, TransitionedType
  <2>3. ASSUME NEW p \in done.past[r], q = [Seen(p, deps, end) EXCEPT !.at = External]
        PROVE  q \in PastAccess /\ q.at = External
    <3>1. p \in PastAccess /\ p.at < end
      BY DEF Device, MadeBefore
    <3>2. Seen(p, deps, end) \in PastAccess
      <4>1. p.at <= end
        BY <3>1 DEF PastAccess
      <4>2. QED
        BY <3>1, <4>1, SeenExtends
    <3>3. QED
      BY <1>5, <2>3, <3>2 DEF PastAccess
  <2>4. QED
    BY <2>1, <2>2, <2>3
<1>7. \A b \in Buffers : \A q \in past[b] : SeenAtEnd(done, deps, end, b, q)
  BY <1>2, BuffersAre DEF SeenAtEnd
<1>8. races \in SUBSET Resources /\ \A b \in Buffers : b \in races => b \in done.races
  BY <1>2, BuffersAre DEF Device
<1>9. past = [r \in Resources |-> past[r]]
  OBVIOUS
<1> HIDE DEF past, layout, races, e
<1>10. past \in [Resources -> SUBSET PastAccess]
  BY <1>6, <1>9
<1>11. /\ e \in Device /\ e.states = done.states /\ e.mislaid = done.mislaid
       /\ e.past = past /\ e.races = races /\ e.layout = layout
  BY <1>1, <1>4, <1>8, <1>10 DEF Device
<1>12. QED
  BY <1>3, <1>6, <1>7, <1>8, <1>11 DEF Outside, NoNewRace, EndLayouts, EndPast, e

\* The device's own dependencies are of stages.
LEMMA ImplicitDependencies ==
  ASSUME NEW d, NEW attachments, NEW declared, \A b \in declared : IsDependency(b), NEW uses
  PROVE  \A b \in AllDependencies(d, attachments, declared, uses) : IsDependency(b)
<1>1. \A k, a : IsDependency(SubpassDependency(External, k, {"top"}, {}, AllCommands, a))
  BY StageNames DEF IsDependency, SubpassDependency
<1>2. \A b \in Implicit(d, attachments, uses, declared) : IsDependency(b)
  BY <1>1 DEF Implicit
<1>3. QED
  BY <1>2 DEF AllDependencies

FinalsReached(e, attachments) == \A a \in ToSet(attachments) : e.layout[a.on] = a.final

\* What a render pass does.
LEMMA PassKeeps ==
  ASSUME NEW d, Fine(d), NEW attachments, PassAttachments(d, attachments), NEW uses, NEW B,
         PassIsGiven(d, Attached(attachments), uses, B), NEW declared, \A b \in declared : IsDependency(b)
  PROVE  LET e == RunRenderPass(d, attachments, declared, uses) IN
         /\ e \in Device /\ Outside(e) /\ e.states = d.states /\ e.mislaid = {}
         /\ BuffersNear(e, DrawWrites, B)
         /\ FinalsReached(e, attachments) /\ SameBeside(e, d, Attached(attachments))
         /\ (B # {} => Prepared(d)) /\ SubpassesApart(uses) => NoNewRace(e, d)
<1> DEFINE end == Len(uses)
           attached == Attached(attachments)
           deps == AllDependencies(d, attachments, declared, uses)
           e == RunRenderPass(d, attachments, declared, uses)
           Apart == (B # {} => Prepared(d)) /\ SubpassesApart(uses)
<1>1. end \in Nat
  BY DEF PassIsGiven
<1>2. PICK run : Ran(run, d, attachments, deps, uses) /\ e = Ended(run[end], attachments, deps, end)
  BY <1>1, RunRenderPassIs
<1>3. \A b \in deps : IsDependency(b)
  BY ImplicitDependencies
<1>4. attached \in SUBSET Units
  BY FinalsAre, EmptyType
<1> HIDE DEF e, deps
<1> DEFINE A == {k \in 0 .. end : InPass(run[k], d, attached, uses, k) /\ (Apart => NoNewRace(run[k], d))}
<1>5. 0 \in A
  BY <1>1, <1>2, PassBegins DEF Ran
<1>6. ASSUME NEW k \in 1 .. end, k - 1 \in A PROVE k \in A
  <2>1. run[k] = Subpass(run[k - 1], uses[k], attached, deps, k - 1)
    BY <1>2 DEF Ran
  <2>2. InPass(run[k - 1], d, attached, uses, k - 1) /\ (Apart => NoNewRace(run[k - 1], d))
    BY <1>6
  <2>3. InPass(run[k], d, attached, uses, k) /\ (Apart => NoNewRace(run[k], run[k - 1]))
    BY <1>3, <1>4, <2>1, <2>2, PassGoesOn
  <2>4. k \in 0 .. end
    BY <1>1
  <2>5. QED
    BY <2>2, <2>3, <2>4 DEF NoNewRace
<1> DEFINE done == run[end]
<1>7. InPass(done, d, attached, uses, end) /\ (Apart => NoNewRace(done, d))
  <2> HIDE DEF A, Apart, end
  <2>1. end \in A
    BY <1>1, <1>5, <1>6, ViewFold!Counting
  <2>2. QED
    BY <2>1 DEF A
<1> HIDE DEF done, A
<1>8. /\ done \in Device /\ MadeBefore(done, end)
      /\ done.states = d.states /\ done.mislaid = {}
  BY <1>7 DEF InPass, MadeBefore
<1>9. /\ e \in Device /\ Outside(e) /\ e.states = done.states /\ e.mislaid = done.mislaid
      /\ EndLayouts(e, done, attachments) /\ NoNewRace(e, done) /\ EndPast(e, done, deps, end)
  <2> HIDE DEF end
  <2>1. e = Ended(done, attachments, deps, end)
    BY <1>2 DEF done
  <2>2. QED
    BY <1>1, <1>3, <1>8, <2>1, EndedEffect
<1>10. FinalsReached(e, attachments) /\ SameBeside(e, d, attached)
  <2>1. /\ \A a \in ToSet(attachments) : a.on \in Units /\ EndLayout(done, attachments, a.on) = a.final
        /\ \A u \in Units \ attached : EndLayout(done, attachments, u) = done.layout[u]
    BY <1>8, FinalsAre DEF PassAttachments, AttachmentType
  <2>2. QED
    BY <1>7, <1>9, <2>1 DEF InPass, EndLayouts, FinalsReached, SameBeside
<1>11. BuffersNear(e, DrawWrites, B)
  <2>1. SUFFICES ASSUME NEW b \in Buffers, NEW q \in e.past[b]
                 PROVE  /\ <<q.stage, q.access>> \in BufferScope
                        /\ IsWrite(q.access) => \/ BufferScope \subseteq q.visible
                                                \/ b \in B /\ <<q.stage, q.access>> \in DrawWrites
    BY DEF BuffersNear
  <2>2. PICK p \in done.past[b] : q = [Seen(p, deps, end) EXCEPT !.at = External]
    BY <1>9 DEF SeenAtEnd, EndPast
  <2>3. p \in PastAccess /\ p.at <= end /\ FromPass(d, uses, end, b, p)
    <3>1. p \in PastAccess /\ p.at < end
      BY <1>8, BuffersAre DEF Device, MadeBefore
    <3>2. QED
      BY <1>1, <1>7, <3>1 DEF InPass, PastAccess
  <2>4. /\ Seen(p, deps, end) \in PastAccess
        /\ Seen(p, deps, end).stage = p.stage /\ Seen(p, deps, end).access = p.access
        /\ p.at = External => Extends(Seen(p, deps, end), p)
    BY <1>1, <1>3, <2>3, SeenExtends
  <2>5. q.stage = p.stage /\ q.access = p.access /\ q.visible = Seen(p, deps, end).visible
    BY <2>2, <2>4 DEF PastAccess
  <2>6. CASE p \in d.past[b]
    <3>1. p.at = External
      BY <2>6, BuffersAre DEF Fine, Outside
    <3>2. <<p.stage, p.access>> \in BufferScope /\ (IsWrite(p.access) => BufferScope \subseteq p.visible)
      BY <2>6 DEF Fine, Settled, BuffersNear
    <3>3. QED
      BY <2>4, <2>5, <3>1, <3>2 DEF Extends
  <2>7. ASSUME NEW j \in 1 .. end, NEW u \in uses[j], u.on = b, p = Accessed(u.stage, u.access, j - 1)
        PROVE  /\ <<q.stage, q.access>> \in BufferScope
               /\ IsWrite(q.access) => b \in B /\ <<q.stage, q.access>> \in DrawWrites
    <3>1. BufferUses(uses[j], DrawWrites, B)
      BY DEF PassIsGiven, SubpassIsGiven
    <3>2. q.stage = u.stage /\ q.access = u.access
      BY <2>5, <2>7 DEF Accessed
    <3>3. QED
      BY <2>7, <3>1, <3>2 DEF BufferUses
  <2>8. QED
    BY <2>3, <2>6, <2>7 DEF FromPass
<1>12. Apart => NoNewRace(e, d)
  BY <1>7, <1>9 DEF NoNewRace
<1>13. QED
  BY <1>8, <1>9, <1>10, <1>11, <1>12 DEF e

-----------------------------------------------------------------------------
(* Around a render pass                                                    *)

\* Attachments of one subresource are alike.
Alike(attachments) ==
  \A a, b \in ToSet(attachments) : a.on = b.on => a.initial = b.initial /\ a.final = b.final

AttachmentsIn(e, attachments) == \A a \in ToSet(attachments) : e.layout[a.on] = a.initial

\* Attachments are brought into their initial layouts.
LEMMA AttachmentsKeep ==
  ASSUME NEW d, Fine(d), NEW attachments \in Seq(AttachmentType), Alike(attachments)
  PROVE  LET e == TransitionAttachments(d, attachments) IN
         /\ Keeps(e, d) /\ (Prepared(d) => Prepared(e)) /\ AttachmentsIn(e, attachments)
<1> DEFINE n == Len(attachments)
           e == TransitionAttachments(d, attachments)
           all == ToSet(attachments)
           U == [k \in 1 .. n |-> {attachments[k].on}]
           L == [k \in 1 .. n |-> attachments[k].initial]
           want == [u \in Units |-> (CHOOSE a \in all : a.on = u).initial]
<1>1. /\ n \in Nat /\ all = {attachments[k] : k \in 1 .. n}
      /\ \A k \in 1 .. n : attachments[k] \in AttachmentType
  BY DEF ToSet
<1>2. e = AttachmentFold!Fold(0, d, attachments)
  BY DEF TransitionAttachments, FoldLeft, MapThenFoldSet, Max, AttachmentFold!Fold,
     AttachmentFold!Iteration, AttachmentFold!Top, AttachmentStep
<1>3. PICK p : AttachmentFold!Through(0, p, d, attachments) /\ e = p[n]
  BY <1>2, AttachmentFold!FoldThrough
<1> HIDE DEF e
<1>4. p[0] = d /\ \A k \in 1 .. n : p[k] = AttachmentStep(0, p[k - 1], attachments[k])
  BY <1>3 DEF AttachmentFold!Through
<1> HIDE DEF n, all
<1>5. Moves(p, n, U, L)
  <2>1. SUFFICES ASSUME NEW k \in 1 .. n
                 PROVE  /\ p[k] = TransitionImageRange(p[k - 1], U[k], L[k])
                        /\ U[k] \in SUBSET Units /\ L[k] \in LayoutNames
    BY DEF Moves
  <2>2. attachments[k].on \in Units /\ attachments[k].initial \in LayoutNames
    BY <1>1 DEF AttachmentType
  <2>3. p[k] = TransitionImageRange(p[k - 1], {attachments[k].on}, attachments[k].initial)
    BY <1>4 DEF AttachmentStep
  <2>4. U[k] = {attachments[k].on} /\ L[k] = attachments[k].initial
    OBVIOUS
  <2>5. QED
    BY <2>2, <2>3, <2>4
<1>6. \A k \in 1 .. n : want[attachments[k].on] = attachments[k].initial
  <2>1. SUFFICES ASSUME NEW k \in 1 .. n PROVE want[attachments[k].on] = attachments[k].initial
    OBVIOUS
  <2> DEFINE x == CHOOSE a \in all : a.on = attachments[k].on
  <2>2. attachments[k] \in all /\ attachments[k].on \in Units
    BY <1>1 DEF AttachmentType
  <2>3. x \in all /\ x.on = attachments[k].on
    BY <2>2
  <2>4. want[attachments[k].on] = x.initial
    BY <2>2
  <2> HIDE DEF x
  <2>5. QED
    BY <2>2, <2>3, <2>4 DEF Alike, all
<1>7. /\ \A k \in 1 .. n : attachments[k].on \in U[k]
      /\ \A k \in 1 .. n : \A u \in U[k] : u = attachments[k].on /\ L[k] = attachments[k].initial
  OBVIOUS
<1> HIDE DEF U, L, want
<1>8. Wanted(n, U, L, want)
  BY <1>6, <1>7 DEF Wanted
<1>9. /\ Keeps(e, d) /\ (Prepared(d) => Prepared(e))
      /\ MovedIn(e, n, U, want) /\ UnmovedIn(e, d, n, U)
  BY <1>1, <1>3, <1>4, <1>5, <1>8, MovesKeep
<1>10. \A k \in 1 .. n : e.layout[attachments[k].on] = attachments[k].initial
  <2>1. SUFFICES ASSUME NEW k \in 1 .. n PROVE e.layout[attachments[k].on] = attachments[k].initial
    OBVIOUS
  <2>2. k \in 1 .. n /\ attachments[k].on \in U[k]
    BY <1>7
  <2>3. e.layout[attachments[k].on] = want[attachments[k].on]
    BY <1>9, <2>2 DEF MovedIn
  <2>4. QED
    BY <1>6, <2>3
<1>11. AttachmentsIn(e, attachments)
  BY <1>1, <1>10 DEF AttachmentsIn, all
<1>12. QED
  BY <1>9, <1>11 DEF e

\* LayoutOverlay has the final layouts.
StatesAre(f, e, colors) ==
  /\ \A a \in ToSet(colors) : f.states[a.on] = a.final
  /\ \A u \in Units : (\A a \in ToSet(colors) : a.on # u) => f.states[u] = e.states[u]

\* LayoutOverlay::set changes what the layouts are said to be, of these attachments only.
LEMMA SetLayoutsEffect ==
  ASSUME NEW e \in Device, NEW colors \in Seq(AttachmentType), Alike(colors)
  PROVE  LET f == SetLayouts(e, colors) IN
         /\ f \in Device /\ f.past = e.past /\ f.layout = e.layout /\ f.races = e.races
         /\ f.mislaid = e.mislaid /\ StatesAre(f, e, colors)
<1> DEFINE n == Len(colors)
           f == SetLayouts(e, colors)
           Same(g) == /\ g \in Device /\ g.past = e.past /\ g.layout = e.layout /\ g.races = e.races
                      /\ g.mislaid = e.mislaid
           Set(g, k) == /\ \A i \in 1 .. k : g.states[colors[i].on] = colors[i].final
                        /\ \A u \in Units : (\A i \in 1 .. k : colors[i].on # u) => g.states[u] = e.states[u]
<1>1. /\ n \in Nat /\ ToSet(colors) = {colors[k] : k \in 1 .. n}
      /\ \A k \in 1 .. n : colors[k].on \in Units /\ colors[k].final \in LayoutNames
  <2>1. \A k \in 1 .. n : colors[k] \in AttachmentType
    OBVIOUS
  <2>2. QED
    BY <2>1 DEF ToSet, AttachmentType
<1>2. f = StateFold!Fold(0, e, colors)
  BY DEF SetLayouts, FoldLeft, MapThenFoldSet, Max, StateFold!Fold, StateFold!Iteration, StateFold!Top,
     StateStep
<1>3. PICK p : StateFold!Through(0, p, e, colors) /\ f = p[n]
  BY <1>2, StateFold!FoldThrough
<1> HIDE DEF f
<1>4. p[0] = e /\ \A k \in 1 .. n : p[k] = [p[k - 1] EXCEPT !.states[colors[k].on] = colors[k].final]
  BY <1>3 DEF StateFold!Through, StateStep
<1>5. \A i, j \in 1 .. n : colors[i].on = colors[j].on => colors[i].final = colors[j].final
  BY <1>1 DEF Alike
<1> HIDE DEF n
<1> DEFINE A == {k \in 0 .. n : Same(p[k]) /\ Set(p[k], k)}
<1>6. 0 \in A
  BY <1>1, <1>4
<1>7. ASSUME NEW k \in 1 .. n, k - 1 \in A PROVE k \in A
  <2> DEFINE g == p[k - 1]
             h == p[k]
  <2>0. k - 1 \in 0 .. n /\ k \in 0 .. n
    BY <1>1
  <2>1. Same(g) /\ Set(g, k - 1) /\ k \in 0 .. n
    <3> HIDE DEF Same, Set
    <3>1. QED
      BY <1>7, <2>0
  <2>2. h = [g EXCEPT !.states = [g.states EXCEPT ![colors[k].on] = colors[k].final]]
    BY <1>4, <2>1 DEF Device
  <2> HIDE DEF g, h
  <2>3. [g.states EXCEPT ![colors[k].on] = colors[k].final] \in [Units -> LayoutNames]
    BY <1>1, <2>1 DEF Device
  <2>4. Same(h) /\ h.states = [g.states EXCEPT ![colors[k].on] = colors[k].final]
    BY <2>1, <2>2, <2>3 DEF Device
  <2>5. /\ h.states[colors[k].on] = colors[k].final
        /\ \A u \in Units : u # colors[k].on => h.states[u] = g.states[u]
    BY <1>1, <2>1, <2>4 DEF Device
  <2>6. \A i \in 1 .. k : i \in 1 .. n /\ (i # k => i \in 1 .. (k - 1))
    BY <1>1
  <2>7. k \in 1 .. k /\ 1 .. (k - 1) \subseteq 1 .. k
    BY <1>1
  <2>8. \A i \in 1 .. k : h.states[colors[i].on] = colors[i].final
    BY <1>1, <1>5, <2>1, <2>5, <2>6
  <2>9. \A u \in Units : (\A i \in 1 .. k : colors[i].on # u) => h.states[u] = e.states[u]
    BY <2>1, <2>5, <2>7
  <2>10. QED
    BY <2>1, <2>4, <2>8, <2>9 DEF h
<1>8. n \in A
  <2> HIDE DEF Same, Set, A
  <2>1. \A k \in 0 .. n : k \in A
    BY <1>1, <1>6, <1>7, ViewFold!Counting
  <2>2. QED
    BY <1>1, <2>1
<1>9. Same(f) /\ Set(f, n)
  BY <1>3, <1>8 DEF A
<1>10. StatesAre(f, e, colors)
  BY <1>1, <1>9 DEF StatesAre
<1>11. QED
  BY <1>9, <1>10 DEF f

\* What the pass is given whenever what it binds is ready.
PassWillBeGiven(attached, bound, uses, B) ==
  \A r : BoundReady(r, bound, attached) => PassIsGiven(r, attached, uses, B)

\* Colors are set to what the pass leaves; other attachments stay as they are.
ColorsCover(attachments, colors) ==
  /\ ToSet(colors) \subseteq ToSet(attachments)
  /\ \A a \in ToSet(attachments) : (\E x \in ToSet(colors) : x.on = a.on) \/ a.final = a.initial

\* A render pass with its transitions, its barrier and the layouts it sets keeps what a
\* command promises, but for buffer races between its own subpasses.
LEMMA AroundPassKeeps ==
  ASSUME NEW d, Fine(d), NEW attachments \in Seq(AttachmentType), NEW colors \in Seq(AttachmentType),
         Alike(attachments), ColorsCover(attachments, colors), NEW bound \in Seq(Bindings),
         NEW deps, \A b \in deps : IsDependency(b), NEW uses, NEW B \in SUBSET Buffers,
         PassWillBeGiven(Attached(attachments), bound, uses, B), NEW writes \in BOOLEAN,
         B # {} => writes /\ Prepared(d)
  PROVE  LET e == AroundPass(d, attachments, colors, bound, deps, uses, writes) IN
         Fine(e) /\ (SubpassesApart(uses) => NoNewRace(e, d))
<1> DEFINE attached == Attached(attachments)
           placed == TransitionAttachments(d, attachments)
           ready == TransitionStorage(TransitionSampled(placed, bound, attached), bound, attached)
           done == RunRenderPass(ready, attachments, deps, uses)
           after == IF writes THEN Barrier(done, RenderPassShaderWrite, Resources) ELSE done
           e == SetLayouts(after, colors)
<1>1. AroundPass(d, attachments, colors, bound, deps, uses, writes) = e
  BY DEF AroundPass, Attached, RecordMemoryBarrier
<1> HIDE DEF attached
<1>2. Keeps(placed, d) /\ (Prepared(d) => Prepared(placed)) /\ AttachmentsIn(placed, attachments)
  BY AttachmentsKeep
<1> HIDE DEF placed
<1>3. /\ Keeps(ready, placed) /\ (Prepared(placed) => Prepared(ready)) /\ BoundReady(ready, bound, attached)
      /\ \A u \in Units \cap attached : ready.layout[u] = placed.layout[u]
  BY <1>2, TexturesKeep DEF Keeps
<1> HIDE DEF ready
<1>4. ToSet(attachments) \subseteq AttachmentType
  BY DEF ToSet
<1>5. PassAttachments(ready, attachments)
  <2>1. \A a \in ToSet(attachments) : a.on \in Units \cap attached
    BY <1>4 DEF AttachmentType, Attached, attached
  <2>2. QED
    BY <1>2, <1>3, <1>4, <2>1 DEF PassAttachments, AttachmentsIn, Alike
<1>6. PassIsGiven(ready, attached, uses, B)
  BY <1>3 DEF PassWillBeGiven, attached
<1>7. /\ done \in Device /\ Outside(done) /\ done.states = ready.states /\ done.mislaid = {}
      /\ BuffersNear(done, DrawWrites, B)
      /\ FinalsReached(done, attachments) /\ SameBeside(done, ready, attached)
      /\ (B # {} => Prepared(ready)) /\ SubpassesApart(uses) => NoNewRace(done, ready)
  BY <1>3, <1>5, <1>6, PassKeeps DEF Keeps, attached
<1> HIDE DEF done
<1>8. /\ after \in Device /\ Outside(after) /\ after.states = ready.states /\ after.mislaid = {}
      /\ after.layout = done.layout /\ after.races = done.races /\ Settled(after)
  <2>1. CASE writes
    <3>1. B \subseteq Resources /\ IsDependency(RenderPassShaderWrite)
      BY BuffersAre, NamedBarriers
    <3>2. after = Barrier(done, RenderPassShaderWrite, Resources)
      BY <2>1
    <3> HIDE DEF after
    <3>3. Settled(after)
      BY <1>7, <3>1, <3>2, BarrierSettles, SettlingBarriers
    <3>4. Outside(after)
      BY <1>7, <3>1, <3>2, BarrierOutside
    <3>5. after \in Device /\ after.layout = done.layout /\ after.states = done.states
          /\ after.races = done.races /\ after.mislaid = done.mislaid
      BY <1>7, <3>1, <3>2, BarrierEffect
    <3>6. QED
      BY <1>7, <3>3, <3>4, <3>5
  <2>2. CASE ~writes
    <3>1. B = {} /\ after = done
      BY <2>2
    <3>2. Settled(done)
      BY <1>7, <3>1 DEF Settled, BuffersNear
    <3>3. QED
      BY <1>7, <3>1, <3>2
  <2>3. QED
    BY <2>1, <2>2
<1> HIDE DEF after
<1>9. Alike(colors)
  BY DEF Alike, ColorsCover
<1>10. /\ e \in Device /\ e.past = after.past /\ e.layout = after.layout /\ e.races = after.races
       /\ e.mislaid = after.mislaid /\ StatesAre(e, after, colors)
  BY <1>8, <1>9, SetLayoutsEffect
<1> HIDE DEF e
<1>11. \A u \in Units : e.states[u] = e.layout[u]
  <2>1. SUFFICES ASSUME NEW u \in Units PROVE e.states[u] = e.layout[u]
    OBVIOUS
  <2>2. CASE \E x \in ToSet(colors) : x.on = u
    <3>1. PICK x \in ToSet(colors) : x.on = u
      BY <2>2
    <3>2. x \in ToSet(attachments)
      BY DEF ColorsCover
    <3>3. e.states[u] = x.final /\ e.layout[u] = x.final
      BY <1>7, <1>8, <1>10, <3>1, <3>2 DEF StatesAre, FinalsReached
    <3>4. QED
      BY <3>3
  <2>3. CASE \A x \in ToSet(colors) : x.on # u
    <3>1. e.states[u] = ready.states[u] /\ ready.states[u] = ready.layout[u] /\ e.layout[u] = done.layout[u]
      BY <1>3, <1>8, <1>10, <2>3 DEF StatesAre, Keeps, Fine, Told
    <3>2. CASE u \in attached
      <4>1. PICK a \in ToSet(attachments) : a.on = u
        BY <3>2 DEF attached, Attached
      <4>2. a.final = a.initial
        BY <2>3, <4>1 DEF ColorsCover
      <4>3. done.layout[u] = a.final /\ ready.layout[u] = a.initial
        BY <1>5, <1>7, <4>1 DEF FinalsReached, PassAttachments
      <4>4. QED
        BY <3>1, <4>2, <4>3
    <3>3. CASE u \notin attached
      BY <1>7, <3>1, <3>3 DEF SameBeside
    <3>4. QED
      BY <3>2, <3>3
  <2>4. QED
    BY <2>2, <2>3
<1>12. Fine(e)
  BY <1>8, <1>10, <1>11 DEF Fine, Told, Outside, Settled, BuffersNear
<1>13. SubpassesApart(uses) => NoNewRace(e, d)
  BY <1>2, <1>3, <1>7, <1>8, <1>10 DEF Keeps, NoNewRace
<1>14. QED
  BY <1>1, <1>12, <1>13

-----------------------------------------------------------------------------
(* The walk over a stream                                                  *)

\* What two sequences have, together.
LEMMA ConcatHas ==
  ASSUME NEW C, NEW s \in Seq(C), NEW t \in Seq(C)
  PROVE  s \o t \in Seq(C) /\ ToSet(s \o t) = ToSet(s) \cup ToSet(t)
<1> DEFINE m == Len(s)
           n == Len(t)
           st == s \o t
<1>1. /\ m \in Nat /\ n \in Nat /\ st \in Seq(C) /\ Len(st) = m + n
      /\ \A k \in 1 .. m : st[k] = s[k]
      /\ \A k \in 1 .. n : st[m + k] = t[k]
      /\ DOMAIN s = 1 .. m /\ DOMAIN t = 1 .. n /\ DOMAIN st = 1 .. (m + n)
  OBVIOUS
<1> HIDE DEF m, n, st
<1>2. ToSet(st) \subseteq ToSet(s) \cup ToSet(t)
  <2> SUFFICES ASSUME NEW k \in 1 .. (m + n) PROVE st[k] \in ToSet(s) \cup ToSet(t)
    BY <1>1 DEF ToSet
  <2>1. CASE k <= m
    BY <1>1, <2>1 DEF ToSet
  <2>2. CASE k > m
    <3>1. k - m \in 1 .. n /\ m + (k - m) = k
      BY <1>1, <2>2
    <3>2. QED
      BY <1>1, <3>1 DEF ToSet
  <2>3. QED
    BY <1>1, <2>1, <2>2
<1>3. ToSet(s) \subseteq ToSet(st)
  <2>1. \A k \in 1 .. m : k \in 1 .. (m + n)
    BY <1>1
  <2>2. QED
    BY <1>1, <2>1 DEF ToSet
<1>4. ToSet(t) \subseteq ToSet(st)
  <2>1. \A k \in 1 .. n : m + k \in 1 .. (m + n)
    BY <1>1
  <2>2. QED
    BY <1>1, <2>1 DEF ToSet
<1>5. QED
  BY <1>1, <1>2, <1>3, <1>4 DEF st

\* What a sequence has.
LEMMA ToSetIn == ASSUME NEW C, NEW s \in Seq(C) PROVE ToSet(s) \subseteq C
BY DEF ToSet

DrawType == [pipeline : Pipelines, binds : SUBSET Bindings, fetches : SUBSET Fetches]

WalkType ==
  [pipeline : Pipelines, binds : SUBSET Bindings, bound : Seq(Bindings), draws : SUBSET DrawType,
   writes : BOOLEAN, writes_buffer : BOOLEAN]

MayWrite(x) == WritableIsBound(BufferWritable(x.pipeline), x.binds)

\* The walk has met all that a draw met binds, and has noted if it may write a buffer.
WalkHolds(w) ==
  /\ w.binds \subseteq ToSet(w.bound)
  /\ \A x \in w.draws : x.binds \subseteq ToSet(w.bound)
  /\ MayWrite(w) => w.writes_buffer
  /\ \A x \in w.draws : MayWrite(x) => w.writes_buffer
  /\ w.writes_buffer => w.writes

Walks == {w \in WalkType : WalkHolds(w)}

\* What Checked is given.
LEMMA CheckedWalks ==
  ASSUME NEW w \in WalkType, w.binds \subseteq ToSet(w.bound),
         \A x \in w.draws : x.binds \subseteq ToSet(w.bound),
         \A x \in w.draws : MayWrite(x) => w.writes_buffer, w.writes_buffer => w.writes
  PROVE  Checked(w) \in Walks
<1> DEFINE f == Checked(w)
<1>1. WritableIsBound(w.pipeline.writable, w.binds) \in BOOLEAN /\ MayWrite(w) \in BOOLEAN
  BY DEF WritableIsBound, MayWrite
<1>2. /\ f.pipeline = w.pipeline /\ f.binds = w.binds /\ f.bound = w.bound /\ f.draws = w.draws
      /\ f.writes = (w.writes \/ WritableIsBound(w.pipeline.writable, w.binds))
      /\ f.writes_buffer = (w.writes_buffer \/ MayWrite(w))
  BY DEF Checked, WalkType, MayWrite
<1>3. f \in WalkType
  BY <1>1 DEF Checked, WalkType, MayWrite
<1>4. MayWrite(w) => WritableIsBound(w.pipeline.writable, w.binds)
  BY DEF MayWrite, WritableIsBound, BufferWritable
<1> HIDE DEF f
<1>5. MayWrite(f) <=> MayWrite(w)
  BY <1>2 DEF MayWrite
<1>6. WalkHolds(f)
  BY <1>2, <1>4, <1>5 DEF WalkHolds
<1>7. QED
  BY <1>3, <1>6 DEF Walks, f

\* A command of a stream keeps what the walk has noted.
LEMMA VisitWalks ==
  ASSUME NEW w \in Walks, NEW c \in BundleCommand
  PROVE  Visit(w, c) \in Walks
<1>1. w \in WalkType /\ WalkHolds(w)
  BY DEF Walks
<1>2. CASE c.op = "pipeline"
  <2> DEFINE v == [w EXCEPT !.pipeline = c.pipeline]
  <2>1. c.pipeline \in Pipelines
    BY <1>2 DEF BundleCommand
  <2>2. v \in WalkType /\ v.binds = w.binds /\ v.bound = w.bound /\ v.draws = w.draws
        /\ v.writes = w.writes /\ v.writes_buffer = w.writes_buffer
    BY <1>1, <2>1 DEF WalkType
  <2> HIDE DEF v
  <2>3. Checked(v) \in Walks
    BY <1>1, <2>2, CheckedWalks DEF WalkHolds
  <2>4. QED
    BY <1>2, <2>3 DEF Visit, SetPipeline, v
<1>3. CASE c.op = "group"
  <2> DEFINE keep == {b \in w.binds : b.key[1] # c.index} \cup ToSet(c.binds)
             all  == w.bound \o c.binds
             v == [w EXCEPT !.binds = keep, !.bound = all]
  <2>1. c.binds \in Seq(Bindings)
    BY <1>3 DEF BundleCommand
  <2>2. w.bound \in Seq(Bindings) /\ w.binds \subseteq Bindings
    BY <1>1 DEF WalkType
  <2>3. all \in Seq(Bindings) /\ ToSet(all) = ToSet(w.bound) \cup ToSet(c.binds)
    BY <2>1, <2>2, ConcatHas
  <2>4. keep \subseteq Bindings /\ keep \subseteq ToSet(all)
    BY <1>1, <2>1, <2>2, <2>3, ToSetIn DEF WalkHolds
  <2> HIDE DEF keep, all
  <2>5. v \in WalkType /\ v.binds = keep /\ v.bound = all /\ v.draws = w.draws
        /\ v.writes = w.writes /\ v.writes_buffer = w.writes_buffer
    BY <1>1, <2>3, <2>4 DEF WalkType
  <2>6. Visit(w, c) = Checked(v)
    BY <1>3 DEF Visit, SetBindGroup, keep, all
  <2> HIDE DEF v
  <2>7. Checked(v) \in Walks
    BY <1>1, <2>3, <2>4, <2>5, CheckedWalks DEF WalkHolds
  <2>8. QED
    BY <2>6, <2>7
<1>4. CASE c.op = "draw"
  <2> DEFINE x == [pipeline |-> w.pipeline, binds |-> w.binds, fetches |-> c.fetches]
             v == [w EXCEPT !.draws = @ \cup {x}]
  <2>1. c.fetches \in SUBSET Fetches
    BY <1>4 DEF BundleCommand
  <2>2. x \in DrawType /\ x.binds = w.binds /\ x.pipeline = w.pipeline
    BY <1>1, <2>1 DEF WalkType, DrawType
  <2>3. MayWrite(x) <=> MayWrite(w)
    BY <2>2 DEF MayWrite
  <2>4. Visit(w, c) = v
    BY <1>4 DEF Visit, Draw
  <2> HIDE DEF x
  <2>5. v \in WalkType /\ v.pipeline = w.pipeline /\ v.binds = w.binds /\ v.bound = w.bound
        /\ v.draws = w.draws \cup {x} /\ v.writes = w.writes /\ v.writes_buffer = w.writes_buffer
    BY <1>1, <2>2 DEF WalkType
  <2> HIDE DEF v
  <2>6. MayWrite(v) <=> MayWrite(w)
    BY <2>5 DEF MayWrite
  <2>7. WalkHolds(v)
    BY <1>1, <2>2, <2>3, <2>5, <2>6 DEF WalkHolds
  <2>8. QED
    BY <2>4, <2>5, <2>7 DEF Walks
<1>5. QED
  BY <1>2, <1>3, <1>4 DEF BundleCommand

\* So does a bundle's end, when nothing is bound any more.
LEMMA NothingBound ==
  ASSUME NEW w \in Walks
  PROVE  [w EXCEPT !.pipeline = NoPipeline, !.binds = {}] \in Walks
<1> DEFINE v == [w EXCEPT !.pipeline = NoPipeline, !.binds = {}]
<1>1. w \in WalkType /\ WalkHolds(w)
  BY DEF Walks
<1>2. NoPipeline \in Pipelines
  BY DEF NoPipeline, Pipelines
<1>3. v \in WalkType /\ v.binds = {} /\ v.bound = w.bound /\ v.draws = w.draws
      /\ v.writes = w.writes /\ v.writes_buffer = w.writes_buffer
  BY <1>1, <1>2 DEF WalkType
<1> HIDE DEF v
<1>4. ~MayWrite(v)
  BY <1>3 DEF MayWrite, WritableIsBound
<1>5. WalkHolds(v)
  BY <1>1, <1>3, <1>4 DEF WalkHolds
<1>6. QED
  BY <1>3, <1>5 DEF Walks, v

\* And a bundle.
LEMMA BundleWalks ==
  ASSUME NEW w \in Walks, NEW commands \in Seq(BundleCommand)
  PROVE  ExecuteRenderBundle(w, commands) \in Walks
<1>1. FoldLeft(Visit, w, commands) = VisitFold!Fold(0, w, commands)
  BY DEF FoldLeft, MapThenFoldSet, Max, VisitFold!Fold, VisitFold!Iteration, VisitFold!Top, VisitStep
<1>2. \A v \in Walks, c \in BundleCommand : VisitStep(0, v, c) \in Walks
  BY VisitWalks DEF VisitStep
<1>3. VisitFold!Fold(0, w, commands) \in Walks
  BY <1>2, VisitFold!FoldStays
<1>4. FoldLeft(Visit, w, commands) \in Walks
  BY <1>1, <1>3
<1>5. QED
  BY <1>4, NothingBound DEF ExecuteRenderBundle

\* The walk over a stream has noted all its draws, what they are bound and whether one
\* may write a buffer.
LEMMA StreamWalks ==
  ASSUME NEW stream \in Seq(StreamCommand)
  PROVE  Walk(stream) \in Walks
<1>1. Walk(stream) = VisitAllFold!Fold(0, Start, stream)
  BY DEF Walk, FoldLeft, MapThenFoldSet, Max, VisitAllFold!Fold, VisitAllFold!Iteration,
     VisitAllFold!Top, VisitAllStep
<1>2. Start \in Walks
  <2>1. /\ Start.pipeline = NoPipeline /\ Start.binds = {} /\ Start.bound = <<>> /\ Start.draws = {}
        /\ Start.writes = FALSE /\ Start.writes_buffer = FALSE
    BY DEF Start
  <2>2. NoPipeline \in Pipelines /\ <<>> \in Seq(Bindings)
    BY DEF NoPipeline, Pipelines
  <2>3. Start \in WalkType
    BY <2>2 DEF WalkType, Start
  <2>4. ~MayWrite(Start)
    BY <2>1 DEF MayWrite, WritableIsBound
  <2>5. WalkHolds(Start)
    BY <2>1, <2>4 DEF WalkHolds
  <2>6. QED
    BY <2>3, <2>5 DEF Walks
<1>3. ASSUME NEW w \in Walks, NEW c \in StreamCommand PROVE VisitAll(w, c) \in Walks
  <2>1. CASE c.op = "bundle"
    <3>1. c.commands \in Seq(BundleCommand)
      BY <2>1 DEF StreamCommand, BundleCommand
    <3>2. QED
      BY <2>1, <3>1, BundleWalks DEF VisitAll
  <2>2. CASE c.op # "bundle"
    <3>1. c \in BundleCommand
      BY <2>2 DEF StreamCommand
    <3>2. QED
      BY <2>2, <3>1, VisitWalks DEF VisitAll
  <2>3. QED
    BY <2>1, <2>2
<1>4. \A v \in Walks, c \in StreamCommand : VisitAllStep(0, v, c) \in Walks
  BY <1>3 DEF VisitAllStep
<1>5. QED
  BY <1>1, <1>2, <1>4, VisitAllFold!FoldStays

-----------------------------------------------------------------------------
(* Attachments of a pass                                                   *)

\* FlattenSeq has what its sequences have.
LEMMA FlattenHas ==
  ASSUME NEW C, NEW seqs \in Seq(Seq(C))
  PROVE  /\ FlattenSeq(seqs) \in Seq(C)
         /\ \A x : x \in ToSet(FlattenSeq(seqs)) <=> \E i \in DOMAIN seqs : x \in ToSet(seqs[i])
<1> DEFINE n == Len(seqs)
           Flat(g) == g = [i \in 1 .. n |-> IF i = 1 THEN seqs[i] ELSE g[i - 1] \o seqs[i]]
           f == CHOOSE g : Flat(g)
<1>1. n \in Nat /\ DOMAIN seqs = 1 .. n /\ \A i \in 1 .. n : seqs[i] \in Seq(C)
  OBVIOUS
<1>2. CASE n = 0
  <2>1. seqs = <<>> /\ FlattenSeq(seqs) = seqs
    BY <1>2 DEF FlattenSeq
  <2>2. <<>> \in Seq(C) /\ ToSet(<<>>) = {}
    BY DEF ToSet
  <2>3. \A i \in DOMAIN seqs : FALSE
    BY <1>1, <1>2
  <2>4. FlattenSeq(seqs) \in Seq(C) /\ ToSet(FlattenSeq(seqs)) = {}
    BY <2>1, <2>2
  <2>5. QED
    BY <2>3, <2>4
<1>3. CASE n # 0
  <2>1. FlattenSeq(seqs) = f[n]
    BY <1>3 DEF FlattenSeq
  <2>2. PICK p : FlattenFold!Through(0, p, <<>>, seqs)
    BY FlattenFold!FoldThrough
  <2>3. p[0] = <<>> /\ \A k \in 1 .. n : p[k] = p[k - 1] \o seqs[k]
    BY <2>2 DEF FlattenFold!Through, FlattenStep
  <2> HIDE DEF n
  <2>4. Flat([k \in 1 .. n |-> p[k]])
    <3>1. ASSUME NEW k \in 1 .. n
          PROVE  p[k] = IF k = 1 THEN seqs[k] ELSE [j \in 1 .. n |-> p[j]][k - 1] \o seqs[k]
      <4>1. CASE k = 1
        <5>1. 1 \in 1 .. n /\ 1 - 1 = 0
          BY <4>1
        <5>2. p[1] = p[0] \o seqs[1]
          BY <2>3, <5>1
        <5>3. p[1] = <<>> \o seqs[1] /\ seqs[1] \in Seq(C)
          BY <1>1, <2>3, <5>1, <5>2
        <5>4. <<>> \o seqs[1] = seqs[1]
          BY <5>3
        <5>5. QED
          BY <4>1, <5>3, <5>4
      <4>2. CASE k # 1
        <5>1. k - 1 \in 1 .. n
          BY <1>1, <4>2
        <5>2. QED
          BY <2>3, <4>2, <5>1
      <4>3. QED
        BY <4>1, <4>2
    <3>2. QED
      BY <3>1
  <2>5. Flat(f)
    BY <2>4
  <2> HIDE DEF f
  <2> DEFINE Good(k) == /\ f[k] \in Seq(C)
                        /\ \A x : x \in ToSet(f[k]) <=> \E i \in 1 .. k : x \in ToSet(seqs[i])
             A == {k \in 0 .. n : k # 0 => Good(k)}
  <2>6. 0 \in A
    BY <1>1
  <2>7. ASSUME NEW k \in 1 .. n, k - 1 \in A PROVE k \in A
    <3>0. k \in 0 .. n
      BY <1>1
    <3>1. f[k] = IF k = 1 THEN seqs[k] ELSE f[k - 1] \o seqs[k]
      <4> HIDE DEF Good, A
      <4>1. f = [i \in 1 .. n |-> IF i = 1 THEN seqs[i] ELSE f[i - 1] \o seqs[i]]
        BY <2>5
      <4>2. QED
        BY <4>1
    <3>2. CASE k = 1
      <4>1. f[k] = seqs[1] /\ 1 .. 1 = {1} /\ seqs[1] \in Seq(C)
        BY <1>1, <3>1, <3>2
      <4>2. Good(k)
        BY <3>2, <4>1
      <4>3. QED
        BY <3>0, <4>2
    <3>3. CASE k # 1
      <4>1. k - 1 \in 1 .. n /\ k - 1 # 0 /\ 1 .. k = (1 .. (k - 1)) \cup {k}
        BY <1>1, <3>3
      <4>2. Good(k - 1)
        <5> HIDE DEF Good
        <5>1. QED
          BY <2>7, <4>1
      <4>3. f[k] = f[k - 1] \o seqs[k] /\ seqs[k] \in Seq(C)
        BY <1>1, <3>1, <3>3
      <4>4. f[k] \in Seq(C) /\ ToSet(f[k]) = ToSet(f[k - 1]) \cup ToSet(seqs[k])
        BY <4>2, <4>3, ConcatHas
      <4>5. Good(k)
        BY <4>1, <4>2, <4>4
      <4>6. QED
        BY <3>0, <4>5
    <3>4. QED
      BY <3>2, <3>3
  <2>8. Good(n)
    <3> HIDE DEF Good, A
    <3>1. \A k \in 0 .. n : k \in A
      BY <1>1, <2>6, <2>7, ViewFold!Counting
    <3>2. n \in A
      BY <1>1, <3>1
    <3>3. QED
      BY <1>3, <3>2 DEF A
  <2>9. QED
    BY <1>1, <2>1, <2>8
<1>4. QED
  BY <1>2, <1>3

\* A sequence given by its elements.
LEMMA SequenceHas ==
  ASSUME NEW C, NEW n \in Nat, NEW f, DOMAIN f = 1 .. n, f = [i \in 1 .. n |-> f[i]],
         \A i \in 1 .. n : f[i] \in C
  PROVE  f \in Seq(C) /\ \A x : x \in ToSet(f) <=> \E i \in 1 .. n : x = f[i]
BY DEF ToSet

\* The attachments of a command of either kind.
PassColors(c) ==
  /\ c.depth \in Seq(Units) /\ DOMAIN c.colors = 1 .. Len(c.colors) /\ Len(c.colors) \in Nat
  /\ \A i \in DOMAIN c.colors : c.colors[i].on \in Units /\ c.colors[i].resolve \in Seq(Units)

ColorIn(c, i) == IF ReadInPass(c, i) THEN "general" ELSE "color"

IsColor(a) == a.on \in Units /\ a.initial \in {"general", "color"} /\ a = ColorAttachment(a.on, a.initial)

Resolved(c, u) == \E i \in DOMAIN c.colors : u \in ToSet(c.colors[i].resolve)

IsColorOf(c, a) ==
  \/ \E i \in DOMAIN c.colors : a = ColorAttachment(c.colors[i].on, ColorIn(c, i))
  \/ \E u : Resolved(c, u) /\ a = ColorAttachment(u, "color")

\* The color attachments of a pass are its colors and their resolve targets.
LEMMA ColorAttachmentsAre ==
  ASSUME NEW c, PassColors(c)
  PROVE  /\ ColorAttachments(c) \in Seq(AttachmentType)
         /\ \A a : a \in ToSet(ColorAttachments(c)) <=> IsColorOf(c, a)
         /\ \A a \in ToSet(ColorAttachments(c)) : IsColor(a)
<1> DEFINE n == Len(c.colors)
           first == [i \in DOMAIN c.colors |-> ColorAttachment(c.colors[i].on, ColorIn(c, i))]
           one(i) == [j \in DOMAIN c.colors[i].resolve |-> ColorAttachment(c.colors[i].resolve[j], "color")]
           second == [i \in DOMAIN c.colors |-> one(i)]
<1>1. n \in Nat /\ DOMAIN c.colors = 1 .. n
  BY DEF PassColors
<1>2. ASSUME NEW u \in Units, NEW l \in {"general", "color"}
      PROVE  ColorAttachment(u, l) \in AttachmentType /\ IsColor(ColorAttachment(u, l))
  BY TransferLayouts DEF ColorAttachment, Attachment, FinalLayout, AttachmentType, IsColor
<1>3. \A i \in DOMAIN c.colors : c.colors[i].on \in Units /\ c.colors[i].resolve \in Seq(Units)
                              /\ ColorIn(c, i) \in {"general", "color"}
  BY DEF PassColors, ColorIn
<1>4. first \in Seq(AttachmentType) /\ \A x : x \in ToSet(first) <=> \E i \in 1 .. n : x = first[i]
  <2>1. DOMAIN first = 1 .. n /\ first = [i \in 1 .. n |-> first[i]]
    BY <1>1
  <2>2. \A i \in 1 .. n : first[i] \in AttachmentType
    BY <1>1, <1>2, <1>3
  <2> HIDE DEF first, n
  <2>3. QED
    BY <1>1, <2>1, <2>2, SequenceHas
<1>5. ASSUME NEW i \in 1 .. n
      PROVE  /\ one(i) \in Seq(AttachmentType)
             /\ \A x : x \in ToSet(one(i)) <=> \E u \in ToSet(c.colors[i].resolve) : x = ColorAttachment(u, "color")
  <2> DEFINE r == c.colors[i].resolve
             s == [j \in DOMAIN r |-> ColorAttachment(r[j], "color")]
  <2>1. r \in Seq(Units)
    BY <1>1, <1>3
  <2> HIDE DEF r
  <2>2. Len(r) \in Nat /\ DOMAIN r = 1 .. Len(r) /\ \A j \in 1 .. Len(r) : r[j] \in Units
    BY <2>1
  <2>3. DOMAIN s = 1 .. Len(r) /\ s = [j \in 1 .. Len(r) |-> s[j]]
    BY <2>2
  <2>4. \A j \in 1 .. Len(r) : s[j] \in AttachmentType
    BY <1>2, <2>2
  <2>5. \A j \in 1 .. Len(r) : s[j] = ColorAttachment(r[j], "color")
    BY <2>2
  <2> HIDE DEF s
  <2>6. s \in Seq(AttachmentType) /\ \A x : x \in ToSet(s) <=> \E j \in 1 .. Len(r) : x = s[j]
    <3> DEFINE m == Len(r)
    <3>1. /\ m \in Nat /\ DOMAIN s = 1 .. m /\ s = [j \in 1 .. m |-> s[j]]
          /\ \A j \in 1 .. m : s[j] \in AttachmentType
      BY <2>2, <2>3, <2>4
    <3> HIDE DEF m, one, second, first, n
    <3>2. s \in Seq(AttachmentType) /\ \A x : x \in ToSet(s) <=> \E j \in 1 .. m : x = s[j]
      BY <3>1, SequenceHas
    <3>3. QED
      BY <3>2 DEF m
  <2>7. ToSet(r) = {r[j] : j \in 1 .. Len(r)}
    BY <2>2 DEF ToSet
  <2>8. s = one(i)
    BY DEF s, r
  <2>9. \A x : x \in ToSet(s) <=> \E u \in ToSet(r) : x = ColorAttachment(u, "color")
    BY <2>5, <2>6, <2>7
  <2>10. QED
    BY <2>6, <2>8, <2>9 DEF r
<1>6. /\ FlattenSeq(second) \in Seq(AttachmentType)
      /\ \A x : x \in ToSet(FlattenSeq(second)) <=> \E i \in 1 .. n : x \in ToSet(one(i))
  <2>1. DOMAIN second = 1 .. n /\ second = [i \in 1 .. n |-> second[i]] /\ \A i \in 1 .. n : second[i] = one(i)
    BY <1>1
  <2> HIDE DEF second, n, one
  <2>2. \A i \in 1 .. n : second[i] \in Seq(AttachmentType)
    BY <1>5, <2>1
  <2>3. second \in Seq(Seq(AttachmentType))
    BY <1>1, <2>1, <2>2, SequenceHas
  <2>4. QED
    BY <2>1, <2>3, FlattenHas
<1>7. ColorAttachments(c) = first \o FlattenSeq(second)
  BY DEF ColorAttachments, ColorIn
<1>8. \A i \in 1 .. n : first[i] = ColorAttachment(c.colors[i].on, ColorIn(c, i))
  BY <1>1
<1> HIDE DEF first, second, one, n
<1>9. /\ ColorAttachments(c) \in Seq(AttachmentType)
      /\ ToSet(ColorAttachments(c)) = ToSet(first) \cup ToSet(FlattenSeq(second))
  BY <1>4, <1>6, <1>7, ConcatHas
<1>10. ASSUME NEW a PROVE a \in ToSet(ColorAttachments(c)) <=> IsColorOf(c, a)
  <2>1. a \in ToSet(first) <=> \E i \in DOMAIN c.colors : a = ColorAttachment(c.colors[i].on, ColorIn(c, i))
    BY <1>1, <1>4, <1>8
  <2>2. a \in ToSet(FlattenSeq(second)) <=> \E u : Resolved(c, u) /\ a = ColorAttachment(u, "color")
    BY <1>1, <1>5, <1>6 DEF Resolved
  <2>3. QED
    BY <1>9, <2>1, <2>2 DEF IsColorOf
<1>11. ASSUME NEW a, IsColorOf(c, a) PROVE IsColor(a)
  <2>1. \A u : Resolved(c, u) => u \in Units
    BY <1>3, ToSetIn DEF Resolved
  <2>2. QED
    BY <1>2, <1>3, <1>11, <2>1 DEF IsColorOf
<1>12. QED
  BY <1>9, <1>10, <1>11

\* With those of depth.
LEMMA AttachmentsAre ==
  ASSUME NEW c, PassColors(c)
  PROVE  /\ Attachments(c) \in Seq(AttachmentType)
         /\ \A a : a \in ToSet(Attachments(c)) <=> \/ IsColorOf(c, a)
                                                  \/ \E u \in ToSet(c.depth) : a = DepthAttachment(u)
<1> DEFINE depth == [i \in DOMAIN c.depth |-> DepthAttachment(c.depth[i])]
           m == Len(c.depth)
<1>1. m \in Nat /\ DOMAIN c.depth = 1 .. m /\ \A i \in 1 .. m : c.depth[i] \in Units
  BY DEF PassColors
<1>2. \A u \in Units : DepthAttachment(u) \in AttachmentType
  BY TransferLayouts DEF DepthAttachment, Attachment, AttachmentType
<1>3. DOMAIN depth = 1 .. m /\ depth = [i \in 1 .. m |-> depth[i]]
      /\ \A i \in 1 .. m : depth[i] = DepthAttachment(c.depth[i]) /\ depth[i] \in AttachmentType
  BY <1>1, <1>2
<1>4. ToSet(c.depth) = {c.depth[i] : i \in 1 .. m}
  BY <1>1 DEF ToSet
<1>5. Attachments(c) = ColorAttachments(c) \o depth
  BY DEF Attachments
<1> HIDE DEF depth, m
<1>6. depth \in Seq(AttachmentType) /\ \A x : x \in ToSet(depth) <=> \E i \in 1 .. m : x = depth[i]
  <2>1. \A i \in 1 .. m : depth[i] \in AttachmentType
    BY <1>3
  <2>2. m \in Nat /\ DOMAIN depth = 1 .. m /\ depth = [i \in 1 .. m |-> depth[i]]
    BY <1>1, <1>3
  <2>3. QED
    BY <2>1, <2>2, SequenceHas
<1>7. /\ Attachments(c) \in Seq(AttachmentType)
      /\ ToSet(Attachments(c)) = ToSet(ColorAttachments(c)) \cup ToSet(depth)
  BY <1>5, <1>6, ColorAttachmentsAre, ConcatHas
<1>8. \A x : x \in ToSet(depth) <=> \E u \in ToSet(c.depth) : x = DepthAttachment(u)
  BY <1>3, <1>4, <1>6
<1>9. QED
  BY <1>7, <1>8, ColorAttachmentsAre

\* What core validates of them.
InitialsMatch(c) == \A a, b \in ToSet(Attachments(c)) : a.on = b.on => a.initial = b.initial

\* Attachments of one subresource are alike, since color and depth differ from the start.
LEMMA AttachmentsAlike ==
  ASSUME NEW c, PassColors(c), InitialsMatch(c)
  PROVE  Alike(Attachments(c)) /\ ColorsCover(Attachments(c), ColorAttachments(c))
<1>1. ASSUME NEW a \in ToSet(Attachments(c))
      PROVE  \/ a \in ToSet(ColorAttachments(c)) /\ a.initial # "depth" /\ a.final = FinalLayout(a.on)
             \/ a.initial = "depth" /\ a.final = "depth"
  <2>1. CASE IsColorOf(c, a)
    <3>1. a \in ToSet(ColorAttachments(c)) /\ IsColor(a)
      BY <2>1, ColorAttachmentsAre
    <3>2. QED
      BY <3>1 DEF IsColor, ColorAttachment, Attachment
  <2>2. CASE \E u \in ToSet(c.depth) : a = DepthAttachment(u)
    BY <2>2 DEF DepthAttachment, Attachment
  <2>3. QED
    BY <2>1, <2>2, AttachmentsAre
<1>2. Alike(Attachments(c))
  BY <1>1 DEF Alike, InitialsMatch
<1>3. ToSet(ColorAttachments(c)) \subseteq ToSet(Attachments(c))
  BY ColorAttachmentsAre, AttachmentsAre
<1>4. QED
  BY <1>1, <1>2, <1>3 DEF ColorsCover

-----------------------------------------------------------------------------
(* What the draws of a pass are given                                      *)

\* A draw with what it is bound: all of it is ready, and none of it attached.
DrawIs(w, bound, attached) ==
  /\ w.binds \subseteq ToSet(bound) /\ w.fetches \subseteq Fetches /\ BindGroupsMatch(w)
  /\ \A b \in w.binds : b.key \in w.pipeline.declared => b.on \notin attached

\* The buffers that draws may write.
WrittenIn(draws) == IF \E w \in draws : MayWrite(w) THEN Buffers ELSE {}

\* What is not attached is used in the layout it is in.
NamedBeside(uses, r, attached) ==
  \A x \in uses : x.on \in Units => x.on \notin attached /\ x.layout = r.layout[x.on]

\* What a draw fetches it reads from buffers.
LEMMA FetchesAre ==
  /\ Fetches \in SUBSET UseType /\ \A S, B : BufferUses(Fetches, S, B)
  /\ \A x \in Fetches : x.on \notin Units
<1>1. ASSUME NEW x \in Fetches
      PROVE  /\ x \in UseType /\ x.on \in Buffers /\ ~IsWrite(x.access)
             /\ <<x.stage, x.access>> \in BufferScope
  <2>1. PICK b \in Buffers, a \in {<<"vertex_input", "vertex_read">>, <<"vertex_input", "index_read">>,
                                   <<"indirect", "indirect_read">>} : x = Buffer(b, a[1], a[2])
    BY DEF Fetches
  <2>2. x.on = b /\ x.stage = a[1] /\ x.access = a[2] /\ x.layout = "none"
        /\ x = [on |-> x.on, stage |-> x.stage, access |-> x.access, layout |-> x.layout]
    BY <2>1 DEF Buffer
  <2>3. /\ a[1] \in {"vertex_input", "indirect"} /\ a[2] \in {"vertex_read", "index_read", "indirect_read"}
        /\ a[2] \in Accesses[a[1]]
    BY DEF Accesses
  <2>4. a[1] \in Stages /\ a[1] \in BufferReaders /\ a[2] \in BufferAccesses /\ a[2] \notin Writes
    BY <2>3, StageNames DEF BufferReaders, BufferAccesses, Writes
  <2>5. a[2] \in AccessNames
    BY <2>3, <2>4, AccessesNamed, StageNames
  <2>6. <<a[1], a[2]>> \in BufferScope
    BY <2>3, <2>4, BufferScopeIs
  <2>7. QED
    BY <2>2, <2>4, <2>5, <2>6, BuffersAre DEF UseType, IsWrite
<1>2. QED
  BY <1>1, BuffersAre DEF BufferUses

\* Draws use what they are bound as a subpass must be given it.
LEMMA DrawUsesGiven ==
  ASSUME NEW r, NEW draws, NEW bound \in Seq(Bindings), NEW attached, BoundReady(r, bound, attached),
         \A w \in draws : DrawIs(w, bound, attached)
  PROVE  LET uses == DrawUses(draws, bound) IN
         /\ uses \in SUBSET UseType /\ NameLayouts(uses) /\ BufferUses(uses, DrawWrites, WrittenIn(draws))
         /\ NamedBeside(uses, r, attached)
<1> DEFINE uses == DrawUses(draws, bound)
           B == WrittenIn(draws)
           stages == {"vertex", "fragment"}
           shader(w) == ShaderUses(w.pipeline, w.binds, bound, stages)
<1>1. ASSUME NEW w \in draws
      PROVE  /\ shader(w) \in SUBSET UseType /\ BufferUses(shader(w), DrawWrites, B)
             /\ NameLayouts(shader(w)) /\ NamedBeside(shader(w), r, attached)
  <2>1. w.binds \in SUBSET Bindings /\ w.binds \subseteq ToSet(bound)
    BY ToSetIn DEF DrawIs
  <2>2. \A b \in w.binds : \E i \in DOMAIN bound : b = bound[i]
    BY <2>1 DEF ToSet
  <2>3. \A b \in w.binds : b.key \in w.pipeline.declared => b.on \notin attached
    BY DEF DrawIs
  <2>4. BindGroupsMatch([pipeline |-> w.pipeline, binds |-> w.binds])
    BY DEF DrawIs, BindGroupsMatch
  <2>5. stages \in SUBSET ShaderStages
    BY DEF ShaderStages
  <2>6. /\ shader(w) \in SUBSET UseType
        /\ BufferUses(shader(w), ShaderWrites(stages), WrittenBy(w.pipeline, w.binds))
    BY <2>1, <2>4, <2>5, ShaderUsesType
  <2>7. Names(shader(w), r)
    BY <2>2, <2>3, ShaderUsesNamed
  <2>8. \A u \in shader(w) : ShaderUse(u, w.pipeline, w.binds, bound, stages)
    BY ShaderUsesAre
  <2> HIDE DEF shader, stages
  <2>9. ShaderWrites(stages) \subseteq DrawWrites
    BY DEF ShaderWrites, DrawWrites, stages
  <2>10. WrittenBy(w.pipeline, w.binds) \subseteq B
    BY DEF WrittenBy, WrittenIn, MayWrite
  <2>11. BufferUses(shader(w), DrawWrites, B)
    BY <2>6, <2>9, <2>10 DEF BufferUses
  <2>12. ASSUME NEW u \in shader(w), u.on \in Units PROVE u.on \notin attached /\ u.layout \in LayoutNames
    <3>1. PICK b \in w.binds : b.key \in w.pipeline.declared /\ u.on = b.on /\ u.layout = LayoutOf(b, bound)
      BY <2>8 DEF ShaderUse
    <3>2. b.as \in {"sampled", "storage_texture"}
      BY <2>1, <2>12, <3>1, BuffersAre DEF Bindings
    <3>3. LayoutOf(b, bound) \in LayoutNames
      BY <3>2, TransferLayouts DEF LayoutOf, SampledLayout
    <3>4. QED
      BY <2>3, <3>1, <3>3
  <2>13. QED
    BY <2>6, <2>7, <2>11, <2>12 DEF NameLayouts, NamedBeside, Names
<1>2. \A w \in draws : w.fetches \subseteq Fetches
  BY DEF DrawIs
<1>3. uses = UNION {shader(w) \cup w.fetches : w \in draws}
  BY DEF DrawUses
<1> HIDE DEF uses, B, shader
<1>4. ASSUME NEW x \in uses PROVE x \in Fetches \/ \E w \in draws : x \in shader(w)
  BY <1>2, <1>3
<1>5. uses \in SUBSET UseType
  BY <1>1, <1>4, FetchesAre
<1>6. NameLayouts(uses) /\ NamedBeside(uses, r, attached)
  BY <1>1, <1>4, FetchesAre DEF NameLayouts, NamedBeside
<1>7. BufferUses(Fetches, DrawWrites, B)
  BY FetchesAre
<1>8. BufferUses(uses, DrawWrites, B)
  BY <1>1, <1>4, <1>7 DEF BufferUses
<1>9. QED
  BY <1>5, <1>6, <1>8 DEF uses, B

\* The accesses of attachments, and those of draws.
AttachmentUses(uses, attached) ==
  /\ \A x \in uses : x \in UseType /\ x.on \in attached /\ x.layout \in LayoutNames
  /\ \A x, y \in uses : x.on = y.on => x.layout = y.layout

\* A subpass of draws and accesses to its attachments is as a pass must be given it.
LEMMA SubpassGiven ==
  ASSUME NEW r, NEW attached \in SUBSET Units, NEW uses, AttachmentUses(uses, attached),
         NEW draws, NEW bound \in Seq(Bindings), BoundReady(r, bound, attached),
         \A w \in draws : DrawIs(w, bound, attached), NEW B, WrittenIn(draws) \subseteq B
  PROVE  SubpassIsGiven(r, attached, uses \cup DrawUses(draws, bound), B)
<1> DEFINE drawn == DrawUses(draws, bound)
           all == uses \cup drawn
<1>1. /\ drawn \in SUBSET UseType /\ NameLayouts(drawn) /\ BufferUses(drawn, DrawWrites, WrittenIn(draws))
      /\ NamedBeside(drawn, r, attached)
  BY DrawUsesGiven
<1> HIDE DEF drawn
<1>2. \A x \in uses : x.on \in Units /\ x.on \notin Buffers
  BY BuffersAre DEF AttachmentUses
<1>3. all \in SUBSET UseType /\ NameLayouts(all)
  BY <1>1 DEF AttachmentUses, NameLayouts
<1>4. BufferUses(all, DrawWrites, B)
  BY <1>1, <1>2 DEF BufferUses
<1>5. \A x \in all : x.on \in attached => x \in uses
  BY <1>1 DEF NamedBeside
<1>6. \A x \in all : x.on \in Units \ attached => x.layout = r.layout[x.on]
  BY <1>1 DEF NamedBeside, AttachmentUses
<1>7. \A x, y \in all : x.on = y.on /\ x.on \in attached => x.layout = y.layout
  BY <1>5 DEF AttachmentUses
<1>8. QED
  BY <1>3, <1>4, <1>6, <1>7 DEF SubpassIsGiven, drawn

-----------------------------------------------------------------------------
(* Render passes                                                           *)

\* Dependencies of render passes.
LEMMA PassDependencies ==
  /\ \A k : IsDependency(Incoming(k)) /\ \A end : IsDependency(Outgoing(k, end))
  /\ \A b \in RenderPassDependencies : IsDependency(b)
<1>1. AttachmentStages \subseteq Stages /\ {"transfer"} \subseteq Stages
  BY StageNames DEF AttachmentStages
<1>2. \A k : IsDependency(Incoming(k)) /\ \A end : IsDependency(Outgoing(k, end))
  BY <1>1 DEF Incoming, Outgoing, SubpassDependency, IsDependency
<1>3. QED
  BY <1>2 DEF RenderPassDependencies

\* The accesses of an attachment.
LEMMA AttachmentUse ==
  ASSUME NEW u \in Units
  PROVE  /\ \A l \in LayoutNames : \A x \in ColorUses(u, l) :
               x \in UseType /\ x.on = u /\ x.layout = l
         /\ \A x \in DepthUses(u) : x \in UseType /\ x.on = u /\ x.layout = "depth"
         /\ LET x == Image(u, "fragment", "input_read", "general")
            IN  x \in UseType /\ x.on = u /\ x.layout = "general"
<1>1. u \in Resources
  BY BuffersAre
<1>2. /\ \A s \in {"color", "early", "late", "fragment"} : s \in Stages
      /\ \A a \in {"color_read", "color_write", "depth_read", "depth_write", "input_read"} : a \in AccessNames
  BY StageNames DEF AccessNames, MemoryRead, MemoryWrite, Writes, Accesses
<1>3. ASSUME NEW s \in {"color", "early", "late", "fragment"}, NEW l \in LayoutNames,
             NEW a \in {"color_read", "color_write", "depth_read", "depth_write", "input_read"}
      PROVE  LET x == Image(u, s, a, l) IN x \in UseType /\ x.on = u /\ x.layout = l
  BY <1>1, <1>2 DEF Image, UseType
<1>4. \A l \in LayoutNames : \A x \in ColorUses(u, l) : x \in UseType /\ x.on = u /\ x.layout = l
  BY <1>3 DEF ColorUses
<1>5. \A x \in DepthUses(u) : x \in UseType /\ x.on = u /\ x.layout = "depth"
  BY <1>3, TransferLayouts DEF DepthUses
<1>6. QED
  BY <1>3, <1>4, <1>5, TransferLayouts

\* The attachments of a pass are subresources.
LEMMA AttachedAre ==
  ASSUME NEW c, PassColors(c)
  PROVE  /\ Attached(Attachments(c)) \in SUBSET Units
         /\ \A a \in ToSet(Attachments(c)) : a.on \in Attached(Attachments(c))
<1>1. \A a \in ToSet(Attachments(c)) : a \in AttachmentType
  BY AttachmentsAre, ToSetIn
<1>2. QED
  BY <1>1 DEF Attached, AttachmentType

\* What core validates of a pass: what is attached is not bound.
NotBound(c) ==
  \A w \in DrawsOf(c) : \A b \in w.binds :
     b.key \in w.pipeline.declared => b.on \notin Attached(Attachments(c))

\* The parts of AttachmentsMatch.
LEMMA MatchIs ==
  ASSUME NEW c, AttachmentsMatch(c)
  PROVE  InitialsMatch(c) /\ NotBound(c)
BY DEF AttachmentsMatch, InitialsMatch, NotBound, Attached

\* A render pass of a command that is as core validates it.
LEMMA RenderPassKeeps ==
  ASSUME NEW d, Fine(d), NEW c, CommandWritesBuffer(c) => Prepared(d), c.kind = "render",
         c.colors \in Seq([on : Units, fetch : BOOLEAN, resolve : Seq(Units)]), c.depth \in Seq(Units),
         c.stream \in Seq(StreamCommand), AttachmentsMatch(c), \A w \in DrawsOf(c) : BindGroupsMatch(w)
  PROVE  Keeps(RenderPass(d, c), d)
<1> DEFINE walk == Walk(c.stream)
           atts == Attachments(c)
           cols == ColorAttachments(c)
           attached == Attached(atts)
           own == (UNION {ColorUses(a.on, a.initial) : a \in ToSet(cols)})
                    \cup (UNION {DepthUses(u) : u \in ToSet(c.depth)})
           uses == own \cup DrawUses(walk.draws, walk.bound)
           B == IF walk.writes_buffer THEN Buffers ELSE {}
<1>1. PassColors(c)
  <2> DEFINE Slot == [on : Units, fetch : BOOLEAN, resolve : Seq(Units)]
  <2>1. \A x \in Slot : x.on \in Units /\ x.resolve \in Seq(Units)
    OBVIOUS
  <2> HIDE DEF Slot
  <2>2. c.colors \in Seq(Slot)
    BY DEF Slot
  <2>3. /\ Len(c.colors) \in Nat /\ DOMAIN c.colors = 1 .. Len(c.colors)
        /\ \A i \in DOMAIN c.colors : c.colors[i] \in Slot
    BY <2>2
  <2>4. QED
    BY <2>1, <2>3 DEF PassColors
<1>2. walk \in WalkType /\ WalkHolds(walk)
  BY StreamWalks DEF Walks
<1>3. InitialsMatch(c) /\ NotBound(c)
  BY MatchIs
<1>4. /\ atts \in Seq(AttachmentType) /\ cols \in Seq(AttachmentType)
      /\ Alike(atts) /\ ColorsCover(atts, cols) /\ attached \in SUBSET Units
  BY <1>1, <1>3, AttachmentsAre, ColorAttachmentsAre, AttachmentsAlike, AttachedAre
<1>5. DrawsOf(c) = walk.draws
  BY DEF DrawsOf
<1>6. /\ walk.bound \in Seq(Bindings) /\ walk.writes \in BOOLEAN /\ walk.writes_buffer \in BOOLEAN
      /\ \A w \in walk.draws : w \in DrawType
  BY <1>2 DEF WalkType
<1>7. \A w \in walk.draws : DrawIs(w, walk.bound, attached)
  <2>1. \A w \in walk.draws : w.binds \subseteq ToSet(walk.bound) /\ w.fetches \subseteq Fetches
    BY <1>2, <1>6 DEF WalkHolds, DrawType
  <2>2. QED
    BY <1>3, <1>5, <2>1 DEF DrawIs, NotBound
<1>8. WrittenIn(walk.draws) \subseteq B /\ B \in SUBSET Buffers
  BY <1>2 DEF WrittenIn, WalkHolds
<1>9. B # {} => walk.writes /\ Prepared(d)
  <2>1. B # {} => walk.writes_buffer
    OBVIOUS
  <2>2. walk.writes_buffer => walk.writes
    BY <1>2 DEF WalkHolds
  <2>3. walk.writes_buffer => CommandWritesBuffer(c)
    BY DEF CommandWritesBuffer
  <2>4. QED
    BY <2>1, <2>2, <2>3
<1>10. RenderPass(d, c) = AroundPass(d, atts, cols, walk.bound, RenderPassDependencies, <<uses>>, walk.writes)
  BY DEF RenderPass
<1> HIDE DEF walk, atts, cols, B, attached
<1>11. AttachmentUses(own, attached)
  <2>1. ASSUME NEW x \in own
        PROVE  x \in UseType /\ \E a \in ToSet(atts) : x.on = a.on /\ x.layout = a.initial /\ a \in AttachmentType
    <3>1. CASE \E a \in ToSet(cols) : x \in ColorUses(a.on, a.initial)
      <4>1. PICK a \in ToSet(cols) : x \in ColorUses(a.on, a.initial)
        BY <3>1
      <4>2. a \in AttachmentType /\ a \in ToSet(atts)
        BY <1>4, ToSetIn DEF ColorsCover
      <4>3. a.on \in Units /\ a.initial \in LayoutNames
        BY <4>2 DEF AttachmentType
      <4>4. x \in UseType /\ x.on = a.on /\ x.layout = a.initial
        BY <4>1, <4>3, AttachmentUse
      <4>5. QED
        BY <4>2, <4>4
    <3>2. CASE \E u \in ToSet(c.depth) : x \in DepthUses(u)
      <4>1. PICK u \in ToSet(c.depth) : x \in DepthUses(u)
        BY <3>2
      <4>2. u \in Units
        BY ToSetIn
      <4>3. DepthAttachment(u) \in ToSet(atts)
        BY <1>1, AttachmentsAre DEF atts
      <4>4. DepthAttachment(u) \in AttachmentType
        BY <1>4, <4>3, ToSetIn
      <4>5. x \in UseType /\ x.on = u /\ x.layout = "depth"
        BY <4>1, <4>2, AttachmentUse
      <4>6. DepthAttachment(u).on = u /\ DepthAttachment(u).initial = "depth"
        BY DEF DepthAttachment, Attachment
      <4>7. QED
        BY <4>3, <4>4, <4>5, <4>6
    <3>3. QED
      BY <3>1, <3>2
  <2> HIDE DEF own
  <2>2. \A x \in own : x \in UseType /\ x.on \in attached /\ x.layout \in LayoutNames
    BY <1>1, <2>1, AttachedAre DEF AttachmentType, attached, atts
  <2>3. \A x, y \in own : x.on = y.on => x.layout = y.layout
    BY <1>3, <2>1 DEF InitialsMatch, atts
  <2>4. QED
    BY <2>2, <2>3 DEF AttachmentUses
<1> HIDE DEF own
<1>12. PassWillBeGiven(attached, walk.bound, <<uses>>, B)
  <2>1. ASSUME NEW r, BoundReady(r, walk.bound, attached) PROVE SubpassIsGiven(r, attached, uses, B)
    BY <1>4, <1>6, <1>7, <1>8, <1>11, <2>1, SubpassGiven
  <2> HIDE DEF uses
  <2>2. Len(<<uses>>) = 1 /\ <<uses>>[1] = uses /\ 1 .. 1 = {1}
    OBVIOUS
  <2>3. QED
    BY <2>1, <2>2 DEF PassWillBeGiven, PassIsGiven
<1> HIDE DEF uses
<1>13. SubpassesApart(<<uses>>)
  BY DEF SubpassesApart
<1>14. \A b \in RenderPassDependencies : IsDependency(b)
  BY PassDependencies
<1>15. PassWillBeGiven(Attached(atts), walk.bound, <<uses>>, B)
  BY <1>12 DEF attached
<1>16. LET e == AroundPass(d, atts, cols, walk.bound, RenderPassDependencies, <<uses>>, walk.writes) IN
       Fine(e) /\ (SubpassesApart(<<uses>>) => NoNewRace(e, d))
  BY <1>4, <1>6, <1>8, <1>9, <1>14, <1>15, AroundPassKeeps
<1>17. QED
  BY <1>10, <1>13, <1>16 DEF Keeps

-----------------------------------------------------------------------------
(* Render passes of several subpasses                                      *)

\* What a subpass does to its attachments.
SubpassOwn(c, k) ==
  LET pass == c.subpasses[k]
      layout(slot) == IF slot \in pass.inputs THEN "general" ELSE "color"
  IN (UNION {ColorUses(c.colors[slot].on, layout(slot))
               \cup UNION {ColorUses(u, "color") : u \in ToSet(c.colors[slot].resolve)} :
               slot \in pass.writes})
       \cup {Image(c.colors[slot].on, "fragment", "input_read", "general") : slot \in pass.inputs}
       \cup (IF pass.depth THEN UNION {DepthUses(u) : u \in ToSet(c.depth)} ELSE {})

SubpassBound(c) == FlattenSeq([i \in DOMAIN c.draws |-> c.draws[i].binds])
DrawsIn(c, k) == {w \in SubpassDraws(c) : w.subpass = k - 1}
SubpassesUse(c) == [k \in DOMAIN c.subpasses |-> SubpassUses(c, k, SubpassBound(c))]

\* What a subpass does is done by its draws or to its attachments.
LEMMA SubpassUsesAre ==
  ASSUME NEW c, NEW k, NEW bound
  PROVE  SubpassUses(c, k, bound) = SubpassOwn(c, k) \cup DrawUses(DrawsIn(c, k), bound)
BY DEF SubpassUses, SubpassOwn, DrawsIn

\* An attachment of a subpass with the layout it is used in.
SlotUse(c, k, x) ==
  \E slot \in DOMAIN c.colors :
     x.on = c.colors[slot].on /\ x.layout = IF slot \in c.subpasses[k].inputs THEN "general" ELSE "color"
ResolveUse(c, x) == Resolved(c, x.on) /\ x.layout = "color"
DepthUse(c, x) == x.on \in ToSet(c.depth) /\ x.layout = "depth"

\* An access of a subpass to an attachment is to a slot, a resolve target or the depth.
LEMMA SubpassOwnAre ==
  ASSUME NEW c, PassColors(c), SubpassesMatch(c), NEW k \in DOMAIN c.subpasses, NEW x \in SubpassOwn(c, k)
  PROVE  x \in UseType /\ (SlotUse(c, k, x) \/ ResolveUse(c, x) \/ DepthUse(c, x))
<1> DEFINE pass == c.subpasses[k]
           layout(slot) == IF slot \in pass.inputs THEN "general" ELSE "color"
<1>1. \A slot \in pass.writes \cup pass.inputs : slot \in DOMAIN c.colors
  BY DEF SubpassesMatch
<1>2. /\ \A slot \in DOMAIN c.colors : c.colors[slot].on \in Units /\ c.colors[slot].resolve \in Seq(Units)
      /\ \A u \in ToSet(c.depth) : u \in Units
  BY ToSetIn DEF PassColors
<1>3. \A slot : layout(slot) \in LayoutNames
  BY TransferLayouts
<1>4. CASE \E slot \in pass.writes : x \in ColorUses(c.colors[slot].on, layout(slot))
  <2>1. PICK slot \in pass.writes : x \in ColorUses(c.colors[slot].on, layout(slot))
    BY <1>4
  <2>2. slot \in DOMAIN c.colors /\ c.colors[slot].on \in Units /\ layout(slot) \in LayoutNames
    BY <1>1, <1>2, <1>3
  <2>3. x \in UseType /\ x.on = c.colors[slot].on /\ x.layout = layout(slot)
    BY <2>1, <2>2, AttachmentUse
  <2>4. QED
    BY <2>2, <2>3 DEF SlotUse
<1>5. CASE \E slot \in pass.writes : \E u \in ToSet(c.colors[slot].resolve) : x \in ColorUses(u, "color")
  <2>0. PICK slot \in pass.writes : \E u \in ToSet(c.colors[slot].resolve) : x \in ColorUses(u, "color")
    BY <1>5
  <2>1. PICK u \in ToSet(c.colors[slot].resolve) : x \in ColorUses(u, "color")
    BY <2>0
  <2>2. slot \in DOMAIN c.colors /\ u \in Units /\ "color" \in LayoutNames
    BY <1>1, <1>2, ToSetIn, TransferLayouts
  <2>3. x \in UseType /\ x.on = u /\ x.layout = "color"
    BY <2>1, <2>2, AttachmentUse
  <2>4. QED
    BY <2>1, <2>2, <2>3 DEF ResolveUse, Resolved
<1>6. CASE \E slot \in pass.inputs : x = Image(c.colors[slot].on, "fragment", "input_read", "general")
  <2>1. PICK slot \in pass.inputs : x = Image(c.colors[slot].on, "fragment", "input_read", "general")
    BY <1>6
  <2>2. slot \in DOMAIN c.colors /\ c.colors[slot].on \in Units
    BY <1>1, <1>2
  <2>3. x \in UseType /\ x.on = c.colors[slot].on /\ x.layout = "general"
    BY <2>1, <2>2, AttachmentUse
  <2>4. QED
    BY <2>1, <2>2, <2>3 DEF SlotUse
<1>7. CASE \E u \in ToSet(c.depth) : x \in DepthUses(u)
  <2>1. PICK u \in ToSet(c.depth) : x \in DepthUses(u)
    BY <1>7
  <2>2. x \in UseType /\ x.on = u /\ x.layout = "depth"
    BY <1>2, <2>1, AttachmentUse
  <2>3. QED
    BY <2>1, <2>2 DEF DepthUse
<1>8. QED
  BY <1>4, <1>5, <1>6, <1>7 DEF SubpassOwn

\* In a subpass each attachment is used in one layout.
LEMMA SubpassOwnUses ==
  ASSUME NEW c, c.kind = "subpass", PassColors(c), SubpassesMatch(c), InitialsMatch(c),
         NEW k \in DOMAIN c.subpasses
  PROVE  AttachmentUses(SubpassOwn(c, k), Attached(Attachments(c)))
<1> DEFINE atts == ToSet(Attachments(c))
           own == SubpassOwn(c, k)
           slotAt(i) == ColorAttachment(c.colors[i].on, ColorIn(c, i))
<1>1. /\ \A i \in DOMAIN c.colors : slotAt(i) \in atts
      /\ \A u : Resolved(c, u) => ColorAttachment(u, "color") \in atts
      /\ \A u \in ToSet(c.depth) : DepthAttachment(u) \in atts
  BY AttachmentsAre DEF IsColorOf
<1>2. /\ \A i \in DOMAIN c.colors : slotAt(i).on = c.colors[i].on /\ slotAt(i).initial = ColorIn(c, i)
      /\ \A u : ColorAttachment(u, "color").on = u /\ ColorAttachment(u, "color").initial = "color"
      /\ \A u : DepthAttachment(u).on = u /\ DepthAttachment(u).initial = "depth"
  BY DEF ColorAttachment, DepthAttachment, Attachment
<1>3. /\ \A i : ColorIn(c, i) \in {"general", "color"}
      /\ \A i : ColorIn(c, i) = "color" => i \notin c.subpasses[k].inputs
  BY DEF ColorIn, ReadInPass
<1>4. \A i, j \in DOMAIN c.colors : c.colors[i].on = c.colors[j].on => i = j
  BY DEF SubpassesMatch
<1> HIDE DEF slotAt, atts, own
<1>5. \A x \in own : x \in UseType /\ (SlotUse(c, k, x) \/ ResolveUse(c, x) \/ DepthUse(c, x))
  BY SubpassOwnAre DEF own
<1>6. \A a, b \in atts : a.on = b.on => a.initial = b.initial
  BY DEF InitialsMatch, atts
<1>7. \A a \in atts : a.on \in Attached(Attachments(c))
  BY AttachedAre DEF atts
<1>8. ASSUME NEW x \in own PROVE x.on \in Attached(Attachments(c)) /\ x.layout \in LayoutNames
  <2>1. CASE SlotUse(c, k, x)
    BY <1>1, <1>2, <1>7, <2>1, TransferLayouts DEF SlotUse
  <2>2. CASE ResolveUse(c, x)
    BY <1>1, <1>2, <1>7, <2>2, TransferLayouts DEF ResolveUse
  <2>3. CASE DepthUse(c, x)
    BY <1>1, <1>2, <1>7, <2>3, TransferLayouts DEF DepthUse
  <2>4. QED
    BY <1>5, <2>1, <2>2, <2>3
<1>9. ASSUME NEW x \in own, NEW y \in own, x.on = y.on, SlotUse(c, k, x)
      PROVE  x.layout = y.layout
  <2>1. PICK i \in DOMAIN c.colors :
           x.on = c.colors[i].on /\ x.layout = IF i \in c.subpasses[k].inputs THEN "general" ELSE "color"
    BY <1>9 DEF SlotUse
  <2>2. CASE SlotUse(c, k, y)
    <3>1. PICK j \in DOMAIN c.colors :
             y.on = c.colors[j].on /\ y.layout = IF j \in c.subpasses[k].inputs THEN "general" ELSE "color"
      BY <2>2 DEF SlotUse
    <3>2. i = j
      BY <1>4, <1>9, <2>1, <3>1
    <3>3. QED
      BY <2>1, <3>1, <3>2
  <2>3. CASE ResolveUse(c, y)
    <3>1. ColorAttachment(y.on, "color") \in atts /\ slotAt(i) \in atts /\ y.layout = "color"
      BY <1>1, <2>1, <2>3 DEF ResolveUse
    <3>2. ColorIn(c, i) = "color"
      BY <1>2, <1>6, <1>9, <2>1, <3>1
    <3>3. QED
      BY <1>3, <2>1, <3>1, <3>2
  <2>4. CASE DepthUse(c, y)
    <3>1. DepthAttachment(y.on) \in atts /\ slotAt(i) \in atts
      BY <1>1, <2>1, <2>4 DEF DepthUse
    <3>2. ColorIn(c, i) = "depth"
      BY <1>2, <1>6, <1>9, <2>1, <3>1
    <3>3. QED
      BY <1>3, <3>2
  <2>5. QED
    BY <1>5, <2>2, <2>3, <2>4
<1>10. ASSUME NEW x \in own, NEW y \in own, x.on = y.on, ResolveUse(c, x), DepthUse(c, y)
       PROVE  FALSE
  <2>1. ColorAttachment(x.on, "color") \in atts /\ DepthAttachment(y.on) \in atts
    BY <1>1, <1>10 DEF ResolveUse, DepthUse
  <2>2. QED
    BY <1>2, <1>6, <1>10, <2>1
<1>11. ASSUME NEW x \in own, NEW y \in own, x.on = y.on PROVE x.layout = y.layout
  <2>1. CASE SlotUse(c, k, x) \/ SlotUse(c, k, y)
    BY <1>9, <1>11, <2>1
  <2>2. CASE ~SlotUse(c, k, x) /\ ~SlotUse(c, k, y)
    <3>1. (ResolveUse(c, x) /\ ResolveUse(c, y)) \/ (DepthUse(c, x) /\ DepthUse(c, y))
      BY <1>5, <1>10, <1>11, <2>2
    <3>2. QED
      BY <3>1 DEF ResolveUse, DepthUse
  <2>3. QED
    BY <2>1, <2>2
<1>12. QED
  BY <1>5, <1>8, <1>11 DEF AttachmentUses, own

\* The dependencies of the pass layout are of stages.
LEMMA SubpassDependenciesAre ==
  ASSUME NEW c, c.dependencies \in SUBSET HalSubpassDependency
  PROVE  \A b \in SubpassDependencies(c) : IsDependency(b)
<1>1. \A e \in c.dependencies : e.type \in {"color", "depth", "color_depth"}
  BY DEF HalSubpassDependency
<1>2. /\ \A t \in {"color", "depth", "color_depth"} : Producers[t] \subseteq Stages
      /\ {"fragment"} \cup AttachmentStages \subseteq Stages
  BY StageNames DEF Producers, AttachmentStages
<1>3. \A e \in c.dependencies :
         IsDependency(SubpassDependency(e.from, e.to, Producers[e.type], Produced[e.type],
                                        {"fragment"} \cup AttachmentStages,
                                        {"input_read"} \cup AttachmentAccesses))
  BY <1>1, <1>2 DEF SubpassDependency, IsDependency
<1>4. QED
  BY <1>3, PassDependencies DEF SubpassDependencies

\* The draws of a subpass command find what they are bound in what it binds.
LEMMA SubpassDrawsAre ==
  ASSUME NEW c, c.draws \in Seq(HalSubpassDraw)
  PROVE  /\ SubpassBound(c) \in Seq(Bindings)
         /\ \A w \in SubpassDraws(c) : w.binds \subseteq ToSet(SubpassBound(c)) /\ w.fetches \subseteq Fetches
<1> DEFINE n == Len(c.draws)
           lists == [i \in DOMAIN c.draws |-> c.draws[i].binds]
<1>1. n \in Nat /\ DOMAIN c.draws = 1 .. n /\ \A i \in 1 .. n : c.draws[i] \in HalSubpassDraw
  OBVIOUS
<1>2. \A x \in HalSubpassDraw : x.binds \in Seq(Bindings) /\ x.fetches \subseteq Fetches
  BY DEF HalSubpassDraw
<1>3. /\ DOMAIN lists = 1 .. n /\ lists = [i \in 1 .. n |-> lists[i]]
      /\ \A i \in 1 .. n : lists[i] = c.draws[i].binds
  BY <1>1
<1>4. SubpassBound(c) = FlattenSeq(lists)
  BY DEF SubpassBound
<1> HIDE DEF lists, n
<1>5. \A i \in 1 .. n : lists[i] \in Seq(Bindings)
  BY <1>1, <1>2, <1>3
<1>6. lists \in Seq(Seq(Bindings))
  BY <1>1, <1>3, <1>5, SequenceHas
<1>7. /\ SubpassBound(c) \in Seq(Bindings)
      /\ \A x : x \in ToSet(SubpassBound(c)) <=> \E i \in 1 .. n : x \in ToSet(lists[i])
  BY <1>3, <1>4, <1>6, FlattenHas
<1>8. ASSUME NEW w \in SubpassDraws(c)
      PROVE  w.binds \subseteq ToSet(SubpassBound(c)) /\ w.fetches \subseteq Fetches
  <2>1. PICK x \in ToSet(c.draws) : w = [x EXCEPT !.binds = ToSet(x.binds)]
    BY DEF SubpassDraws
  <2>2. PICK i \in 1 .. n : x = c.draws[i]
    BY <1>1, <2>1 DEF ToSet
  <2>3. x \in HalSubpassDraw
    BY <1>1, <2>2
  <2>4. w.binds = ToSet(x.binds) /\ w.fetches = x.fetches
    BY <2>1, <2>3 DEF HalSubpassDraw
  <2>5. x.binds = lists[i]
    BY <1>3, <2>2
  <2>6. QED
    BY <1>2, <1>7, <2>3, <2>4, <2>5
<1>9. QED
  BY <1>7, <1>8

\* A pass of several subpasses, as core validates it, keeps what a command promises, but
\* for buffer races between its own subpasses.
LEMMA SubpassRenderPassKeeps ==
  ASSUME NEW d, Fine(d), NEW c, CommandWritesBuffer(c) => Prepared(d), c.kind = "subpass",
         c.colors \in Seq([on : Units, resolve : Seq(Units)]), c.depth \in Seq(Units),
         c.subpasses \in Seq(HalSubpassLayout), c.dependencies \in SUBSET HalSubpassDependency,
         c.draws \in Seq(HalSubpassDraw), AttachmentsMatch(c), SubpassesMatch(c),
         \A w \in DrawsOf(c) : BindGroupsMatch(w)
  PROVE  /\ Fine(SubpassRenderPass(d, c))
         /\ SubpassesApart(SubpassesUse(c)) => NoNewRace(SubpassRenderPass(d, c), d)
<1> DEFINE atts == Attachments(c)
           cols == ColorAttachments(c)
           attached == Attached(atts)
           bound == SubpassBound(c)
           draws == SubpassDraws(c)
           uses == SubpassesUse(c)
           B == WrittenIn(draws)
           writes == \E w \in draws : WritableIsBound(w.pipeline.writable, w.binds)
<1>1. PassColors(c)
  <2> DEFINE Slot == [on : Units, resolve : Seq(Units)]
  <2>1. \A x \in Slot : x.on \in Units /\ x.resolve \in Seq(Units)
    OBVIOUS
  <2> HIDE DEF Slot
  <2>2. c.colors \in Seq(Slot)
    BY DEF Slot
  <2>3. /\ Len(c.colors) \in Nat /\ DOMAIN c.colors = 1 .. Len(c.colors)
        /\ \A i \in DOMAIN c.colors : c.colors[i] \in Slot
    BY <2>2
  <2>4. QED
    BY <2>1, <2>3 DEF PassColors
<1>2. InitialsMatch(c) /\ NotBound(c)
  BY MatchIs
<1>3. /\ atts \in Seq(AttachmentType) /\ cols \in Seq(AttachmentType)
      /\ Alike(atts) /\ ColorsCover(atts, cols) /\ attached \in SUBSET Units
  BY <1>1, <1>2, AttachmentsAre, ColorAttachmentsAre, AttachmentsAlike, AttachedAre
<1>4. DrawsOf(c) = draws
  BY DEF DrawsOf
<1>5. bound \in Seq(Bindings) /\ \A w \in draws : DrawIs(w, bound, attached)
  BY <1>2, <1>4, SubpassDrawsAre DEF DrawIs, NotBound
<1>6. /\ B \in SUBSET Buffers /\ writes \in BOOLEAN
      /\ B # {} => writes /\ Prepared(d)
  <2>1. B # {} => \E w \in draws : MayWrite(w)
    BY DEF WrittenIn
  <2>2. \A w \in draws : MayWrite(w) => WritableIsBound(w.pipeline.writable, w.binds)
    BY DEF MayWrite, WritableIsBound, BufferWritable
  <2>3. (\E w \in draws : MayWrite(w)) => CommandWritesBuffer(c)
    BY DEF CommandWritesBuffer, MayWrite
  <2>4. B \in SUBSET Buffers
    BY DEF WrittenIn
  <2>5. QED
    BY <2>1, <2>2, <2>3, <2>4
<1>7. SubpassRenderPass(d, c) = AroundPass(d, atts, cols, bound, SubpassDependencies(c), uses, writes)
  BY DEF SubpassRenderPass, SubpassBound, SubpassesUse
<1>8. Len(uses) \in Nat /\ 1 .. Len(uses) = DOMAIN c.subpasses /\ DOMAIN uses = DOMAIN c.subpasses
  <2>1. DOMAIN c.subpasses = 1 .. Len(c.subpasses) /\ Len(c.subpasses) \in Nat
    OBVIOUS
  <2>2. DOMAIN uses = 1 .. Len(c.subpasses)
    BY <2>1 DEF SubpassesUse
  <2>3. Len(uses) = Len(c.subpasses)
    BY <2>1 DEF SubpassesUse
  <2>4. QED
    BY <2>1, <2>2, <2>3
<1> HIDE DEF atts, cols, attached, bound, draws, uses, B, writes
<1>9. PassWillBeGiven(attached, bound, uses, B)
  <2>1. ASSUME NEW r, BoundReady(r, bound, attached), NEW k \in DOMAIN c.subpasses
        PROVE  SubpassIsGiven(r, attached, uses[k], B)
    <3>1. uses[k] = SubpassOwn(c, k) \cup DrawUses(DrawsIn(c, k), bound)
      BY SubpassUsesAre DEF uses, SubpassesUse, bound
    <3>2. AttachmentUses(SubpassOwn(c, k), attached)
      BY <1>1, <1>2, SubpassOwnUses DEF attached, atts
    <3>3. DrawsIn(c, k) \subseteq draws
      BY DEF DrawsIn, draws
    <3>4. WrittenIn(DrawsIn(c, k)) \subseteq B
      BY <3>3 DEF WrittenIn, B
    <3>5. \A w \in DrawsIn(c, k) : DrawIs(w, bound, attached)
      BY <1>5, <3>3
    <3>6. attached \in SUBSET Units /\ bound \in Seq(Bindings) /\ BoundReady(r, bound, attached)
      BY <1>3, <1>5, <2>1
    <3>7. SubpassIsGiven(r, attached, SubpassOwn(c, k) \cup DrawUses(DrawsIn(c, k), bound), B)
      BY <3>2, <3>4, <3>5, <3>6, SubpassGiven
    <3>8. QED
      BY <3>1, <3>7
  <2>2. QED
    BY <1>8, <2>1 DEF PassWillBeGiven, PassIsGiven
<1>10. \A b \in SubpassDependencies(c) : IsDependency(b)
  BY SubpassDependenciesAre
<1>11. PassWillBeGiven(Attached(atts), bound, uses, B)
  BY <1>9 DEF attached
<1>12. LET e == AroundPass(d, atts, cols, bound, SubpassDependencies(c), uses, writes) IN
       Fine(e) /\ (SubpassesApart(uses) => NoNewRace(e, d))
  BY <1>3, <1>5, <1>6, <1>10, <1>11, AroundPassKeeps
<1>13. QED
  BY <1>7, <1>12 DEF uses

-----------------------------------------------------------------------------
(* Commands and submissions                                                *)

\* No subpass uses a buffer that another subpass of the pass writes.
Apart(c) == c.kind = "subpass" => SubpassesApart(SubpassesUse(c))

\* Commands are as HalCopy has them and as core validates them.
IsCommand(c) ==
  /\ c \in HalCopy /\ \A w \in DrawsOf(c) : BindGroupsMatch(w)
  /\ c.kind \in {"render", "subpass"} => AttachmentsMatch(c)
  /\ c.kind = "subpass" => SubpassesMatch(c)

\* Every command keeps what a command promises.
LEMMA EncodeKeeps ==
  ASSUME NEW d, Fine(d), NEW c, IsCommand(c), CommandWritesBuffer(c) => Prepared(d)
  PROVE  Fine(Encode(d, c)) /\ (Apart(c) => NoNewRace(Encode(d, c), d))
<1>1. CASE c.kind = "buffer_copy"
  <2>1. c.from \in Buffers /\ c.to \in Buffers /\ CommandWritesBuffer(c)
    BY <1>1 DEF IsCommand, HalCopy, CommandWritesBuffer
  <2>2. QED
    BY <1>1, <2>1, BufferCopyKeeps DEF Encode, Keeps
<1>2. CASE c.kind = "buffer_clear"
  <2>1. c.to \in Buffers /\ CommandWritesBuffer(c)
    BY <1>2 DEF IsCommand, HalCopy, CommandWritesBuffer
  <2>2. QED
    BY <1>2, <2>1, BufferClearKeeps DEF Encode, Keeps
<1>3. CASE c.kind = "resolve"
  <2>1. c.to \in Buffers /\ CommandWritesBuffer(c)
    BY <1>3 DEF IsCommand, HalCopy, CommandWritesBuffer
  <2>2. QED
    BY <1>3, <2>1, ResolveKeeps DEF Encode, Keeps
<1>4. CASE c.kind = "clear_texture"
  <2>1. c.units \in SUBSET Units
    BY <1>4 DEF IsCommand, HalCopy
  <2>2. QED
    BY <1>4, <2>1, ClearTextureKeeps DEF Encode, Keeps
<1>5. CASE c.kind = "buffer_to_texture"
  <2>1. c.from \in Buffers /\ c.units \in SUBSET Units
    BY <1>5 DEF IsCommand, HalCopy
  <2>2. QED
    BY <1>5, <2>1, BufferToTextureKeeps DEF Encode, Keeps
<1>6. CASE c.kind = "texture_to_buffer"
  <2>1. c.to \in Buffers /\ c.units \in SUBSET Units /\ CommandWritesBuffer(c)
    BY <1>6 DEF IsCommand, HalCopy, CommandWritesBuffer
  <2>2. QED
    BY <1>6, <2>1, TextureToBufferKeeps DEF Encode, Keeps
<1>7. CASE c.kind = "texture_to_texture"
  <2>1. c.from \in SUBSET Units /\ c.to \in SUBSET Units
    BY <1>7 DEF IsCommand, HalCopy
  <2>2. QED
    BY <1>7, <2>1, TextureToTextureKeeps DEF Encode, Keeps
<1>8. CASE c.kind = "compute"
  <2>1. c.pipeline \in Pipelines /\ c.binds \in Seq(Bindings) /\ c.indirect \in SUBSET Buffers
    BY <1>8 DEF IsCommand, HalCopy
  <2>2. BindGroupsMatch([pipeline |-> c.pipeline, binds |-> ToSet(c.binds)])
    BY <1>8 DEF IsCommand, DrawsOf
  <2>3. Keeps(ComputePass(d, c), d)
    BY <1>8, <2>1, <2>2, ComputePassKeeps
  <2>4. QED
    BY <1>8, <2>3 DEF Encode, Keeps
<1>9. CASE c.kind = "render"
  <2>1. /\ c.colors \in Seq([on : Units, fetch : BOOLEAN, resolve : Seq(Units)])
        /\ c.depth \in Seq(Units) /\ c.stream \in Seq(StreamCommand)
    BY <1>9 DEF IsCommand, HalCopy
  <2>2. AttachmentsMatch(c) /\ \A w \in DrawsOf(c) : BindGroupsMatch(w)
    BY <1>9 DEF IsCommand
  <2>3. Keeps(RenderPass(d, c), d)
    BY <1>9, <2>1, <2>2, RenderPassKeeps
  <2>4. QED
    BY <1>9, <2>3 DEF Encode, Keeps
<1>10. CASE c.kind = "subpass"
  <2>1. /\ c.colors \in Seq([on : Units, resolve : Seq(Units)]) /\ c.depth \in Seq(Units)
        /\ c.subpasses \in Seq(HalSubpassLayout) /\ c.dependencies \in SUBSET HalSubpassDependency
        /\ c.draws \in Seq(HalSubpassDraw)
    BY <1>10 DEF IsCommand, HalCopy
  <2>2. AttachmentsMatch(c) /\ SubpassesMatch(c) /\ \A w \in DrawsOf(c) : BindGroupsMatch(w)
    BY <1>10 DEF IsCommand
  <2>3. /\ Fine(SubpassRenderPass(d, c))
        /\ SubpassesApart(SubpassesUse(c)) => NoNewRace(SubpassRenderPass(d, c), d)
    BY <1>10, <2>1, <2>2, SubpassRenderPassKeeps
  <2>4. QED
    BY <1>10, <2>3 DEF Encode, Apart
<1>11. c.kind \in {"buffer_copy", "buffer_clear", "resolve", "clear_texture", "buffer_to_texture",
                   "texture_to_buffer", "texture_to_texture", "compute", "render", "subpass"}
  BY DEF IsCommand, HalCopy
<1>12. QED
  BY <1>1, <1>2, <1>3, <1>4, <1>5, <1>6, <1>7, <1>8, <1>9, <1>10, <1>11

\* A recorded command, with the barrier before it.
LEMMA RecordKeeps ==
  ASSUME NEW c \in Commands, Fine(recorded), Record(c)
  PROVE  Fine(recorded') /\ (Apart(c) => NoNewRace(recorded', recorded))
<1> DEFINE d == IF CommandWritesBuffer(c) THEN RecordMemoryBarrier(recorded, BufferReadToWrite) ELSE recorded
<1>1. IsCommand(c)
  BY CommandsAssumption DEF IsCommand
<1>2. Keeps(d, recorded) /\ (CommandWritesBuffer(c) => Prepared(d))
  <2>1. CASE CommandWritesBuffer(c)
    <3>1. Keeps(RecordMemoryBarrier(recorded, BufferReadToWrite), recorded)
      BY NamedBarriers, BarrierKeeps DEF RecordMemoryBarrier
    <3>2. Prepared(RecordMemoryBarrier(recorded, BufferReadToWrite))
      BY PreparedBy DEF Fine
    <3>3. QED
      BY <2>1, <3>1, <3>2
  <2>2. CASE ~CommandWritesBuffer(c)
    BY <2>2 DEF Keeps, NoNewRace
  <2>3. QED
    BY <2>1, <2>2
<1>3. recorded' = Encode(d, c)
  BY DEF Record
<1> HIDE DEF d
<1>4. Fine(Encode(d, c)) /\ (Apart(c) => NoNewRace(Encode(d, c), d))
  BY <1>1, <1>2, EncodeKeeps DEF Keeps
<1>5. QED
  BY <1>2, <1>3, <1>4 DEF Keeps, NoNewRace

\* What was submitted is seen by the host.
Shown(d) == \A b \in Buffers : \A p \in d.past[b] : IsWrite(p.access) => <<"host", "host_read">> \in p.visible

\* The barrier at the end of a command buffer shows the host all that was written.
LEMMA SubmitKeeps ==
  ASSUME NEW d, Fine(d)
  PROVE  LET e == RecordMemoryBarrier(d, GpuWriteToHostRead) IN Keeps(e, d) /\ Shown(e)
<1> DEFINE b == GpuWriteToHostRead
           e == RecordMemoryBarrier(d, b)
<1>1. e = Barrier(d, b, Resources) /\ IsDependency(b)
  BY NamedBarriers DEF RecordMemoryBarrier
<1>2. d \in Device /\ Settled(d)
  BY DEF Fine
<1>3. b.src = AllCommands /\ b.src_access = MemoryWrite /\ b.dst = {"host"} /\ b.dst_access = {"host_read"}
  BY DEF GpuWriteToHostRead, Dependency
<1>4. Keeps(e, d)
  BY <1>1, BarrierKeeps
<1>5. \A r \in Resources : \A q \in e.past[r] : BarrieredBy(d, b, Resources, r, q)
  BY <1>1, <1>2, BarrierEffect
<1>6. <<"host", "host_read">> \in Scope(b.dst, b.dst_access)
  BY <1>3, ScopeIs DEF Accesses
<1> HIDE DEF e, b
<1>7. ASSUME NEW r \in Buffers, NEW q \in e.past[r], IsWrite(q.access)
      PROVE  <<"host", "host_read">> \in q.visible
  <2>1. r \in Resources
    BY BuffersAre
  <2>2. PICK p \in d.past[r] : q = Barriered(p, b, TRUE)
    BY <1>5, <2>1 DEF BarrieredBy
  <2>3. p \in PastAccess
    BY <1>2, <2>1 DEF Device
  <2>4. q.access = p.access
    BY <1>1, <2>2, <2>3, BarrieredExtends DEF Extends
  <2>5. <<p.stage, p.access>> \in BufferScope /\ p.access \in Writes
    BY <1>2, <1>7, <2>4 DEF Settled, BuffersNear, IsWrite
  <2>6. p.stage \in BufferReaders /\ p.access \in Accesses[p.stage] /\ p.stage \in DOMAIN Accesses
    BY <2>5, BufferScopeIs
  <2>7. p.stage \in AllCommands
    BY <2>6, StageNames DEF BufferReaders
  <2>8. <<p.stage, p.access>> \in Scope(b.src, b.src_access)
    BY <1>3, <2>5, <2>6, <2>7, ScopeIs DEF MemoryWrite
  <2>9. Scope(b.dst, b.dst_access) \subseteq q.visible
    BY <1>1, <2>2, <2>3, <2>8, BarrieredShows
  <2>10. QED
    BY <1>6, <2>9
<1>8. QED
  BY <1>4, <1>7 DEF Shown, e, b

-----------------------------------------------------------------------------
(* The inductive invariant                                                 *)

BarriersInv == Fine(recorded) /\ Fine(committed) /\ Shown(committed)

\* The invariant holds before anything is recorded.
LEMMA EmptyFine == Fine(Empty) /\ Shown(Empty)
<1>1. Empty \in Device /\ Outside(Empty)
  BY EmptyType
<1>2. \A r \in Resources : Empty.past[r] = {}
  BY DEF Empty
<1>3. Told(Empty)
  BY DEF Empty, Told
<1>4. \A b \in Buffers : Empty.past[b] = {}
  BY <1>2, BuffersAre
<1>5. Settled(Empty) /\ Shown(Empty)
  BY <1>4 DEF Settled, BuffersNear, Shown
<1>6. QED
  BY <1>1, <1>3, <1>5 DEF Fine

\* The invariant holds.
LEMMA InvHolds == Spec => []BarriersInv
<1>1. Init => BarriersInv
  BY EmptyFine DEF Init, BarriersInv
<1>2. BarriersInv /\ [Next]_vars => BarriersInv'
  <2> SUFFICES ASSUME BarriersInv, [Next]_vars PROVE BarriersInv'
    OBVIOUS
  <2>1. ASSUME NEW c \in Commands, Record(c) PROVE BarriersInv'
    <3>1. Fine(recorded')
      BY <2>1, RecordKeeps DEF BarriersInv
    <3>2. committed' = committed
      BY <2>1 DEF Record
    <3>3. Fine(committed') /\ Shown(committed')
      BY <3>2 DEF BarriersInv
    <3>4. QED
      BY <3>1, <3>3 DEF BarriersInv
  <2>2. CASE Submit
    <3>1. committed' = RecordMemoryBarrier(recorded, GpuWriteToHostRead) /\ recorded' = committed'
      BY <2>2 DEF Submit
    <3>2. Fine(committed') /\ Shown(committed')
      BY <3>1, SubmitKeeps DEF BarriersInv, Keeps
    <3>3. QED
      BY <3>1, <3>2 DEF BarriersInv
  <2>3. CASE Fail
    BY <2>3 DEF Fail, BarriersInv
  <2>4. CASE UNCHANGED vars
    BY <2>4 DEF vars, BarriersInv
  <2>5. QED
    BY <2>1, <2>2, <2>3, <2>4 DEF Next
<1>3. QED
  BY <1>1, <1>2, PTL DEF Spec

\* The barriers, image layouts and passes of the Vulkan backend name the layout
\* each image is in, and SubresourceLayouts and its overlay tell it.
THEOREM LayoutsAlwaysHold == Spec => []LayoutsHold
<1>1. ASSUME NEW d \in Device, Told(d) PROVE d.mislaid = {} /\ d.states = d.layout
  <2>1. d.states = [u \in Units |-> d.states[u]] /\ d.layout = [u \in Units |-> d.layout[u]]
    BY DEF Device
  <2>2. QED
    BY <1>1, <2>1 DEF Told
<1>2. BarriersInv => LayoutsHold
  BY <1>1 DEF BarriersInv, Fine, LayoutsHold
<1>3. QED
  BY <1>2, InvHolds, PTL

\* What a finished submission wrote to buffers is visible to the host.
THEOREM HostAlwaysSees == Spec => []HostSees
<1>1. BarriersInv => HostSees
  BY DEF BarriersInv, Shown, HostSees
<1>2. QED
  BY <1>1, InvHolds, PTL

\* No two accesses to a buffer race.
BuffersOrdered == \A b \in Buffers : b \notin recorded.races /\ b \notin committed.races

\* Two accesses to a buffer, one of them a write, are ordered by the barriers between
\* them, and the second sees what the first wrote, whatever is recorded, submitted or
\* dropped, if the subpasses of a pass leave each other's buffers alone.
THEOREM BuffersNeverRace ==
  ASSUME \A c \in Commands : Apart(c)
  PROVE  Spec => []BuffersOrdered
<1>1. Init => BuffersOrdered
  BY DEF Init, Empty, BuffersOrdered
<1>2. BarriersInv /\ BuffersOrdered /\ [Next]_vars => BuffersOrdered'
  <2> SUFFICES ASSUME BarriersInv, BuffersOrdered, [Next]_vars PROVE BuffersOrdered'
    OBVIOUS
  <2>1. ASSUME NEW c \in Commands, Record(c) PROVE BuffersOrdered'
    <3>1. NoNewRace(recorded', recorded)
      BY <2>1, RecordKeeps DEF BarriersInv
    <3>2. committed' = committed
      BY <2>1 DEF Record
    <3>3. QED
      BY <3>1, <3>2 DEF BuffersOrdered, NoNewRace
  <2>2. CASE Submit
    <3>1. committed' = RecordMemoryBarrier(recorded, GpuWriteToHostRead) /\ recorded' = committed'
      BY <2>2 DEF Submit
    <3>2. NoNewRace(committed', recorded)
      BY <3>1, SubmitKeeps DEF BarriersInv, Keeps
    <3>3. QED
      BY <3>1, <3>2 DEF BuffersOrdered, NoNewRace
  <2>3. CASE Fail
    BY <2>3 DEF Fail, BuffersOrdered
  <2>4. CASE UNCHANGED vars
    BY <2>4 DEF vars, BuffersOrdered
  <2>5. QED
    BY <2>1, <2>2, <2>3, <2>4 DEF Next
<1>3. QED
  BY <1>1, <1>2, InvHolds, PTL DEF Spec
-----------------------------------------------------------------------------
(* Accesses to images                                                      *)

\* The first scope of a transition from a layout, and the accesses made in it.
Source(l) == Dependency(StageMaskForLayout[l], AccessMaskForLayout[l], {}, {})
LayoutScope(l) == Scope(StageMaskForLayout[l], AccessMaskForLayout[l])

\* The layouts that commands other than render passes use images in.
WritableLayouts == {"transfer_dst", "general"}
ReadOnlyLayouts == {"transfer_src", "shader_read"}
UsedLayouts == WritableLayouts \cup ReadOnlyLayouts

\* A transition from layout l waits for p.
Covered(p, l) ==
  Reaches(p, Source(l), TRUE) /\ (IsWrite(p.access) => Avails(p, Source(l), TRUE))

\* Whatever is done in layout l is ordered after p and sees what p wrote.
Usable(p, l) ==
  /\ IsWrite(p.access) => LayoutScope(l) \subseteq p.visible
  /\ l \in WritableLayouts =>
       /\ StageMaskForLayout[l] \subseteq p.after
       /\ IsWrite(p.access) => StageMaskForLayout[l] \subseteq p.avail

\* Between commands: the next transition waits for p, and as none is made before
\* reads in a layout for reading, they need not wait for p.
Held(p, l) == Covered(p, l) /\ (l \in ReadOnlyLayouts => Usable(p, l))

\* Who sees more waits for it as well.
LEMMA HeldExtends ==
  ASSUME NEW q, NEW p, Extends(q, p), NEW l
  PROVE  /\ Covered(p, l) => Covered(q, l)
         /\ Usable(p, l) => Usable(q, l)
         /\ Held(p, l) => Held(q, l)
<1>1. Covered(p, l) => Covered(q, l)
  BY DEF Extends, Covered, Reaches, Avails
<1>2. Usable(p, l) => Usable(q, l)
  BY DEF Extends, Usable
<1>3. QED
  BY <1>1, <1>2 DEF Held

\* Seen later still.
LEMMA ExtendsOn ==
  ASSUME NEW p, NEW q, NEW r, Extends(q, p), Extends(r, q)
  PROVE  Extends(r, p)
BY DEF Extends

\* Larger masks stand for more.
LEMMA MasksGrow ==
  ASSUME NEW S, NEW T, S \subseteq T, NEW A, NEW B, A \subseteq B
  PROVE  /\ Earlier(S) \subseteq Earlier(T) /\ Later(S) \subseteq Later(T)
         /\ Scope(S, A) \subseteq Scope(T, B)
BY DEF Earlier, Later, Scope

\* A dependency from all that a transition from layout l waits for has in its first
\* scope what that transition has.
LEMMA CoveredReaches ==
  ASSUME NEW p, NEW l, Covered(p, l), NEW b,
         StageMaskForLayout[l] \subseteq b.src, AccessMaskForLayout[l] \subseteq b.src_access
  PROVE  Reaches(p, b, TRUE) /\ (IsWrite(p.access) => Avails(p, b, TRUE))
<1>1. /\ Earlier(StageMaskForLayout[l]) \subseteq Earlier(b.src)
      /\ LayoutScope(l) \subseteq Scope(b.src, b.src_access)
  BY MasksGrow DEF LayoutScope
<1>2. Source(l).src = StageMaskForLayout[l] /\ Source(l).src_access = AccessMaskForLayout[l]
  BY DEF Source, Dependency
<1>3. QED
  BY <1>1, <1>2 DEF Covered, Reaches, Avails, LayoutScope

\* What is in the first scope of a dependency is ordered before its second scope, and
\* what it makes available is visible there.
LEMMA AfterOrders ==
  ASSUME NEW p \in PastAccess, NEW deps, NEW v, NEW own, NEW b \in deps, Reaches(v[b], b, own[b]),
         NEW q, q = After(p, deps, v, own, TRUE)
  PROVE  /\ Later(b.dst) \subseteq q.after
         /\ Avails(v[b], b, own[b]) =>
              Later(b.dst) \subseteq q.avail /\ Scope(b.dst, b.dst_access) \subseteq q.visible
<1> DEFINE reach == {d \in deps : Reaches(v[d], d, own[d])}
           avail == {d \in reach : Avails(v[d], d, TRUE /\ own[d])}
<1>1. q = [p EXCEPT !.after = @ \cup UNION {Later(d.dst) : d \in reach},
                    !.avail = @ \cup UNION {Later(d.dst) : d \in avail},
                    !.visible = @ \cup UNION {Scope(d.dst, d.dst_access) : d \in avail}]
  BY DEF After
<1>2. b \in reach /\ (Avails(v[b], b, own[b]) => b \in avail)
  BY DEF Avails
<1> HIDE DEF reach, avail
<1>3. /\ q.after = p.after \cup UNION {Later(d.dst) : d \in reach}
      /\ q.avail = p.avail \cup UNION {Later(d.dst) : d \in avail}
      /\ q.visible = p.visible \cup UNION {Scope(d.dst, d.dst_access) : d \in avail}
  BY <1>1 DEF PastAccess
<1>4. QED
  BY <1>2, <1>3

\* The masks of layouts, and what may be done in them.
LEMMA LayoutScopes ==
  /\ \A l \in LayoutNames : \A s, a :
        <<s, a>> \in LayoutScope(l) => s \in StageMaskForLayout[l] /\ a \in AccessMaskForLayout[l]
  /\ \A l \in ReadOnlyLayouts : \A a \in AccessMaskForLayout[l] : ~IsWrite(a)
  /\ UsedLayouts \subseteq LayoutNames /\ WritableLayouts \cap ReadOnlyLayouts = {}
  /\ \A l \in LayoutNames : StageMaskForLayout[l] # {}
<1>1. \A l \in LayoutNames : \A s, a :
        <<s, a>> \in LayoutScope(l) => s \in StageMaskForLayout[l] /\ a \in AccessMaskForLayout[l]
  BY ScopeIs DEF LayoutScope
<1>2. \A l \in ReadOnlyLayouts : \A a \in AccessMaskForLayout[l] : ~IsWrite(a)
  BY DEF ReadOnlyLayouts, AccessMaskForLayout, IsWrite, Writes
<1>3. UsedLayouts \subseteq LayoutNames /\ WritableLayouts \cap ReadOnlyLayouts = {}
  BY DEF UsedLayouts, WritableLayouts, ReadOnlyLayouts, LayoutNames
<1>4. \A l \in LayoutNames : StageMaskForLayout[l] # {}
  BY DEF LayoutNames, StageMaskForLayout
<1>5. QED
  BY <1>1, <1>2, <1>3, <1>4

\* A transition to layout l that just ended.
LEMMA TransitionedUsable ==
  ASSUME NEW l \in LayoutNames, NEW deps, NEW b \in deps,
         b.dst = StageMaskForLayout[l], b.dst_access = AccessMaskForLayout[l],
         NEW at, NEW q, q = Transitioned(deps, at)
  PROVE  Usable(q, l) /\ Held(q, l)
<1>1. /\ Later(StageMaskForLayout[l]) \subseteq q.after /\ Later(StageMaskForLayout[l]) \subseteq q.avail
      /\ LayoutScope(l) \subseteq q.visible
  BY DEF Transitioned, LayoutScope
<1>2. StageMaskForLayout[l] \subseteq Later(StageMaskForLayout[l])
      /\ StageMaskForLayout[l] \subseteq Earlier(StageMaskForLayout[l])
  BY Masks, LayoutMasks
<1>3. Usable(q, l)
  BY <1>1, <1>2 DEF Usable
<1>4. PICK s : s \in StageMaskForLayout[l]
  BY LayoutScopes
<1>5. s \in Earlier(StageMaskForLayout[l]) \cap q.after /\ s \in Earlier(StageMaskForLayout[l]) \cap q.avail
  BY <1>1, <1>2, <1>4
<1>6. Source(l).src = StageMaskForLayout[l]
  BY DEF Source, Dependency
<1>7. Covered(q, l)
  BY <1>5, <1>6 DEF Covered, Reaches, Avails
<1>8. QED
  BY <1>3, <1>7 DEF Held

\* An access in layout l.
LEMMA AccessedHeld ==
  ASSUME NEW l \in LayoutNames, NEW p, <<p.stage, p.access>> \in LayoutScope(l)
  PROVE  Held(p, l)
<1>1. p.stage \in StageMaskForLayout[l] /\ p.access \in AccessMaskForLayout[l]
  BY LayoutScopes
<1>2. p.stage \in Earlier(StageMaskForLayout[l])
  BY <1>1, Masks, LayoutMasks
<1>3. Source(l).src = StageMaskForLayout[l] /\ Source(l).src_access = AccessMaskForLayout[l]
  BY DEF Source, Dependency
<1>4. Covered(p, l)
  BY <1>2, <1>3 DEF Covered, Reaches, Avails, LayoutScope
<1>5. l \in ReadOnlyLayouts => Usable(p, l)
  BY <1>1, LayoutScopes DEF Usable
<1>6. QED
  BY <1>4, <1>5 DEF Held

\* What is done in a layout is ordered after all that it is usable after.
LEMMA UsableOrders ==
  ASSUME NEW l \in UsedLayouts, NEW p, Usable(p, l), NEW s, NEW a, <<s, a>> \in LayoutScope(l)
  PROVE  ~Races(p, s, a)
<1>1. s \in StageMaskForLayout[l] /\ a \in AccessMaskForLayout[l]
  BY LayoutScopes
<1>2. IsWrite(a) => l \in WritableLayouts
  BY <1>1, LayoutScopes DEF UsedLayouts
<1>3. QED
  BY <1>1, <1>2 DEF Usable, Races

\* A barrier from layout l to layout new.
LEMMA CoveredUsable ==
  ASSUME NEW p \in PastAccess, NEW l, Covered(p, l), NEW b, IsDependency(b), NEW new \in LayoutNames,
         StageMaskForLayout[l] \subseteq b.src, AccessMaskForLayout[l] \subseteq b.src_access,
         b.dst = StageMaskForLayout[new], b.dst_access = AccessMaskForLayout[new]
  PROVE  Usable(Barriered(p, b, TRUE), new)
<1> DEFINE v == [d \in {b} |-> p]
           own == [d \in {b} |-> TRUE]
           q == Barriered(p, b, TRUE)
<1>1. Reaches(v[b], b, own[b]) /\ (IsWrite(p.access) => Avails(v[b], b, own[b]))
  BY CoveredReaches
<1>2. q = After(p, {b}, v, own, TRUE)
  BY DEF Barriered
<1> HIDE DEF v, own
<1>3. /\ Later(b.dst) \subseteq q.after
      /\ IsWrite(p.access) => Later(b.dst) \subseteq q.avail /\ Scope(b.dst, b.dst_access) \subseteq q.visible
  BY <1>1, <1>2, AfterOrders
<1>4. q.access = p.access
  BY BarrieredExtends DEF Extends
<1>5. StageMaskForLayout[new] \subseteq Later(b.dst)
  BY Masks, LayoutMasks
<1> HIDE DEF q
<1>6. QED
  BY <1>3, <1>4, <1>5 DEF Usable, LayoutScope, q

-----------------------------------------------------------------------------
(* Steps of a command on images                                            *)

\* Whatever is done to images next waits for what was done.
HeldIn(d) == \A u \in Units : \A p \in d.past[u] : Held(p, d.layout[u])
Calm(d) == d \in Device /\ Outside(d) /\ Told(d) /\ HeldIn(d)

\* No barrier is needed any more for what is done to these in their layouts.
ReadyIn(d, V) ==
  \A u \in V : d.layout[u] \in UsedLayouts => \A p \in d.past[u] : Usable(p, d.layout[u])

\* Nothing but buffers races that did not, and the temporary buffer is left alone.
NoImageRace(e, d) == \A r \in Units \cup {Temporary} : r \in e.races => r \in d.races
TemporaryKept(e, d) == \A q \in e.past[Temporary] : \E p \in d.past[Temporary] : Extends(q, p)

\* What a step promises of images.
Stays(e, d) == Calm(e) /\ NoImageRace(e, d) /\ TemporaryKept(e, d)

\* Steps that promise it do so together.
LEMMA StaysOn ==
  ASSUME NEW d, NEW e, NEW f, Stays(e, d), Stays(f, e)
  PROVE  Stays(f, d)
<1>1. TemporaryKept(f, d)
  BY ExtendsOn DEF Stays, TemporaryKept
<1>2. QED
  BY <1>1 DEF Stays, NoImageRace

\* What is calm stays so.
LEMMA StaysSelf ==
  ASSUME NEW d, Calm(d)
  PROVE  Stays(d, d)
BY DEF Stays, NoImageRace, TemporaryKept, Extends

\* A barrier leaves accesses as they were or seen by more.
LEMMA BarrierExtends ==
  ASSUME NEW d \in Device, NEW b, IsDependency(b), NEW on
  PROVE  LET e == Barrier(d, b, on) IN
         /\ \A r \in Resources : \A q \in e.past[r] : \E p \in d.past[r] : Extends(q, p)
         /\ HeldIn(d) => HeldIn(e)
<1> DEFINE e == Barrier(d, b, on)
<1>1. e.layout = d.layout /\ \A r \in Resources : \A q \in e.past[r] : BarrieredBy(d, b, on, r, q)
  BY BarrierEffect
<1> HIDE DEF e
<1>2. \A r \in Resources : \A p \in d.past[r] : p \in PastAccess
  BY DEF Device
<1>3. \A r \in Resources : \A q \in e.past[r] : \E p \in d.past[r] : Extends(q, p)
  BY <1>1, <1>2, BarrieredExtends DEF BarrieredBy
<1>4. HeldIn(d) => HeldIn(e)
  BY <1>1, <1>3, HeldExtends, BuffersAre DEF HeldIn
<1>5. QED
  BY <1>3, <1>4 DEF e

\* A barrier promises it, and what was ready stays ready.
LEMMA BarrierStays ==
  ASSUME NEW d, Calm(d), NEW b, IsDependency(b), NEW on
  PROVE  LET e == Barrier(d, b, on) IN
         /\ Stays(e, d) /\ e.layout = d.layout
         /\ \A V \in SUBSET Units : ReadyIn(d, V) => ReadyIn(e, V)
<1> DEFINE e == Barrier(d, b, on)
<1>1. e \in Device /\ e.layout = d.layout /\ e.races = d.races
  BY BarrierEffect DEF Calm
<1>2. Outside(e) /\ Told(e)
  BY BarrierOutside, BarrierTold DEF Calm
<1>3. HeldIn(e) /\ \A r \in Resources : \A q \in e.past[r] : \E p \in d.past[r] : Extends(q, p)
  BY BarrierExtends DEF Calm
<1> HIDE DEF e
<1>4. \A V \in SUBSET Units : ReadyIn(d, V) => ReadyIn(e, V)
  BY <1>1, <1>3, HeldExtends, BuffersAre DEF ReadyIn
<1>5. TemporaryKept(e, d)
  BY <1>3, BuffersAre DEF TemporaryKept
<1>6. QED
  BY <1>1, <1>2, <1>3, <1>4, <1>5 DEF Stays, Calm, NoImageRace, e

\* A transition races only with what it does not wait for.
LEMMA TransitionRaces ==
  ASSUME NEW d \in Device, NEW units \in SUBSET Units, NEW new \in LayoutNames, Told(d), HeldIn(d)
  PROVE  \A r \in TransitionImageRange(d, units, new).races : r \in d.races
<1> DEFINE runs == Runs(d, units, new)
           bar(old) == ImageBarrier(d, units, new, old)
           Waits(p, b) == Awaited(p, {b}, [e \in {b} |-> p], [e \in {b} |-> TRUE])
           late == {u \in {u \in runs : d.states[u] # new} :
                      \E p \in d.past[u] : ~Waits(p, bar(d.states[u]))}
<1>1. TransitionImageRange(d, units, new).races = d.races \cup late
  BY DEF TransitionImageRange, Device, Runs, SourceStages, ImageBarrier
<1>2. ASSUME NEW u \in runs, NEW p \in d.past[u] PROVE Waits(p, bar(d.states[u]))
  <2> DEFINE b == bar(d.states[u])
  <2>1. u \in Units /\ d.states[u] = d.layout[u]
    BY DEF Runs, Told
  <2>2. Covered(p, d.states[u])
    BY <2>1 DEF HeldIn, Held
  <2>3. StageMaskForLayout[d.states[u]] \subseteq b.src /\ AccessMaskForLayout[d.states[u]] \subseteq b.src_access
    BY DEF ImageBarrier, SourceStages, Dependency
  <2> HIDE DEF b
  <2>4. Reaches(p, b, TRUE) /\ (IsWrite(p.access) => Avails(p, b, TRUE))
    BY <2>2, <2>3, CoveredReaches
  <2>5. Waits(p, b)
    BY <2>4 DEF Awaited
  <2>6. QED
    BY <2>5 DEF b
<1>3. late = {}
  BY <1>2
<1> HIDE DEF late
<1>4. QED
  BY <1>1, <1>3

\* A transition promises it, what was ready stays ready, and so is what it transitioned.
LEMMA TransitionStays ==
  ASSUME NEW d, Calm(d), NEW units \in SUBSET Units, NEW new \in LayoutNames
  PROVE  LET e == TransitionImageRange(d, units, new) IN
         /\ Stays(e, d) /\ InLayout(e, units, new) /\ LayoutsKept(e, d, units)
         /\ \A V \in SUBSET Units : ReadyIn(d, V) => ReadyIn(e, V \cup units)
<1> DEFINE e == TransitionImageRange(d, units, new)
           runs == Runs(d, units, new)
<1>1. /\ e \in Device
      /\ \A u \in Units : e.layout[u] = LayoutAfter(d, units, new, u)
      /\ \A r \in Resources : \A q \in e.past[r] : LeftBy(d, units, new, r, q)
  BY TransitionEffect DEF Calm
<1>2. Outside(e) /\ Told(e) /\ InLayout(e, units, new) /\ LayoutsKept(e, d, units)
  BY TransitionOutside, TransitionTold DEF Calm
<1>3. \A r \in e.races : r \in d.races
  BY TransitionRaces DEF Calm
<1>4. /\ \A old : IsDependency(ImageBarrier(d, units, new, old))
      /\ IsDependency(ExecutionBarrier(d, units, new))
  BY TransitionBarriers DEF Calm
<1>5. \A r \in Resources : \A p \in d.past[r] : p \in PastAccess
  BY DEF Calm, Device
<1> HIDE DEF e
<1>6. \A r \in Resources \ runs : \A q \in e.past[r] : \E p \in d.past[r] : Extends(q, p)
  <2>1. SUFFICES ASSUME NEW r \in Resources \ runs, NEW q \in e.past[r]
                 PROVE  \E p \in d.past[r] : Extends(q, p)
    OBVIOUS
  <2>2. PICK p \in d.past[r] : q = Barriered(p, ExecutionBarrier(d, units, new), FALSE)
    BY <1>1 DEF LeftBy
  <2>3. Extends(q, p)
    BY <1>4, <1>5, <2>2, BarrieredExtends
  <2>4. QED
    BY <2>3
<1>7. ASSUME NEW u \in runs, NEW q \in e.past[u] PROVE Held(q, new) /\ Usable(q, new)
  <2>1. u \in Units /\ u \in Resources /\ d.states[u] = d.layout[u] /\ d.layout[u] \in LayoutNames
    BY BuffersAre DEF Calm, Told, Device, Runs
  <2> DEFINE b == ImageBarrier(d, units, new, d.states[u])
  <2>2. /\ b.dst = StageMaskForLayout[new] /\ b.dst_access = AccessMaskForLayout[new]
        /\ StageMaskForLayout[d.states[u]] \subseteq b.src
        /\ AccessMaskForLayout[d.states[u]] \subseteq b.src_access
    BY DEF ImageBarrier, SourceStages, Dependency
  <2>3. IsDependency(b)
    BY <1>4
  <2> HIDE DEF b
  <2>4. CASE d.states[u] # new
    <3>1. q = Transitioned({b}, External)
      BY <1>1, <2>1, <2>4 DEF LeftBy, b
    <3>2. QED
      BY <2>2, <3>1, TransitionedUsable
  <2>5. CASE d.states[u] = new
    <3>1. PICK p \in d.past[u] : q = Barriered(p, b, TRUE)
      BY <1>1, <2>1, <2>5 DEF LeftBy, b
    <3>2. p \in PastAccess /\ Held(p, new)
      BY <1>5, <2>1, <2>5 DEF Calm, HeldIn
    <3>3. Covered(p, new)
      BY <3>2 DEF Held
    <3>4. Usable(q, new)
      BY <2>2, <2>3, <2>5, <3>1, <3>2, <3>3, CoveredUsable
    <3>5. Held(q, new)
      BY <2>3, <3>1, <3>2, BarrieredExtends, HeldExtends
    <3>6. QED
      BY <3>4, <3>5
  <2>6. QED
    BY <2>4, <2>5
<1>8. \A u \in Units : e.layout[u] = IF u \in runs THEN new ELSE d.layout[u]
  BY <1>1 DEF LayoutAfter
<1>9. runs \subseteq units /\ \A u \in units \ runs : d.layout[u] = new /\ new \notin WritableLayouts
  BY DEF Runs, NeedsBarrier, Calm, Told, WritableLayouts
<1> HIDE DEF runs
<1>10. HeldIn(e)
  <2>1. SUFFICES ASSUME NEW u \in Units, NEW q \in e.past[u] PROVE Held(q, e.layout[u])
    BY DEF HeldIn
  <2>2. CASE u \in runs
    BY <1>7, <1>8, <2>2
  <2>3. CASE u \notin runs
    <3>1. PICK p \in d.past[u] : Extends(q, p)
      BY <1>6, <2>3, BuffersAre
    <3>2. Held(p, d.layout[u])
      BY DEF Calm, HeldIn
    <3>3. QED
      BY <1>8, <2>3, <3>1, <3>2, HeldExtends
  <2>4. QED
    BY <2>2, <2>3
<1>11. ASSUME NEW V \in SUBSET Units, ReadyIn(d, V) PROVE ReadyIn(e, V \cup units)
  <2>1. SUFFICES ASSUME NEW u \in V \cup units, e.layout[u] \in UsedLayouts, NEW q \in e.past[u]
                 PROVE  Usable(q, e.layout[u])
    BY DEF ReadyIn
  <2>2. u \in Units
    OBVIOUS
  <2>3. CASE u \in runs
    BY <1>7, <1>8, <2>2, <2>3
  <2>4. CASE u \notin runs
    <3>1. PICK p \in d.past[u] : Extends(q, p)
      BY <1>6, <2>2, <2>4, BuffersAre
    <3>2. e.layout[u] = d.layout[u]
      BY <1>8, <2>2, <2>4
    <3>3. Usable(p, d.layout[u])
      <4>1. CASE u \in V
        BY <1>11, <2>1, <3>2, <4>1 DEF ReadyIn
      <4>2. CASE u \in units
        <5>1. d.layout[u] \in ReadOnlyLayouts
          BY <1>9, <2>1, <2>4, <3>2, <4>2 DEF UsedLayouts
        <5>2. QED
          BY <2>2, <5>1 DEF Calm, HeldIn, Held
      <4>3. QED
        BY <4>1, <4>2
    <3>4. QED
      BY <3>1, <3>2, <3>3, HeldExtends
  <2>5. QED
    BY <2>3, <2>4
<1>12. Temporary \in Resources \ runs
  BY <1>9, BuffersAre
<1>13. TemporaryKept(e, d)
  BY <1>6, <1>12 DEF TemporaryKept
<1>14. QED
  BY <1>1, <1>2, <1>3, <1>10, <1>11, <1>13 DEF Stays, Calm, NoImageRace, e

\* Uses that fit the layouts there are, of images that are ready.
Fits(x, l) == l \in UsedLayouts /\ <<x.stage, x.access>> \in LayoutScope(l)
FitIn(uses, d) == \A x \in uses : x.on \in Units => x.layout = d.layout[x.on] /\ Fits(x, x.layout)
UsedBy(uses) == {x.on : x \in uses}

\* Uses promise it, but for the temporary buffer, and what they do not use stays ready.
LEMMA UseCalm ==
  ASSUME NEW d, Calm(d), NEW uses \in SUBSET UseType, FitIn(uses, d), ReadyIn(d, UsedBy(uses) \cap Units),
         \A x \in uses : x.on = Temporary =>
            \A p \in d.past[Temporary] : ~Races(p, x.stage, x.access)
  PROVE  LET e == Use(d, uses) IN
         /\ Calm(e) /\ NoImageRace(e, d) /\ e.layout = d.layout
         /\ \A r \in Resources : \A p \in e.past[r] : KeptOrMade(d, uses, External, r, p)
         /\ \A V \in SUBSET Units : ReadyIn(d, V) /\ V \cap UsedBy(uses) = {} => ReadyIn(e, V)
<1> DEFINE e == Use(d, uses)
<1>0. External \in Int
  BY DEF External
<1>1. /\ e \in Device /\ e.layout = d.layout
      /\ \A r \in Resources : \A p \in e.past[r] : KeptOrMade(d, uses, External, r, p)
      /\ \A r \in e.races : r \in d.races \/ RacesWith(d, uses, {}, External, r)
  BY <1>0, UseInEffect DEF Calm, Use
<1>2. Outside(e)
  BY UseOutside DEF Calm
<1>3. Told(e)
  BY <1>0, UseTold DEF Calm, Use, FitIn, Names
<1> HIDE DEF e
<1>4. \A r \in Resources : \A p \in d.past[r] : p \in PastAccess /\ p.at = External
  BY DEF Calm, Device, Outside
<1>5. NoImageRace(e, d)
  <2>1. SUFFICES ASSUME NEW x \in uses, x.on \in Units \cup {Temporary}, NEW p \in d.past[x.on]
                 PROVE  ~Races(p, x.stage, x.access)
    <3>1. SUFFICES ASSUME NEW r \in Units \cup {Temporary}, NEW x \in uses, x.on = r, NEW p \in d.past[r],
                          Races(Seen(p, {}, External), x.stage, x.access)
                   PROVE  FALSE
      BY <1>1 DEF NoImageRace, RacesWith
    <3>2. p \in PastAccess /\ p.at = External /\ ~Races(p, x.stage, x.access)
      BY <1>4, <2>1, <3>1, BuffersAre
    <3>3. QED
      BY <3>1, <3>2, SeenOutside, ExtendsRaces
  <2>2. CASE x.on \in Units
    <3>1. Fits(x, d.layout[x.on])
      BY <2>2 DEF FitIn
    <3>2. Usable(p, d.layout[x.on])
      BY <2>1, <2>2, <3>1 DEF ReadyIn, Fits, UsedBy
    <3>3. QED
      BY <3>1, <3>2, UsableOrders DEF Fits
  <2>3. CASE x.on = Temporary
    BY <2>1, <2>3
  <2>4. QED
    BY <2>1, <2>2, <2>3
<1>6. HeldIn(e)
  <2>1. SUFFICES ASSUME NEW u \in Units, NEW p \in e.past[u] PROVE Held(p, d.layout[u])
    BY <1>1 DEF HeldIn
  <2>2. CASE p \in d.past[u]
    BY <2>2 DEF Calm, HeldIn
  <2>3. ASSUME NEW x \in uses, x.on = u, p = Accessed(x.stage, x.access, External) PROVE Held(p, d.layout[u])
    <3>1. Fits(x, d.layout[u])
      BY <2>3 DEF FitIn
    <3>2. p.stage = x.stage /\ p.access = x.access
      BY <2>3 DEF Accessed
    <3>3. QED
      BY <3>1, <3>2, AccessedHeld, LayoutScopes DEF Fits
  <2>4. QED
    BY <1>1, <2>2, <2>3, BuffersAre DEF KeptOrMade
<1>7. ASSUME NEW V \in SUBSET Units, ReadyIn(d, V), V \cap UsedBy(uses) = {} PROVE ReadyIn(e, V)
  <2>1. \A u \in V : \A p \in e.past[u] : p \in d.past[u]
    BY <1>1, <1>7, BuffersAre DEF KeptOrMade, UsedBy
  <2>2. QED
    BY <1>1, <1>7, <2>1 DEF ReadyIn
<1>8. QED
  BY <1>1, <1>2, <1>3, <1>5, <1>6, <1>7 DEF Calm, e

\* Uses that leave the temporary buffer alone.
LEMMA UseStays ==
  ASSUME NEW d, Calm(d), NEW uses \in SUBSET UseType, FitIn(uses, d), ReadyIn(d, UsedBy(uses) \cap Units),
         Temporary \notin UsedBy(uses)
  PROVE  Stays(Use(d, uses), d) /\ Use(d, uses).layout = d.layout
<1>1. \A x \in uses : x.on # Temporary
  BY DEF UsedBy
<1> DEFINE e == Use(d, uses)
<1>2. /\ Calm(e) /\ NoImageRace(e, d) /\ e.layout = d.layout
      /\ \A r \in Resources : \A p \in e.past[r] : KeptOrMade(d, uses, External, r, p)
  BY <1>1, UseCalm
<1> HIDE DEF e
<1>3. \A p \in e.past[Temporary] : p \in d.past[Temporary]
  BY <1>1, <1>2, BuffersAre DEF KeptOrMade
<1>4. TemporaryKept(e, d)
  BY <1>3 DEF TemporaryKept, Extends
<1>5. QED
  BY <1>2, <1>4 DEF Stays, e

\* What transitions one after the other move.
MovedBy(k, U) == {u \in Units : \E i \in 1 .. k : u \in U[i]}

\* They promise it, what was ready stays ready, and so is what they move.
LEMMA MovesStay ==
  ASSUME NEW d, Calm(d), NEW n \in Nat, NEW p, NEW U, NEW L, p[0] = d, Moves(p, n, U, L),
         NEW V \in SUBSET Units, ReadyIn(d, V)
  PROVE  Stays(p[n], d) /\ ReadyIn(p[n], V \cup MovedBy(n, U))
<1> DEFINE A == {k \in 0 .. n : Stays(p[k], d) /\ ReadyIn(p[k], V \cup MovedBy(k, U))}
<1>1. 0 \in A
  <2>1. MovedBy(0, U) = {}
    BY DEF MovedBy
  <2>2. QED
    BY <2>1, StaysSelf
<1>2. ASSUME NEW k \in 1 .. n, k - 1 \in A PROVE k \in A
  <2>1. Stays(p[k - 1], d) /\ ReadyIn(p[k - 1], V \cup MovedBy(k - 1, U))
    BY <1>2
  <2>2. \A i \in 1 .. k : i = k \/ i \in 1 .. (k - 1)
    OBVIOUS
  <2>3. MovedBy(k, U) \subseteq MovedBy(k - 1, U) \cup U[k]
    BY <2>2 DEF MovedBy
  <2>4. CASE p[k] = p[k - 1] /\ U[k] = {}
    <3>1. V \cup MovedBy(k, U) \subseteq V \cup MovedBy(k - 1, U)
      BY <2>3, <2>4
    <3>2. QED
      BY <2>1, <2>4, <3>1 DEF ReadyIn
  <2>5. CASE /\ p[k] = TransitionImageRange(p[k - 1], U[k], L[k])
             /\ U[k] \in SUBSET Units /\ L[k] \in LayoutNames
    <3> DEFINE W == V \cup MovedBy(k - 1, U)
    <3>1. W \in SUBSET Units /\ Calm(p[k - 1])
      BY <2>1 DEF MovedBy, Stays
    <3> HIDE DEF W
    <3>a. /\ Stays(p[k], p[k - 1])
          /\ \A X \in SUBSET Units : ReadyIn(p[k - 1], X) => ReadyIn(p[k], X \cup U[k])
      BY <2>5, <3>1, TransitionStays
    <3>2. Stays(p[k], p[k - 1]) /\ ReadyIn(p[k], W \cup U[k])
      BY <2>1, <3>1, <3>a DEF W
    <3>3. Stays(p[k], d)
      BY <2>1, <3>2, StaysOn
    <3>4. ReadyIn(p[k], V \cup MovedBy(k, U))
      BY <2>3, <3>2 DEF ReadyIn, W
    <3>5. QED
      BY <3>3, <3>4
  <2>6. QED
    BY <2>4, <2>5 DEF Moves
<1> HIDE DEF A
<1>3. n \in A
  BY <1>1, <1>2, ViewFold!Counting
<1>4. QED
  BY <1>3 DEF A

\* What of a kind is bound and not attached.
BoundAs(bound, attached, as) ==
  {u \in Units \ attached : \E i \in DOMAIN bound : bound[i].as = as /\ bound[i].on = u}

\* The textures that a pass samples are ready.
LEMMA SampledStay ==
  ASSUME NEW d, Calm(d), NEW bound \in Seq(Bindings), NEW attached, NEW V \in SUBSET Units, ReadyIn(d, V)
  PROVE  LET e == TransitionSampled(d, bound, attached) IN
         Stays(e, d) /\ ReadyIn(e, V \cup BoundAs(bound, attached, "sampled"))
<1> DEFINE n == Len(bound)
           ctx == [bound |-> bound, attached |-> attached]
           e == TransitionSampled(d, bound, attached)
           U == [k \in 1 .. n |-> IF bound[k].as = "sampled" THEN {bound[k].on} \ attached ELSE {}]
           L == [k \in 1 .. n |-> SampledLayout(bound[k], bound)]
<1>0. /\ n \in Nat /\ DOMAIN bound = 1 .. n
      /\ \A i \in 1 .. n : bound[i].as = "sampled" => bound[i].on \in Units
  <2>1. \A i \in 1 .. n : bound[i] \in Bindings
    OBVIOUS
  <2>2. QED
    BY <2>1 DEF Bindings
<1>1. e = SampledFold!Fold(ctx, d, bound)
  BY DEF TransitionSampled, FoldLeft, MapThenFoldSet, Max, SampledFold!Fold, SampledFold!Iteration,
     SampledFold!Top, SampledStep
<1> HIDE DEF ctx
<1>2. PICK p : SampledFold!Through(ctx, p, d, bound) /\ e = p[n]
  BY <1>1, SampledFold!FoldThrough
<1> HIDE DEF e
<1>3. p[0] = d /\ \A k \in 1 .. n : p[k] = SampledStep(ctx, p[k - 1], bound[k])
  BY <1>2 DEF SampledFold!Through
<1>4. \A b : SampledLayout(b, bound) \in LayoutNames
  BY TransferLayouts DEF SampledLayout
<1> HIDE DEF n
<1>5. Moves(p, n, U, L)
  <2>1. SUFFICES ASSUME NEW k \in 1 .. n
                 PROVE  \/ p[k] = p[k - 1] /\ U[k] = {}
                        \/ /\ p[k] = TransitionImageRange(p[k - 1], U[k], L[k])
                           /\ U[k] \in SUBSET Units /\ L[k] \in LayoutNames
    BY DEF Moves
  <2>2. CASE bound[k].as = "sampled"
    BY <1>0, <1>3, <1>4, <2>2 DEF SampledStep, ctx
  <2>3. CASE bound[k].as # "sampled"
    BY <1>3, <2>3 DEF SampledStep
  <2>4. QED
    BY <2>2, <2>3
<1>6. BoundAs(bound, attached, "sampled") \subseteq MovedBy(n, U)
  BY <1>0 DEF BoundAs, MovedBy
<1> HIDE DEF U, L
<1>7. Stays(e, d) /\ ReadyIn(e, V \cup MovedBy(n, U))
  BY <1>0, <1>2, <1>3, <1>5, MovesStay
<1>8. QED
  BY <1>6, <1>7 DEF ReadyIn, e

\* So are the storage textures.
LEMMA StorageStay ==
  ASSUME NEW d, Calm(d), NEW bound \in Seq(Bindings), NEW attached, NEW V \in SUBSET Units, ReadyIn(d, V)
  PROVE  LET e == TransitionStorage(d, bound, attached) IN
         Stays(e, d) /\ ReadyIn(e, V \cup BoundAs(bound, attached, "storage_texture"))
<1> DEFINE n == Len(bound)
           ctx == [bound |-> bound, attached |-> attached]
           e == TransitionStorage(d, bound, attached)
           U == [k \in 1 .. n |-> IF bound[k].as = "storage_texture" THEN {bound[k].on} \ attached ELSE {}]
           L == [k \in 1 .. n |-> "general"]
<1>0. /\ n \in Nat /\ DOMAIN bound = 1 .. n
      /\ \A i \in 1 .. n : bound[i].as = "storage_texture" => bound[i].on \in Units
  <2>1. \A i \in 1 .. n : bound[i] \in Bindings
    OBVIOUS
  <2>2. QED
    BY <2>1 DEF Bindings
<1>1. e = StorageFold!Fold(ctx, d, bound)
  BY DEF TransitionStorage, FoldLeft, MapThenFoldSet, Max, StorageFold!Fold, StorageFold!Iteration,
     StorageFold!Top, StorageStep
<1> HIDE DEF ctx
<1>2. PICK p : StorageFold!Through(ctx, p, d, bound) /\ e = p[n]
  BY <1>1, StorageFold!FoldThrough
<1> HIDE DEF e
<1>3. p[0] = d /\ \A k \in 1 .. n : p[k] = StorageStep(ctx, p[k - 1], bound[k])
  BY <1>2 DEF StorageFold!Through
<1> HIDE DEF n
<1>4. Moves(p, n, U, L)
  <2>1. SUFFICES ASSUME NEW k \in 1 .. n
                 PROVE  \/ p[k] = p[k - 1] /\ U[k] = {}
                        \/ /\ p[k] = TransitionImageRange(p[k - 1], U[k], L[k])
                           /\ U[k] \in SUBSET Units /\ L[k] \in LayoutNames
    BY DEF Moves
  <2>2. CASE bound[k].as = "storage_texture"
    BY <1>0, <1>3, <2>2, TransferLayouts DEF StorageStep, ctx
  <2>3. CASE bound[k].as # "storage_texture"
    BY <1>3, <2>3 DEF StorageStep
  <2>4. QED
    BY <2>2, <2>3
<1>5. BoundAs(bound, attached, "storage_texture") \subseteq MovedBy(n, U)
  BY <1>0 DEF BoundAs, MovedBy
<1> HIDE DEF U, L
<1>6. Stays(e, d) /\ ReadyIn(e, V \cup MovedBy(n, U))
  BY <1>0, <1>2, <1>3, <1>4, MovesStay
<1>7. QED
  BY <1>5, <1>6 DEF ReadyIn, e

\* All that a pass binds.
BoundUnits(bound, attached) == {u \in Units \ attached : \E i \in DOMAIN bound : bound[i].on = u}

\* Every binding of a pass is ready.
LEMMA TexturesStay ==
  ASSUME NEW d, Calm(d), NEW bound \in Seq(Bindings), NEW attached, NEW V \in SUBSET Units, ReadyIn(d, V)
  PROVE  LET e == TransitionStorage(TransitionSampled(d, bound, attached), bound, attached) IN
         Stays(e, d) /\ ReadyIn(e, V \cup BoundUnits(bound, attached))
<1> DEFINE m == TransitionSampled(d, bound, attached)
           e == TransitionStorage(m, bound, attached)
           W == V \cup BoundAs(bound, attached, "sampled")
<1>1. Stays(m, d) /\ ReadyIn(m, W)
  BY SampledStay
<1>2. W \in SUBSET Units
  BY DEF BoundAs
<1> HIDE DEF m, W
<1>3. Stays(e, m) /\ ReadyIn(e, W \cup BoundAs(bound, attached, "storage_texture"))
  BY <1>1, <1>2, StorageStay DEF Stays
<1> HIDE DEF e
<1>4. Stays(e, d)
  BY <1>1, <1>3, StaysOn
<1>5. BoundUnits(bound, attached) \subseteq BoundAs(bound, attached, "sampled")
                                      \cup BoundAs(bound, attached, "storage_texture")
  <2>1. \A i \in DOMAIN bound : bound[i] \in Bindings
    OBVIOUS
  <2>2. \A i \in DOMAIN bound : bound[i].on \in Units => bound[i].as \in {"sampled", "storage_texture"}
    BY <2>1, BuffersAre DEF Bindings
  <2>3. QED
    BY <2>2 DEF BoundUnits, BoundAs
<1>6. ReadyIn(e, V \cup BoundUnits(bound, attached))
  BY <1>3, <1>5 DEF ReadyIn, W
<1>7. QED
  BY <1>4, <1>6 DEF m, e

-----------------------------------------------------------------------------
(* Copies of images                                                        *)

\* The temporary buffer has nothing in it, or what a copy wrote is ready to be read.
Unfilled(d) == d.past[Temporary] = {}
Filled(d) == \A p \in d.past[Temporary] : ~Races(p, "transfer", "transfer_read")

\* What a command promises of images.
Orders(e, d) == Calm(e) /\ NoImageRace(e, d) /\ Unfilled(e)

\* The temporary buffer stays as it is in steps that promise to leave it alone.
LEMMA TemporaryStays ==
  ASSUME NEW d, NEW e, Stays(e, d)
  PROVE  /\ Unfilled(d) => Unfilled(e) /\ Orders(e, d)
         /\ Filled(d) => Filled(e)
<1>1. Filled(d) => Filled(e)
  BY ExtendsRaces DEF Stays, TemporaryKept, Filled
<1>2. Unfilled(d) => Unfilled(e)
  BY DEF Stays, TemporaryKept, Unfilled
<1>3. QED
  BY <1>1, <1>2 DEF Orders, Stays

\* What copies do to images fits the layouts they bring them into.
LEMMA CopiesFit ==
  ASSUME NEW d, NEW us \in SUBSET Units
  PROVE  /\ InLayout(d, us, "transfer_src") => FitIn(ImagesIn(us, "transfer_src"), d)
         /\ InLayout(d, us, "transfer_dst") => FitIn(ImagesOut(us, "transfer_dst"), d)
         /\ InLayout(d, us, "general") => /\ FitIn(ImagesIn(us, "general"), d)
                                          /\ FitIn(ImagesOut(us, "general"), d)
         /\ \A l : UsedBy(ImagesIn(us, l)) = us /\ UsedBy(ImagesOut(us, l)) = us
<1>1. /\ <<"transfer", "transfer_read">> \in LayoutScope("transfer_src")
      /\ <<"transfer", "transfer_write">> \in LayoutScope("transfer_dst")
      /\ <<"transfer", "transfer_read">> \in LayoutScope("general")
      /\ <<"transfer", "transfer_write">> \in LayoutScope("general")
  <2>1. "transfer" \in DOMAIN Accesses /\ Accesses["transfer"] = {"transfer_read", "transfer_write"}
    BY DEF Accesses
  <2>2. QED
    BY <2>1, ScopeIs DEF LayoutScope, StageMaskForLayout, AccessMaskForLayout
<1>2. {"transfer_src", "transfer_dst", "general"} \subseteq UsedLayouts
  BY DEF UsedLayouts, WritableLayouts, ReadOnlyLayouts
<1>3. /\ \A l : \A x \in ImagesIn(us, l) :
           x.on \in us /\ x.layout = l /\ x.stage = "transfer" /\ x.access = "transfer_read"
      /\ \A l : \A x \in ImagesOut(us, l) :
           x.on \in us /\ x.layout = l /\ x.stage = "transfer" /\ x.access = "transfer_write"
  BY DEF ImagesIn, ImagesOut, Image
<1>4. ASSUME NEW l PROVE UsedBy(ImagesIn(us, l)) = us /\ UsedBy(ImagesOut(us, l)) = us
  <2>1. \A u \in us : Image(u, "transfer", "transfer_read", l) \in ImagesIn(us, l)
                    /\ Image(u, "transfer", "transfer_write", l) \in ImagesOut(us, l)
    BY DEF ImagesIn, ImagesOut
  <2>2. \A u, s, a : Image(u, s, a, l).on = u
    BY DEF Image
  <2>3. QED
    BY <1>3, <2>1, <2>2 DEF UsedBy
<1>5. QED
  BY <1>1, <1>2, <1>3, <1>4 DEF FitIn, Fits, InLayout

\* What they do to buffers is none of an image.
LEMMA BuffersFit ==
  ASSUME NEW d, NEW b \in Buffers \cup {Temporary}
  PROVE  /\ FitIn(TransferIn(b), d) /\ UsedBy(TransferIn(b)) = {b}
         /\ FitIn(TransferOut(b), d) /\ UsedBy(TransferOut(b)) = {b}
<1>1. UsedBy(TransferIn(b)) = {b} /\ UsedBy(TransferOut(b)) = {b}
  BY DEF TransferIn, TransferOut, Buffer, UsedBy
<1>2. b \notin Units
  BY BuffersAre
<1>3. QED
  BY <1>1, <1>2 DEF FitIn, UsedBy

\* Uses together.
LEMMA FitUnion ==
  ASSUME NEW d, NEW U, NEW V, FitIn(U, d), FitIn(V, d)
  PROVE  FitIn(U \cup V, d) /\ UsedBy(U \cup V) = UsedBy(U) \cup UsedBy(V)
BY DEF FitIn, UsedBy

\* What is ready in part is ready.
LEMMA ReadyPart ==
  ASSUME NEW d, NEW V, NEW W, ReadyIn(d, V), W \subseteq V
  PROVE  ReadyIn(d, W)
BY DEF ReadyIn

\* Uses of buffers alone.
LEMMA UseBuffersStays ==
  ASSUME NEW d, Calm(d), NEW uses \in SUBSET UseType, UsedBy(uses) \subseteq Buffers
  PROVE  Stays(Use(d, uses), d)
<1>1. UsedBy(uses) \cap Units = {} /\ Temporary \notin UsedBy(uses)
  BY BuffersAre
<1>2. FitIn(uses, d) /\ ReadyIn(d, UsedBy(uses) \cap Units)
  BY <1>1 DEF FitIn, ReadyIn, UsedBy
<1>3. QED
  BY <1>1, <1>2, UseStays

\* A barrier for the memory of everything.
LEMMA MemoryBarrierStays ==
  ASSUME NEW d, NEW e, Stays(e, d), NEW b, IsDependency(b), NEW on
  PROVE  Stays(Barrier(e, b, on), d)
<1>1. Stays(Barrier(e, b, on), e)
  BY BarrierStays DEF Stays
<1>2. QED
  BY <1>1, StaysOn

\* Copies between buffers leave images alone.
LEMMA BuffersOnlyStay ==
  ASSUME NEW d, Calm(d), NEW c
  PROVE  /\ c.from \in Buffers /\ c.to \in Buffers => Stays(BufferCopy(d, c), d)
         /\ c.to \in Buffers => Stays(BufferClear(d, c), d) /\ Stays(ResolveQuerySet(d, c), d)
<1>1. ASSUME c.to \in Buffers
      PROVE  TransferOut(c.to) \in SUBSET UseType /\ UsedBy(TransferOut(c.to)) \subseteq Buffers
  BY <1>1, TransferUses, BuffersFit
<1>2. ASSUME c.from \in Buffers, c.to \in Buffers PROVE Stays(BufferCopy(d, c), d)
  <2> DEFINE uses == TransferIn(c.from) \cup TransferOut(c.to)
  <2>1. uses \in SUBSET UseType
    BY <1>2, TransferUses
  <2>2. UsedBy(TransferIn(c.from)) \subseteq Buffers /\ UsedBy(TransferOut(c.to)) \subseteq Buffers
    BY <1>2, BuffersFit
  <2>3. UsedBy(uses) \subseteq Buffers
    BY <2>2 DEF UsedBy
  <2> HIDE DEF uses
  <2>4. Stays(Use(d, uses), d)
    BY <2>1, <2>3, UseBuffersStays
  <2>5. QED
    BY <2>4, MemoryBarrierStays, NamedBarriers DEF BufferCopy, RecordMemoryBarrier, uses
<1>3. ASSUME c.to \in Buffers PROVE Stays(BufferClear(d, c), d)
  <2>1. Stays(Use(d, TransferOut(c.to)), d)
    BY <1>1, <1>3, UseBuffersStays
  <2>2. QED
    BY <2>1, MemoryBarrierStays, NamedBarriers DEF BufferClear, RecordMemoryBarrier
<1>4. ASSUME c.to \in Buffers PROVE Stays(ResolveQuerySet(d, c), d)
  <2> DEFINE zeroed == Use(d, TransferOut(c.to))
             filled == Barrier(zeroed, TransferThen({"transfer_write"}), {c.to})
             answered == Use(filled, TransferOut(c.to))
  <2>1. Stays(zeroed, d)
    BY <1>1, <1>4, UseBuffersStays
  <2> HIDE DEF zeroed
  <2>2. Stays(filled, d)
    BY <2>1, MemoryBarrierStays, NamedBarriers
  <2> HIDE DEF filled
  <2>3. Stays(answered, filled)
    BY <1>1, <1>4, <2>2, UseBuffersStays DEF Stays
  <2>4. Stays(answered, d)
    BY <2>2, <2>3, StaysOn
  <2> HIDE DEF answered
  <2>5. Stays(Barrier(answered, QueryResolveOutgoing, {c.to}), d)
    BY <2>4, MemoryBarrierStays, NamedBarriers
  <2>6. QED
    BY <2>5 DEF ResolveQuerySet, answered, filled, zeroed
<1>5. QED
  BY <1>2, <1>3, <1>4

\* Filling the temporary buffer makes it ready to be read.
LEMMA ByTemporaryFills ==
  ASSUME NEW d, Calm(d), Unfilled(d), NEW uses \in SUBSET UseType, FitIn(uses, d),
         ReadyIn(d, UsedBy(uses) \cap Units), Temporary \notin UsedBy(uses)
  PROVE  LET e == ByTemporary(d, uses) IN
         /\ Calm(e) /\ NoImageRace(e, d) /\ Filled(e) /\ e.layout = d.layout
         /\ \A V \in SUBSET Units : ReadyIn(d, V) /\ V \cap UsedBy(uses) = {} => ReadyIn(e, V)
<1> DEFINE all == uses \cup TransferOut(Temporary)
           f == Use(d, all)
           b == TransferThen({"transfer_read"})
           e == Barrier(f, b, {Temporary})
<1>1. /\ all \in SUBSET UseType /\ FitIn(all, d)
      /\ UsedBy(all) = UsedBy(uses) \cup {Temporary} /\ UsedBy(all) \cap Units = UsedBy(uses) \cap Units
  <2> DEFINE out == TransferOut(Temporary)
  <2>1. out \in SUBSET UseType /\ FitIn(out, d) /\ UsedBy(out) = {Temporary}
    BY TransferUses, BuffersFit
  <2> HIDE DEF out
  <2>2. FitIn(uses \cup out, d)
    BY <2>1, FitUnion
  <2>a. UsedBy(uses \cup out) = UsedBy(uses) \cup UsedBy(out)
    BY DEF UsedBy
  <2>3. QED
    BY <2>1, <2>2, <2>a, BuffersAre DEF out
<1>2. \A p \in d.past[Temporary] : FALSE
  BY DEF Unfilled
<1>3. \A x \in all : x.on = Temporary => x.stage = "transfer" /\ x.access = "transfer_write"
  BY DEF UsedBy, TransferOut, Buffer
<1> HIDE DEF all
<1>4. /\ Calm(f) /\ NoImageRace(f, d) /\ f.layout = d.layout
      /\ \A r \in Resources : \A p \in f.past[r] : KeptOrMade(d, all, External, r, p)
      /\ \A V \in SUBSET Units : ReadyIn(d, V) /\ V \cap UsedBy(all) = {} => ReadyIn(f, V)
  BY <1>1, <1>2, UseCalm
<1>5. \A p \in f.past[Temporary] : p = Accessed("transfer", "transfer_write", External)
  BY <1>2, <1>3, <1>4, BuffersAre DEF KeptOrMade
<1> HIDE DEF f
<1>6. IsDependency(b)
  BY NamedBarriers
<1>7. /\ Stays(e, f) /\ e.layout = f.layout
      /\ \A V \in SUBSET Units : ReadyIn(f, V) => ReadyIn(e, V)
  BY <1>4, <1>6, BarrierStays
<1>8. Filled(e)
  <2>1. SUFFICES ASSUME NEW q \in e.past[Temporary] PROVE ~Races(q, "transfer", "transfer_read")
    BY DEF Filled
  <2>2. PICK p \in f.past[Temporary] : q = Barriered(p, b, TRUE)
    <3>1. BarrieredBy(f, b, {Temporary}, Temporary, q)
      BY <1>4, <1>6, BarrierEffect, BuffersAre DEF Calm
    <3>2. QED
      BY <3>1 DEF BarrieredBy
  <2>3. p = Accessed("transfer", "transfer_write", External)
    BY <1>5
  <2>4. p \in PastAccess
    BY <1>4, BuffersAre DEF Calm, Device
  <2>5. p.stage = "transfer" /\ p.access = "transfer_write"
    BY <2>3 DEF Accessed
  <2>6. /\ <<"transfer", "transfer_write">> \in Scope(b.src, b.src_access)
        /\ <<"transfer", "transfer_read">> \in Scope(b.dst, b.dst_access)
    <3>1. "transfer" \in DOMAIN Accesses /\ Accesses["transfer"] = {"transfer_read", "transfer_write"}
      BY DEF Accesses
    <3>2. QED
      BY <3>1, ScopeIs DEF TransferThen, Dependency
  <2> HIDE DEF b
  <2>7. Scope(b.dst, b.dst_access) \subseteq q.visible
    BY <1>6, <2>2, <2>4, <2>5, <2>6, BarrieredShows
  <2>8. q.access = "transfer_write"
    BY <1>6, <2>2, <2>4, <2>5, BarrieredExtends DEF Extends
  <2>9. QED
    BY <2>6, <2>7, <2>8 DEF Races, IsWrite, Writes
<1>9. \A V \in SUBSET Units : V \cap UsedBy(uses) = {} => V \cap UsedBy(all) = {}
  BY <1>1, BuffersAre
<1> HIDE DEF e, b
<1>10. NoImageRace(e, d)
  BY <1>4, <1>7 DEF Stays, NoImageRace
<1>11. QED
  BY <1>4, <1>7, <1>8, <1>9, <1>10 DEF Stays, ByTemporary, e, f, b, all

\* Copying from the temporary buffer, which is dropped afterwards.
LEMMA FromTemporary ==
  ASSUME NEW d, Calm(d), Filled(d), NEW us \in SUBSET Units, InLayout(d, us, "transfer_dst"), ReadyIn(d, us)
  PROVE  LET e == Dropped(Use(d, TransferIn(Temporary) \cup ImagesOut(us, "transfer_dst"))) IN
         Orders(e, d)
<1> DEFINE uses == TransferIn(Temporary) \cup ImagesOut(us, "transfer_dst")
           f == Use(d, uses)
           e == Dropped(f)
<1>1. /\ uses \in SUBSET UseType /\ FitIn(uses, d) /\ UsedBy(uses) \cap Units = us
  <2>1. /\ TransferIn(Temporary) \in SUBSET UseType /\ ImagesOut(us, "transfer_dst") \in SUBSET UseType
        /\ FitIn(TransferIn(Temporary), d) /\ FitIn(ImagesOut(us, "transfer_dst"), d)
        /\ UsedBy(TransferIn(Temporary)) = {Temporary} /\ UsedBy(ImagesOut(us, "transfer_dst")) = us
    BY TransferUses, TransferLayouts, CopiesFit, BuffersFit
  <2>2. FitIn(uses, d) /\ UsedBy(uses) = {Temporary} \cup us
    BY <2>1, FitUnion
  <2>3. QED
    BY <2>1, <2>2, BuffersAre
<1>2. \A x \in uses : x.on = Temporary => x.stage = "transfer" /\ x.access = "transfer_read"
  BY BuffersAre DEF TransferIn, ImagesOut, Buffer, Image
<1> HIDE DEF uses
<1>3. Calm(f) /\ NoImageRace(f, d) /\ f.layout = d.layout
  BY <1>1, <1>2, UseCalm DEF Filled
<1> HIDE DEF f
<1>4. e = [f EXCEPT !.past = [f.past EXCEPT ![Temporary] = {}]]
  BY DEF Dropped, Calm
<1>5. [f.past EXCEPT ![Temporary] = {}] \in [Resources -> SUBSET PastAccess]
  BY <1>3, BuffersAre DEF Calm, Device
<1>6. /\ e \in Device /\ e.past = [f.past EXCEPT ![Temporary] = {}] /\ e.layout = f.layout
      /\ e.states = f.states /\ e.races = f.races /\ e.mislaid = f.mislaid
  BY <1>3, <1>4, <1>5 DEF Calm, Device
<1>7. /\ \A r \in Resources : e.past[r] = IF r = Temporary THEN {} ELSE f.past[r]
  BY <1>3, <1>6 DEF Calm, Device
<1> HIDE DEF e
<1>8. Outside(e) /\ HeldIn(e) /\ Unfilled(e)
  BY <1>3, <1>6, <1>7, BuffersAre DEF Calm, Outside, HeldIn, Unfilled
<1>9. Told(e) /\ NoImageRace(e, d)
  BY <1>3, <1>6 DEF Calm, Told, NoImageRace
<1>10. QED
  BY <1>6, <1>8, <1>9 DEF Orders, Calm, e, f, uses

\* A transition of images that are used next.
LEMMA TransitionReady ==
  ASSUME NEW d, Calm(d), NEW us \in SUBSET Units, NEW l \in LayoutNames
  PROVE  LET e == TransitionImageRange(d, us, l) IN
         Stays(e, d) /\ InLayout(e, us, l) /\ LayoutsKept(e, d, us) /\ ReadyIn(e, us)
<1> DEFINE e == TransitionImageRange(d, us, l)
<1>1. /\ Stays(e, d) /\ InLayout(e, us, l) /\ LayoutsKept(e, d, us)
      /\ \A V \in SUBSET Units : ReadyIn(d, V) => ReadyIn(e, V \cup us)
  BY TransitionStays
<1>2. {} \in SUBSET Units /\ ReadyIn(d, {}) /\ {} \cup us = us
  BY DEF ReadyIn
<1> HIDE DEF e
<1>3. ReadyIn(e, us)
  BY <1>1, <1>2
<1>4. QED
  BY <1>1, <1>3 DEF e

\* Copies of ready images with buffers, or between them.
LEMMA CopyStays ==
  ASSUME NEW d, Calm(d), NEW us \in SUBSET Units, NEW uses \in SUBSET UseType, FitIn(uses, d),
         UsedBy(uses) \subseteq Buffers \cup us, ReadyIn(d, us)
  PROVE  Stays(Use(d, uses), d)
<1>1. UsedBy(uses) \cap Units \subseteq us /\ Temporary \notin UsedBy(uses)
  BY BuffersAre
<1>2. ReadyIn(d, UsedBy(uses) \cap Units)
  BY <1>1, ReadyPart
<1>3. QED
  BY <1>1, <1>2, UseStays

\* A command that goes on as it promised.
LEMMA OrdersOn ==
  ASSUME NEW d, NEW e, NEW f, NoImageRace(e, d), Orders(f, e)
  PROVE  Orders(f, d)
BY DEF Orders, NoImageRace

\* A clear of an image.
LEMMA ClearTextureOrders ==
  ASSUME NEW d, Calm(d), Unfilled(d), NEW c, c.units \in SUBSET Units
  PROVE  Orders(ClearTexture(d, c), d)
<1> DEFINE ready == TransitionImageRange(d, c.units, "transfer_dst")
           write == ImagesOut(c.units, "transfer_dst")
           temporary == ByTemporary(ready, {})
           cleared == IF c.compressed
                        THEN Dropped(Use(temporary, TransferIn(Temporary) \cup write))
                        ELSE Use(ready, write)
           b == TransferThen({"transfer_write", "transfer_read"})
<1>1. Stays(ready, d) /\ InLayout(ready, c.units, "transfer_dst") /\ ReadyIn(ready, c.units)
  BY TransitionReady, TransferLayouts
<1> HIDE DEF ready
<1>2. Calm(ready) /\ Unfilled(ready) /\ NoImageRace(ready, d)
  BY <1>1, TemporaryStays DEF Stays
<1>3. ASSUME c.compressed PROVE Orders(cleared, ready)
  <2>1. {} \in SUBSET UseType /\ FitIn({}, ready) /\ UsedBy({}) = {} /\ ReadyIn(ready, UsedBy({}) \cap Units)
    BY DEF FitIn, UsedBy, ReadyIn
  <2>2. /\ Calm(temporary) /\ NoImageRace(temporary, ready) /\ Filled(temporary)
        /\ temporary.layout = ready.layout
        /\ \A V \in SUBSET Units : ReadyIn(ready, V) /\ V \cap UsedBy({}) = {} => ReadyIn(temporary, V)
    BY <1>2, <2>1, ByTemporaryFills
  <2> HIDE DEF temporary
  <2>3. InLayout(temporary, c.units, "transfer_dst") /\ ReadyIn(temporary, c.units)
    BY <1>1, <2>1, <2>2 DEF InLayout
  <2>4. Orders(cleared, temporary)
    BY <1>3, <2>2, <2>3, FromTemporary
  <2>5. QED
    BY <2>2, <2>4, OrdersOn
<1>4. ASSUME ~c.compressed PROVE Orders(cleared, ready)
  <2>1. write \in SUBSET UseType /\ FitIn(write, ready) /\ UsedBy(write) = c.units
    BY <1>1, TransferUses, TransferLayouts, CopiesFit
  <2> HIDE DEF write
  <2>2. Stays(Use(ready, write), ready)
    BY <1>1, <1>2, <2>1, CopyStays
  <2>3. QED
    BY <1>2, <1>4, <2>2, TemporaryStays
<1>5. Orders(cleared, ready)
  BY <1>3, <1>4
<1> HIDE DEF cleared
<1>6. Orders(cleared, d)
  BY <1>2, <1>5, OrdersOn
<1>7. Stays(Barrier(cleared, b, c.units), cleared)
  BY <1>6, BarrierStays, NamedBarriers DEF Orders
<1>8. Orders(Barrier(cleared, b, c.units), cleared)
  BY <1>6, <1>7, TemporaryStays DEF Orders
<1>9. Orders(Barrier(cleared, b, c.units), d)
  BY <1>6, <1>8, OrdersOn DEF Orders
<1>10. QED
  BY <1>9 DEF ClearTexture, cleared, ready

\* Copies between an image and a buffer.
LEMMA BufferTextureStay ==
  ASSUME NEW d, Calm(d), NEW c, c.units \in SUBSET Units
  PROVE  /\ c.from \in Buffers => Stays(BufferToTexture(d, c), d)
         /\ c.to \in Buffers => Stays(TextureToBuffer(d, c), d)
<1>1. ASSUME c.from \in Buffers PROVE Stays(BufferToTexture(d, c), d)
  <2> DEFINE ready == TransitionImageRange(d, c.units, "transfer_dst")
             in == TransferIn(c.from)
             write == ImagesOut(c.units, "transfer_dst")
  <2>1. Stays(ready, d) /\ InLayout(ready, c.units, "transfer_dst") /\ ReadyIn(ready, c.units)
    BY TransitionReady, TransferLayouts
  <2> HIDE DEF ready
  <2>2. /\ write \in SUBSET UseType /\ FitIn(write, ready) /\ UsedBy(write) = c.units
        /\ in \in SUBSET UseType /\ FitIn(in, ready) /\ UsedBy(in) = {c.from}
    BY <1>1, <2>1, TransferUses, TransferLayouts, CopiesFit, BuffersFit
  <2> HIDE DEF in, write
  <2>3. FitIn(in \cup write, ready) /\ in \cup write \in SUBSET UseType
    BY <2>2, FitUnion
  <2>4. UsedBy(in \cup write) \subseteq Buffers \cup c.units
    BY <1>1, <2>2 DEF UsedBy
  <2>5. Stays(Use(ready, in \cup write), ready)
    BY <2>1, <2>3, <2>4, CopyStays DEF Stays
  <2>6. Stays(Use(ready, in \cup write), d)
    BY <2>1, <2>5, StaysOn
  <2>7. QED
    BY <2>6 DEF BufferToTexture, ready, in, write
<1>2. ASSUME c.to \in Buffers PROVE Stays(TextureToBuffer(d, c), d)
  <2> DEFINE ready == TransitionImageRange(d, c.units, "transfer_src")
             out == TransferOut(c.to)
             read == ImagesIn(c.units, "transfer_src")
  <2>1. Stays(ready, d) /\ InLayout(ready, c.units, "transfer_src") /\ ReadyIn(ready, c.units)
    BY TransitionReady, TransferLayouts
  <2> HIDE DEF ready
  <2>2. /\ read \in SUBSET UseType /\ FitIn(read, ready) /\ UsedBy(read) = c.units
        /\ out \in SUBSET UseType /\ FitIn(out, ready) /\ UsedBy(out) = {c.to}
    BY <1>2, <2>1, TransferUses, TransferLayouts, CopiesFit, BuffersFit
  <2> HIDE DEF out, read
  <2>3. FitIn(read \cup out, ready) /\ read \cup out \in SUBSET UseType
    BY <2>2, FitUnion
  <2>4. UsedBy(read \cup out) \subseteq Buffers \cup c.units
    BY <1>2, <2>2 DEF UsedBy
  <2>5. Stays(Use(ready, read \cup out), ready)
    BY <2>1, <2>3, <2>4, CopyStays DEF Stays
  <2>6. Stays(Use(ready, read \cup out), d)
    BY <2>1, <2>5, StaysOn
  <2>7. QED
    BY <2>6, MemoryBarrierStays, NamedBarriers DEF TextureToBuffer, RecordMemoryBarrier, ready, read, out
<1>3. QED
  BY <1>1, <1>2

\* A copy between images, or within one.
LEMMA TextureToTextureOrders ==
  ASSUME NEW d, Calm(d), Unfilled(d), NEW c, c.from \in SUBSET Units, c.to \in SUBSET Units
  PROVE  Orders(TextureToTexture(d, c), d)
<1> DEFINE source == TransitionImageRange(d, c.from, "transfer_src")
<1>1. Stays(source, d) /\ InLayout(source, c.from, "transfer_src") /\ ReadyIn(source, c.from)
  BY TransitionReady, TransferLayouts
<1> HIDE DEF source
<1>2. Calm(source) /\ Unfilled(source) /\ NoImageRace(source, d)
  BY <1>1, TemporaryStays DEF Stays
<1>3. CASE c.compressed
  <2> DEFINE uses == ImagesIn(c.from, "transfer_src")
             read == ByTemporary(source, uses)
             both == TransitionImageRange(read, c.to, "transfer_dst")
             done == Dropped(Use(both, TransferIn(Temporary) \cup ImagesOut(c.to, "transfer_dst")))
  <2>1. uses \in SUBSET UseType /\ FitIn(uses, source) /\ UsedBy(uses) = c.from
    BY <1>1, TransferUses, TransferLayouts, CopiesFit
  <2>2. UsedBy(uses) \cap Units = c.from /\ Temporary \notin UsedBy(uses)
    BY <2>1, BuffersAre
  <2> HIDE DEF uses
  <2>3. Calm(read) /\ NoImageRace(read, source) /\ Filled(read)
    BY <1>1, <1>2, <2>1, <2>2, ByTemporaryFills
  <2> HIDE DEF read
  <2>4. Stays(both, read) /\ InLayout(both, c.to, "transfer_dst") /\ ReadyIn(both, c.to)
    BY <2>3, TransitionReady, TransferLayouts
  <2> HIDE DEF both
  <2>5. Calm(both) /\ Filled(both) /\ NoImageRace(both, read)
    BY <2>3, <2>4, TemporaryStays DEF Stays
  <2>6. Orders(done, both)
    BY <2>4, <2>5, FromTemporary
  <2> HIDE DEF done
  <2>7. Orders(done, d)
    BY <1>2, <2>3, <2>5, <2>6, OrdersOn
  <2>8. QED
    BY <1>3, <2>7 DEF TextureToTexture, done, both, read, uses, source
<1>4. CASE ~c.compressed /\ c.from \cap c.to # {}
  <2> DEFINE us == c.from \cup c.to
             both == TransitionImageRange(d, us, "general")
             in == ImagesIn(c.from, "general")
             out == ImagesOut(c.to, "general")
  <2>1. Stays(both, d) /\ InLayout(both, us, "general") /\ ReadyIn(both, us)
    BY TransitionReady, TransferLayouts
  <2> HIDE DEF both
  <2>2. InLayout(both, c.from, "general") /\ InLayout(both, c.to, "general")
    BY <2>1 DEF InLayout
  <2>3. /\ in \in SUBSET UseType /\ FitIn(in, both) /\ UsedBy(in) = c.from
        /\ out \in SUBSET UseType /\ FitIn(out, both) /\ UsedBy(out) = c.to
    BY <2>2, TransferUses, TransferLayouts, CopiesFit
  <2> HIDE DEF in, out
  <2>4. FitIn(in \cup out, both) /\ in \cup out \in SUBSET UseType
    BY <2>3, FitUnion
  <2>5. UsedBy(in \cup out) \subseteq Buffers \cup us
    BY <2>3 DEF UsedBy
  <2>6. us \in SUBSET Units
    OBVIOUS
  <2> HIDE DEF us
  <2>7. Stays(Use(both, in \cup out), both)
    BY <2>1, <2>4, <2>5, <2>6, CopyStays DEF Stays
  <2>8. Orders(Use(both, in \cup out), d)
    BY <2>1, <2>7, StaysOn, TemporaryStays
  <2>9. QED
    BY <1>4, <2>8 DEF TextureToTexture, both, in, out, us
<1>5. CASE ~c.compressed /\ c.from \cap c.to = {}
  <2> DEFINE both == TransitionImageRange(source, c.to, "transfer_dst")
             in == ImagesIn(c.from, "transfer_src")
             out == ImagesOut(c.to, "transfer_dst")
  <2>1. /\ Stays(both, source) /\ InLayout(both, c.to, "transfer_dst") /\ LayoutsKept(both, source, c.to)
        /\ ReadyIn(both, c.from \cup c.to)
    BY <1>1, <1>2, TransitionStays, TransferLayouts
  <2> HIDE DEF both
  <2>2. InLayout(both, c.from, "transfer_src")
    BY <1>1, <1>5, <2>1 DEF InLayout, LayoutsKept
  <2>3. /\ in \in SUBSET UseType /\ FitIn(in, both) /\ UsedBy(in) = c.from
        /\ out \in SUBSET UseType /\ FitIn(out, both) /\ UsedBy(out) = c.to
    BY <2>1, <2>2, TransferUses, TransferLayouts, CopiesFit
  <2> HIDE DEF in, out
  <2>4. FitIn(in \cup out, both) /\ in \cup out \in SUBSET UseType
    BY <2>3, FitUnion
  <2>5. UsedBy(in \cup out) \subseteq Buffers \cup (c.from \cup c.to)
    BY <2>3 DEF UsedBy
  <2>6. Stays(Use(both, in \cup out), both)
    BY <2>1, <2>4, <2>5, CopyStays DEF Stays
  <2>7. Orders(Use(both, in \cup out), d)
    BY <1>1, <2>1, <2>6, StaysOn, TemporaryStays
  <2>8. QED
    BY <1>5, <2>7 DEF TextureToTexture, both, in, out, source
<1>6. QED
  BY <1>3, <1>4, <1>5

-----------------------------------------------------------------------------
(* Shaders and images                                                      *)

\* Shaders do not write what they sample: spirv_writable_storage_bindings finds only
\* storage buffers and storage textures.
SampledNotWritten(w) ==
  \A b \in w.binds : b.as = "sampled" => b.key \notin w.pipeline.declared \cap w.pipeline.writable

\* What shaders do in the layouts of textures.
LEMMA ShaderScopes ==
  \A s \in ShaderStages : /\ <<s, "shader_read">> \in LayoutScope("shader_read")
                          /\ <<s, "shader_read">> \in LayoutScope("general")
                          /\ <<s, "shader_write">> \in LayoutScope("general")
<1>1. \A s \in ShaderStages : s \in DOMAIN Accesses /\ {"shader_read", "shader_write"} \subseteq Accesses[s]
  BY DEF ShaderStages, Accesses
<1>2. /\ ShaderStages = StageMaskForLayout["shader_read"] /\ ShaderStages \subseteq StageMaskForLayout["general"]
      /\ "shader_read" \in AccessMaskForLayout["shader_read"]
      /\ {"shader_read", "shader_write"} \subseteq AccessMaskForLayout["general"]
  BY DEF ShaderStages, StageMaskForLayout, AccessMaskForLayout
<1>3. QED
  BY <1>1, <1>2, ScopeIs DEF LayoutScope

\* It fits the layouts they are in, of what is bound.
LEMMA ShaderUsesFit ==
  ASSUME NEW d, NEW pipeline, NEW binds \in SUBSET Bindings, NEW bound, NEW stages \in SUBSET ShaderStages,
         NEW attached, BoundReady(d, bound, attached), \A b \in binds : \E i \in DOMAIN bound : b = bound[i],
         \A b \in binds : b.key \in pipeline.declared => b.on \notin attached,
         SampledNotWritten([pipeline |-> pipeline, binds |-> binds])
  PROVE  LET uses == ShaderUses(pipeline, binds, bound, stages) IN
         /\ FitIn(uses, d) /\ UsedBy(uses) \cap Units \subseteq BoundUnits(bound, attached)
         /\ Temporary \notin UsedBy(uses)
<1> DEFINE uses == ShaderUses(pipeline, binds, bound, stages)
<1>1. \A x \in uses : ShaderUse(x, pipeline, binds, bound, stages)
  BY ShaderUsesAre
<1>2. Names(uses, d)
  BY ShaderUsesNamed
<1> HIDE DEF uses
<1>3. \A b \in binds : b.on \in Buffers \/ (b.on \in Units /\ b.as \in {"sampled", "storage_texture"})
  BY DEF Bindings
<1>4. ASSUME NEW x \in uses
      PROVE  /\ x.on # Temporary
             /\ x.on \in Units => x.on \in BoundUnits(bound, attached) /\ Fits(x, x.layout)
  <2>1. PICK b \in binds :
          /\ b.key \in pipeline.declared /\ x.on = b.on /\ x.layout = LayoutOf(b, bound) /\ x.stage \in stages
          /\ \/ x.access = "uniform_read" /\ b.as = "uniform"
             \/ x.access = "shader_read" /\ b.as # "uniform"
             \/ x.access = "shader_write" /\ b.key \in pipeline.writable /\ x.stage # "vertex"
    BY <1>1 DEF ShaderUse
  <2>2. x.on # Temporary
    BY <1>3, <2>1, BuffersAre
  <2>3. ASSUME x.on \in Units PROVE x.on \in BoundUnits(bound, attached) /\ Fits(x, x.layout)
    <3>1. b.as \in {"sampled", "storage_texture"}
      BY <1>3, <2>1, <2>3, BuffersAre
    <3>2. x.on \in BoundUnits(bound, attached)
      BY <2>1, <2>3 DEF BoundUnits
    <3>3. b.as = "sampled" => x.access = "shader_read" /\ x.layout \in {"general", "shader_read"}
      BY <2>1 DEF SampledNotWritten, LayoutOf, SampledLayout
    <3>4. b.as = "storage_texture" => x.access \in {"shader_read", "shader_write"} /\ x.layout = "general"
      BY <2>1 DEF LayoutOf
    <3>5. x.stage \in ShaderStages
      BY <2>1
    <3>6. {"general", "shader_read"} \subseteq UsedLayouts
      BY DEF UsedLayouts, WritableLayouts, ReadOnlyLayouts
    <3>7. QED
      BY <3>1, <3>2, <3>3, <3>4, <3>5, <3>6, ShaderScopes DEF Fits
  <2>4. QED
    BY <2>2, <2>3
<1>5. QED
  BY <1>2, <1>4 DEF FitIn, Names, UsedBy, uses

\* A compute pass whose shaders do not write what they sample.
LEMMA ComputePassStays ==
  ASSUME NEW d, Fine(d), HeldIn(d), NEW c, c.pipeline \in Pipelines, c.binds \in Seq(Bindings),
         c.indirect \in SUBSET Buffers,
         BindGroupsMatch([pipeline |-> c.pipeline, binds |-> ToSet(c.binds)]),
         SampledNotWritten([pipeline |-> c.pipeline, binds |-> ToSet(c.binds)])
  PROVE  Stays(ComputePass(d, c), d)
<1> DEFINE bound == c.binds
           binds == ToSet(bound)
           pipeline == c.pipeline
           ready == TransitionStorage(TransitionSampled(d, bound, {}), bound, {})
           fetches == {Buffer(b, "indirect", "indirect_read") : b \in c.indirect}
           shader == ShaderUses(pipeline, binds, bound, {"compute"})
           uses == shader \cup fetches
           begun == Barrier(ready, ComputePreDispatch, Resources)
           done == Barrier(Use(begun, uses), ComputePostDispatch, Resources)
<1>0. Calm(d)
  BY DEF Fine, Calm
<1>1. ComputePass(d, c) = done
  BY DEF ComputePass, RecordMemoryBarrier
<1>2. /\ bound \in Seq(Bindings) /\ binds \in SUBSET Bindings
      /\ \A b \in binds : \E i \in DOMAIN bound : b = bound[i]
  BY DEF ToSet
<1>3. fetches \in SUBSET UseType /\ UsedBy(fetches) \subseteq Buffers
  <2>1. "indirect" \in Stages /\ "indirect_read" \in AccessNames
    BY StageNames DEF AccessNames, MemoryRead, MemoryWrite, Writes, Accesses
  <2>2. \A u \in fetches : /\ u.on \in Buffers
                           /\ u = [on |-> u.on, stage |-> "indirect", access |-> "indirect_read", layout |-> "none"]
    BY DEF Buffer
  <2> HIDE DEF fetches
  <2>3. QED
    BY <2>1, <2>2, BuffersAre DEF UseType, UsedBy
<1> HIDE DEF fetches
<1>4. shader \in SUBSET UseType
  <2> HIDE DEF bound, binds, pipeline
  <2>1. BindGroupsMatch([pipeline |-> pipeline, binds |-> binds])
    BY DEF bound, binds, pipeline
  <2>2. QED
    BY <1>2, <2>1, ShaderUsesType DEF ShaderStages
<1>a. SampledNotWritten([pipeline |-> pipeline, binds |-> binds])
  OBVIOUS
<1> HIDE DEF bound
<1>5. BoundReady(ready, bound, {})
  BY <1>2, TexturesKeep
<1>6. Stays(ready, d) /\ ReadyIn(ready, BoundUnits(bound, {}))
  <2>1. {} \in SUBSET Units /\ ReadyIn(d, {}) /\ {} \cup BoundUnits(bound, {}) = BoundUnits(bound, {})
    BY DEF ReadyIn
  <2>2. Stays(ready, d) /\ ReadyIn(ready, {} \cup BoundUnits(bound, {}))
    BY <1>0, <1>2, <2>1, TexturesStay
  <2> HIDE DEF ready
  <2>3. QED
    BY <2>1, <2>2
<1> HIDE DEF ready
<1>7. /\ Stays(begun, ready) /\ begun.layout = ready.layout
      /\ \A V \in SUBSET Units : ReadyIn(ready, V) => ReadyIn(begun, V)
  BY <1>6, BarrierStays, NamedBarriers DEF Stays
<1> HIDE DEF begun
<1>8. BoundReady(begun, bound, {}) /\ ReadyIn(begun, BoundUnits(bound, {}))
  BY <1>5, <1>6, <1>7 DEF BoundReady, BoundUnits
<1>9. /\ FitIn(shader, begun) /\ UsedBy(shader) \cap Units \subseteq BoundUnits(bound, {})
      /\ Temporary \notin UsedBy(shader)
  <2> DEFINE stages == {"compute"}
             none == {}
             w == [pipeline |-> pipeline, binds |-> binds]
  <2>1. stages \in SUBSET ShaderStages /\ shader = ShaderUses(pipeline, binds, bound, stages)
    BY DEF ShaderStages
  <2> HIDE DEF shader, stages, binds, pipeline
  <2>2. binds \in SUBSET Bindings /\ \A b \in binds : \E i \in DOMAIN bound : b = bound[i]
    BY <1>2
  <2>3. BoundReady(begun, bound, none) /\ \A b \in binds : b.key \in pipeline.declared => b.on \notin none
    BY <1>8
  <2> HIDE DEF none
  <2>4. FitIn(shader, begun)
    BY <1>a, <2>1, <2>2, <2>3, ShaderUsesFit
  <2>5. UsedBy(shader) \cap Units \subseteq BoundUnits(bound, none)
    BY <1>a, <2>1, <2>2, <2>3, ShaderUsesFit
  <2>6. Temporary \notin UsedBy(shader)
    BY <1>a, <2>1, <2>2, <2>3, ShaderUsesFit
  <2>7. QED
    BY <2>4, <2>5, <2>6 DEF none
<1> HIDE DEF shader, binds
<1>10. FitIn(uses, begun) /\ uses \in SUBSET UseType
  <2>1. FitIn(fetches, begun)
    BY <1>3, BuffersAre DEF FitIn, UsedBy
  <2>2. QED
    BY <1>3, <1>4, <1>9, <2>1, FitUnion
<1>11. UsedBy(uses) \cap Units \subseteq BoundUnits(bound, {}) /\ Temporary \notin UsedBy(uses)
  <2>1. UsedBy(uses) = UsedBy(shader) \cup UsedBy(fetches)
    BY DEF UsedBy
  <2> HIDE DEF uses
  <2>2. QED
    BY <1>3, <1>9, <2>1, BuffersAre
<1> HIDE DEF uses
<1>12. ReadyIn(begun, UsedBy(uses) \cap Units)
  BY <1>8, <1>11, ReadyPart
<1>13. Stays(Use(begun, uses), begun)
  BY <1>7, <1>10, <1>11, <1>12, UseStays DEF Stays
<1>14. Stays(done, begun)
  BY <1>13, MemoryBarrierStays, NamedBarriers
<1> HIDE DEF done
<1>15. QED
  BY <1>1, <1>6, <1>7, <1>14, StaysOn

-----------------------------------------------------------------------------
(* Attachments                                                             *)

\* The layouts of attachments, and what a pass does to them.
AttachmentLayouts == {"color", "depth", "general"}
AttachmentScope == Scope(AttachmentStages, AttachmentAccesses)

\* What a pass leaves in the layout for reading by shaders was not brought there
\* by it: it ends in the layouts of attachments or of copies.
EndsPlainly(a) ==
  /\ a.initial \in AttachmentLayouts
  /\ a.initial = "general" \/ a.final # a.initial => a.final = "transfer_src"

\* The masks of attachments.
LEMMA AttachmentMasks ==
  /\ AttachmentStages \in SUBSET Stages
  /\ AttachmentStages \subseteq Earlier(AttachmentStages) /\ AttachmentStages \subseteq Later(AttachmentStages)
  /\ "fragment" \in Earlier(AttachmentStages) /\ "color" \in AttachmentStages
  /\ \A l \in {"color", "depth"} : /\ StageMaskForLayout[l] \subseteq AttachmentStages
                                   /\ AccessMaskForLayout[l] \subseteq AttachmentAccesses
  /\ "fragment" \in StageMaskForLayout["general"]
<1>1. AttachmentStages \in SUBSET Stages /\ "color" \in AttachmentStages
  BY StageNames DEF AttachmentStages
<1>2. AttachmentStages \subseteq Earlier(AttachmentStages) /\ AttachmentStages \subseteq Later(AttachmentStages)
  BY <1>1, Masks
<1>3. "fragment" \in Earlier(AttachmentStages)
  <2>1. "fragment" \in Precede(Graphics, "color")
    <3>1. Graphics[6] = "fragment" /\ Graphics[8] = "color" /\ 6 \in DOMAIN Graphics /\ 8 \in DOMAIN Graphics
      BY DEF Graphics
    <3>2. 6 <= 8
      OBVIOUS
    <3>3. QED
      BY <3>1, <3>2 DEF Precede
  <2>2. "fragment" \in EarlierThan["color"]
    BY <1>1, <2>1 DEF EarlierThan
  <2>3. QED
    BY <1>1, <2>2 DEF Earlier
<1>4. \A l \in {"color", "depth"} : /\ StageMaskForLayout[l] \subseteq AttachmentStages
                                    /\ AccessMaskForLayout[l] \subseteq AttachmentAccesses
  BY DEF StageMaskForLayout, AccessMaskForLayout, AttachmentStages, AttachmentAccesses
<1>5. "fragment" \in StageMaskForLayout["general"]
  BY DEF StageMaskForLayout
<1>6. QED
  BY <1>1, <1>2, <1>3, <1>4, <1>5

\* A pass waits for what was done to its attachments before it.
LEMMA IncomingReaches ==
  ASSUME NEW p, NEW l \in AttachmentLayouts, Held(p, l), Usable(p, l) \/ l # "general"
  PROVE  Reaches(p, Incoming(0), TRUE) /\ (IsWrite(p.access) => Avails(p, Incoming(0), TRUE))
<1> DEFINE b == Incoming(0)
<1>1. b.src = AttachmentStages /\ b.src_access = AttachmentAccesses
  BY DEF Incoming, SubpassDependency
<1> HIDE DEF b
<1>2. CASE l \in {"color", "depth"}
  <2>1. StageMaskForLayout[l] \subseteq b.src /\ AccessMaskForLayout[l] \subseteq b.src_access
    BY <1>1, <1>2, AttachmentMasks
  <2>2. Covered(p, l)
    BY DEF Held
  <2>3. QED
    BY <2>1, <2>2, CoveredReaches DEF b
<1>3. CASE l = "general"
  <2>1. l \in WritableLayouts /\ Usable(p, l)
    BY <1>3 DEF WritableLayouts
  <2>2. "fragment" \in p.after /\ (IsWrite(p.access) => "fragment" \in p.avail)
    BY <1>3, <2>1, AttachmentMasks DEF Usable
  <2>3. "fragment" \in Earlier(b.src)
    BY <1>1, AttachmentMasks
  <2>4. QED
    BY <2>2, <2>3 DEF Reaches, Avails, b
<1>4. QED
  BY <1>2, <1>3 DEF AttachmentLayouts

\* The accesses of the pass's attachments are ordered after what its dependency waits for.
LEMMA IncomingOrders ==
  ASSUME NEW p \in PastAccess, p.at = External, NEW deps, Incoming(0) \in deps,
         Reaches(p, Incoming(0), TRUE), IsWrite(p.access) => Avails(p, Incoming(0), TRUE)
  PROVE  LET q == Seen(p, deps, 0) IN
         /\ "color" \in q.after /\ (IsWrite(p.access) => "color" \in q.avail)
         /\ \A s, a : <<s, a>> \in AttachmentScope =>
               IF IsWrite(p.access) THEN <<s, a>> \in q.visible ELSE s \in q.after
<1> DEFINE b == Incoming(0)
           q == Seen(p, deps, 0)
<1>0. External \in Int /\ 0 \in Int /\ External <= 0 /\ External # 0 /\ External \in External .. 0 - 1
  BY DEF External
<1>1. PICK view : /\ \A j \in External .. 0 : view[j] = SeenBy(p, deps, view, j)
                  /\ q = view[0]
  BY <1>0, SeenIsView
<1> DEFINE into == Into(p, deps, 0)
           v == [d \in into |-> view[d.from]]
           own == [d \in into |-> d.from = p.at]
<1> HIDE DEF q
<1>2. view[External] = p /\ q = After(p, into, v, own, TRUE)
  <2>1. External \in External .. 0 /\ 0 \in External .. 0
    BY <1>0
  <2>2. view[External] = SeenBy(p, deps, view, External) /\ q = SeenBy(p, deps, view, 0)
    BY <1>1, <2>1
  <2>3. SeenStart(p) = p
    BY DEF SeenStart
  <2>4. QED
    BY <1>0, <2>2, <2>3 DEF SeenBy
<1>3. /\ b.from = External /\ b.to = 0 /\ b.dst = AttachmentStages /\ b.dst_access = AttachmentAccesses
  BY DEF Incoming, SubpassDependency
<1>4. b \in into
  BY <1>0, <1>3 DEF Into
<1> HIDE DEF b, into
<1>5. v[b] = p /\ own[b] = TRUE
  BY <1>2, <1>3, <1>4
<1>6. Reaches(v[b], b, own[b]) /\ (IsWrite(p.access) => Avails(v[b], b, own[b]))
  BY <1>5 DEF b
<1> HIDE DEF v, own
<1>7. /\ Later(b.dst) \subseteq q.after
      /\ IsWrite(p.access) => Later(b.dst) \subseteq q.avail /\ Scope(b.dst, b.dst_access) \subseteq q.visible
  BY <1>2, <1>4, <1>6, AfterOrders
<1>8. AttachmentStages \subseteq Later(b.dst) /\ "color" \in AttachmentStages
      /\ Scope(b.dst, b.dst_access) = AttachmentScope
  BY <1>3, AttachmentMasks DEF AttachmentScope
<1>9. \A s, a : <<s, a>> \in AttachmentScope => s \in AttachmentStages
  BY ScopeIs DEF AttachmentScope
<1>10. QED
  BY <1>7, <1>8, <1>9 DEF q

\* So they do not race with it.
LEMMA IncomingRaces ==
  ASSUME NEW p \in PastAccess, p.at = External, NEW deps, Incoming(0) \in deps, \A b \in deps : IsDependency(b),
         Reaches(p, Incoming(0), TRUE), IsWrite(p.access) => Avails(p, Incoming(0), TRUE),
         NEW s, NEW a, <<s, a>> \in AttachmentScope
  PROVE  ~Races(Seen(p, deps, 0), s, a)
<1>1. Seen(p, deps, 0).access = p.access
  BY SeenExtends DEF External
<1>2. QED
  BY <1>1, IncomingOrders DEF Races

\* An access to an attachment that the pass makes, or that it waits for.
MadeOrAwaited(p) ==
  \/ p.at = 0 /\ <<p.stage, p.access>> \in AttachmentScope
  \/ /\ p.at = External /\ Reaches(p, Incoming(0), TRUE)
     /\ IsWrite(p.access) => Avails(p, Incoming(0), TRUE)

\* A transition at the end of the pass waits for them.
LEMMA OutgoingAwaits ==
  ASSUME NEW d, NEW u, NEW deps, Incoming(0) \in deps, Outgoing(0, 1) \in deps, \A b \in deps : IsDependency(b),
         \A p \in d.past[u] : p \in PastAccess /\ MadeOrAwaited(p)
  PROVE  ~Unordered(d, u, [all |-> deps, into |-> {b \in deps : b.to = 1}])
<1> DEFINE b == Outgoing(0, 1)
           out == {e \in deps : e.to = 1}
<1>1. SUFFICES ASSUME NEW p \in d.past[u]
               PROVE  LET into == {e \in out : e.from >= p.at}
                      IN Awaited(p, into, [e \in into |-> Seen(p, deps, e.from)],
                                 [e \in into |-> e.from = p.at])
  BY DEF Unordered
<1> DEFINE into == {e \in out : e.from >= p.at}
           v == [e \in into |-> Seen(p, deps, e.from)]
           own == [e \in into |-> e.from = p.at]
           q == Seen(p, deps, 0)
<1>2. /\ b.from = 0 /\ b.to = 1 /\ b.src = AttachmentStages /\ b.src_access = AttachmentAccesses
  BY DEF Outgoing, SubpassDependency
<1>3. p \in PastAccess /\ MadeOrAwaited(p) /\ (p.at = 0 \/ p.at = External)
  BY DEF MadeOrAwaited
<1>4. b \in into
  BY <1>2, <1>3 DEF External
<1> HIDE DEF b, into
<1>5. v[b] = q /\ own[b] = (p.at = 0)
  BY <1>2, <1>4
<1>6. q.stage = p.stage /\ q.access = p.access
  BY <1>3, SeenExtends DEF External
<1> HIDE DEF v, own, q
<1>7. Reaches(q, b, p.at = 0) /\ (IsWrite(p.access) => Avails(q, b, p.at = 0))
  <2>1. CASE p.at = 0 /\ <<p.stage, p.access>> \in AttachmentScope
    <3>1. q.stage \in AttachmentStages
      BY <1>6, <2>1, ScopeIs DEF AttachmentScope
    <3>2. q.stage \in Earlier(b.src) /\ <<q.stage, q.access>> \in Scope(b.src, b.src_access)
      BY <1>2, <1>6, <2>1, <3>1, AttachmentMasks DEF AttachmentScope
    <3>3. QED
      BY <2>1, <3>2 DEF Reaches, Avails
  <2>2. CASE /\ p.at = External /\ Reaches(p, Incoming(0), TRUE)
             /\ IsWrite(p.access) => Avails(p, Incoming(0), TRUE)
    <3>1. "color" \in q.after /\ (IsWrite(p.access) => "color" \in q.avail)
      BY <1>3, <2>2, IncomingOrders DEF q
    <3>2. "color" \in Earlier(b.src)
      BY <1>2, AttachmentMasks
    <3>3. QED
      BY <3>1, <3>2 DEF Reaches, Avails
  <2>3. QED
    BY <1>3, <2>1, <2>2 DEF MadeOrAwaited
<1>8. Reaches(v[b], b, own[b]) /\ (IsWrite(p.access) => Avails(v[b], b, own[b]))
  BY <1>5, <1>7
<1>9. Awaited(p, into, v, own)
  BY <1>4, <1>8 DEF Awaited
<1>10. QED
  BY <1>9 DEF into, v, own

\* A pass of one subpass uses its attachments as such, and what it is bound as it fits.
FitsPass(uses, d, attached) ==
  \A x \in uses :
     /\ x.on # Temporary
     /\ x.on \in attached => /\ x.layout = d.layout[x.on] /\ <<x.stage, x.access>> \in AttachmentScope
                             /\ x.layout # "general" => <<x.stage, x.access>> \in LayoutScope(x.layout)
     /\ x.on \in Units \ attached => x.layout = d.layout[x.on] /\ Fits(x, x.layout)

\* A subpass whose attachments are in its layouts makes accesses and nothing else.
LEMMA SubpassUsesOnly ==
  ASSUME NEW d \in Device, NEW uses, NEW attached, Changed(d, uses, attached) = {}, NEW deps, NEW k
  PROVE  Subpass(d, uses, attached, deps, k) = UseIn(d, uses, deps, k)
<1> DEFINE into == {e \in deps : e.to = k}
           changed == Changed(d, uses, attached)
           races == d.races \cup {u \in changed : Unordered(d, u, [all |-> deps, into |-> into])}
           past == [r \in Resources |-> IF r \in changed THEN {Transitioned(into, k)} ELSE d.past[r]]
           layout == [u \in Units |-> IF u \in changed THEN (CHOOSE x \in uses : x.on = u).layout
                                                       ELSE d.layout[u]]
           ready == [d EXCEPT !.races = races, !.past = past, !.layout = layout]
<1>1. Subpass(d, uses, attached, deps, k) = UseIn(ready, uses, deps, k)
  BY DEF Subpass, Device
<1>2. races = d.races /\ past = d.past /\ layout = d.layout
  <2>1. races = d.races
    OBVIOUS
  <2>2. past = d.past
    BY DEF Device
  <2>3. layout = d.layout
    BY DEF Device
  <2>4. QED
    BY <2>1, <2>2, <2>3
<1> HIDE DEF races, past, layout
<1>3. ready = d
  BY <1>2 DEF Device
<1>4. QED
  BY <1>1, <1>3

\* The beginning of a pass changes nothing when its attachments are where they should be.
LEMMA BeginsSame ==
  ASSUME NEW d \in Device, NEW attachments, PassAttachments(d, attachments)
  PROVE  Begun(d, attachments) = d
<1>1. {a.on : a \in {a \in ToSet(attachments) : a.initial # d.layout[a.on]}} = {}
  BY DEF PassAttachments
<1>2. Begun(d, attachments) = [d EXCEPT !.mislaid = d.mislaid]
  BY <1>1 DEF Begun, Device
<1>3. QED
  BY <1>2 DEF Device

\* What it does to what it is ready for is no race.
LEMMA PassRaces ==
  ASSUME NEW d, Calm(d), NEW attachments, PassAttachments(d, attachments),
         \A a \in ToSet(attachments) : a.initial \in AttachmentLayouts,
         NEW deps, Incoming(0) \in deps, \A b \in deps : IsDependency(b),
         NEW uses \in SUBSET UseType, FitsPass(uses, d, Attached(attachments)),
         ReadyIn(d, Attached(attachments) \cup (UsedBy(uses) \cap Units))
  PROVE  /\ \A u \in Attached(attachments) : \A p \in d.past[u] : MadeOrAwaited(p)
         /\ \A r \in Units \cup {Temporary} : ~RacesWith(d, uses, deps, 0, r)
<1> DEFINE attached == Attached(attachments)
<1>1. \A r \in Resources : \A p \in d.past[r] : p \in PastAccess /\ p.at = External
  BY DEF Calm, Device, Outside
<1>2. \A u \in attached : u \in Units /\ d.layout[u] \in AttachmentLayouts
  BY DEF PassAttachments, AttachmentType, Attached
<1>3. ASSUME NEW u \in attached, NEW p \in d.past[u]
      PROVE  Reaches(p, Incoming(0), TRUE) /\ (IsWrite(p.access) => Avails(p, Incoming(0), TRUE))
  <2>1. Held(p, d.layout[u])
    BY <1>2 DEF Calm, HeldIn
  <2>2. d.layout[u] = "general" => Usable(p, d.layout[u])
    BY DEF ReadyIn, UsedLayouts, WritableLayouts
  <2>3. QED
    BY <1>2, <2>1, <2>2, IncomingReaches
<1>4. \A u \in attached : \A p \in d.past[u] : MadeOrAwaited(p)
  BY <1>1, <1>2, <1>3, BuffersAre DEF MadeOrAwaited
<1>5. ASSUME NEW x \in uses, x.on \in Units \cup {Temporary}, NEW p \in d.past[x.on],
             Races(Seen(p, deps, 0), x.stage, x.access)
      PROVE  FALSE
  <2>1. x.on \in Units /\ p \in PastAccess /\ p.at = External
    BY <1>1, <1>5, BuffersAre DEF FitsPass
  <2>2. CASE x.on \in attached
    <3>1. <<x.stage, x.access>> \in AttachmentScope
      BY <2>2 DEF FitsPass
    <3>2. QED
      BY <1>3, <1>5, <2>1, <2>2, <3>1, IncomingRaces
  <2>3. CASE x.on \notin attached
    <3>1. x.layout = d.layout[x.on] /\ Fits(x, d.layout[x.on])
      BY <2>1, <2>3 DEF FitsPass
    <3>2. Usable(p, d.layout[x.on])
      BY <2>1, <3>1 DEF ReadyIn, Fits, UsedBy
    <3>3. ~Races(p, x.stage, x.access)
      BY <3>1, <3>2, UsableOrders DEF Fits
    <3>4. Extends(Seen(p, deps, 0), p)
      BY <2>1, SeenExtends DEF External
    <3>5. QED
      BY <1>5, <3>3, <3>4, ExtendsRaces
  <2>4. QED
    BY <2>2, <2>3
<1>6. \A r \in Units \cup {Temporary} : ~RacesWith(d, uses, deps, 0, r)
  BY <1>5 DEF RacesWith
<1>7. QED
  BY <1>4, <1>6

\* An access that a pass leaves, as it leaves it.
SeenAfter(p, deps) == [Seen(p, deps, 1) EXCEPT !.at = External]

\* It is held as it was, or as the access that it is.
LEMMA SeenAfterHeld ==
  ASSUME NEW p \in PastAccess, p.at \in {External, 0}, NEW deps, \A b \in deps : IsDependency(b),
         NEW l \in LayoutNames
  PROVE  LET q == SeenAfter(p, deps) IN
         /\ q \in PastAccess /\ q.at = External
         /\ p.at = External /\ Held(p, l) => Held(q, l)
         /\ <<p.stage, p.access>> \in LayoutScope(l) => Held(q, l)
<1> DEFINE s == Seen(p, deps, 1)
           q == SeenAfter(p, deps)
<1>1. External \in Int /\ p.at <= 1 /\ External <= 0
  BY DEF External
<1>2. /\ s \in PastAccess /\ s.stage = p.stage /\ s.access = p.access /\ s.at = p.at
      /\ p.at = External => Extends(s, p)
  BY <1>1, SeenExtends
<1> HIDE DEF s
<1>3. /\ q \in PastAccess /\ q.stage = s.stage /\ q.access = s.access /\ q.at = External
      /\ q.after = s.after /\ q.avail = s.avail /\ q.visible = s.visible
  BY <1>1, <1>2 DEF SeenAfter, PastAccess, s
<1> HIDE DEF q
<1>4. p.at = External => Extends(q, p)
  BY <1>2, <1>3 DEF Extends
<1>5. QED
  BY <1>2, <1>3, <1>4, HeldExtends, AccessedHeld DEF q

\* What a pass of one subpass leaves on images.
LEMMA PassOrders ==
  ASSUME NEW d, Calm(d), Unfilled(d), NEW attachments, PassAttachments(d, attachments),
         \A a \in ToSet(attachments) : EndsPlainly(a), NEW uses \in SUBSET UseType,
         FitsPass(uses, d, Attached(attachments)),
         ReadyIn(d, Attached(attachments) \cup (UsedBy(uses) \cap Units))
  PROVE  LET e == RunRenderPass(d, attachments, RenderPassDependencies, <<uses>>) IN
         e \in Device /\ Outside(e) /\ HeldIn(e) /\ NoImageRace(e, d) /\ Unfilled(e)
<1> DEFINE attached == Attached(attachments)
           deps == AllDependencies(d, attachments, RenderPassDependencies, <<uses>>)
           e == RunRenderPass(d, attachments, RenderPassDependencies, <<uses>>)
           done == UseIn(d, uses, deps, 0)
           out == {b \in deps : b.to = 1}
           final == Finals(done, attachments)
<1>1. /\ Incoming(0) \in deps /\ Outgoing(0, 1) \in deps /\ \A b \in deps : IsDependency(b)
  <2>1. \A b \in deps : IsDependency(b)
    BY PassDependencies, ImplicitDependencies
  <2>2. QED
    BY <2>1 DEF AllDependencies, RenderPassDependencies
<1>2. attached \subseteq Units /\ \A u \in attached : u \in Resources
  BY BuffersAre DEF PassAttachments, AttachmentType, Attached
<1>3. d \in Device /\ Outside(d) /\ HeldIn(d)
  BY DEF Calm
<1>4. e = Ended(done, attachments, deps, 1)
  <2>1. Len(<<uses>>) = 1 /\ <<uses>>[1] = uses
    OBVIOUS
  <2>2. PICK run : Ran(run, d, attachments, deps, <<uses>>) /\ e = Ended(run[1], attachments, deps, 1)
    <3>1. Len(<<uses>>) \in Nat
      BY <2>1
    <3> HIDE DEF e, deps
    <3>2. \E run : /\ Ran(run, d, attachments, deps, <<uses>>)
                   /\ e = Ended(run[Len(<<uses>>)], attachments, deps, Len(<<uses>>))
      BY <3>1, RunRenderPassIs DEF e, deps
    <3>3. QED
      BY <2>1, <3>2
  <2> HIDE DEF e, deps
  <2>3. run[0] = d
    BY <1>3, <2>2, BeginsSame DEF Ran
  <2>4. run[1] = Subpass(run[0], uses, attached, deps, 0)
    BY <2>1, <2>2 DEF Ran
  <2>5. Changed(d, uses, attached) = {}
    BY DEF Changed, FitsPass
  <2>6. Subpass(d, uses, attached, deps, 0) = done
    BY <1>3, <2>5, SubpassUsesOnly
  <2>7. QED
    BY <2>2, <2>3, <2>4, <2>6
<1> HIDE DEF e, deps
<1>5. /\ \A u \in attached : \A p \in d.past[u] : MadeOrAwaited(p)
      /\ \A r \in Units \cup {Temporary} : ~RacesWith(d, uses, deps, 0, r)
  BY <1>1, PassRaces DEF EndsPlainly
<1>6. /\ done \in Device /\ done.layout = d.layout
      /\ \A r \in Resources : \A p \in done.past[r] : KeptOrMade(d, uses, 0, r, p)
      /\ \A r \in done.races : r \in d.races \/ RacesWith(d, uses, deps, 0, r)
  <2> DEFINE first == 0
  <2>1. first \in Int
    OBVIOUS
  <2>2. done = UseIn(d, uses, deps, first)
    OBVIOUS
  <2> HIDE DEF done, first
  <2>3. /\ done \in Device /\ done.layout = d.layout
        /\ \A r \in Resources : \A p \in done.past[r] : KeptOrMade(d, uses, first, r, p)
        /\ \A r \in done.races : r \in d.races \/ RacesWith(d, uses, deps, first, r)
    BY <1>3, <2>1, <2>2, UseInEffect
  <2>4. QED
    BY <2>3 DEF first
<1> HIDE DEF done
<1>7. \A r \in Resources : \A p \in done.past[r] :
         /\ p \in PastAccess
         /\ \/ p \in d.past[r] /\ p.at = External
            \/ \E x \in uses : x.on = r /\ p.at = 0 /\ p.stage = x.stage /\ p.access = x.access
  BY <1>3, <1>6 DEF KeptOrMade, Accessed, Device, Outside
<1>8. MadeBefore(done, 1)
  BY <1>7 DEF MadeBefore, External
<1>9. e \in Device /\ Outside(e) /\ EndLayouts(e, done, attachments)
  BY <1>1, <1>4, <1>6, <1>8, EndedEffect
<1>10. /\ e.races = done.races \cup {u \in DOMAIN final : Unordered(done, u, [all |-> deps, into |-> out])}
       /\ e.past = [r \in Resources |->
                      IF r \in DOMAIN final THEN {Transitioned(out, External)}
                      ELSE {SeenAfter(p, deps) : p \in done.past[r]}]
  BY <1>4, <1>6 DEF Ended, SeenAfter, Device
<1>11. DOMAIN final \subseteq attached /\ \A a \in ToSet(attachments) : EndLayout(done, attachments, a.on) = a.final
  BY <1>6, FinalsAre
<1>12. \A u \in DOMAIN final : EndLayout(done, attachments, u) = "transfer_src"
  <2>1. SUFFICES ASSUME NEW u \in DOMAIN final PROVE EndLayout(done, attachments, u) = "transfer_src"
    OBVIOUS
  <2>2. PICK a \in ToSet(attachments) : a.on = u /\ a.final # done.layout[u]
    BY DEF Finals
  <2>3. a.initial = done.layout[u]
    BY <1>6, <2>2 DEF PassAttachments
  <2>4. a.final = "transfer_src"
    BY <2>2, <2>3 DEF EndsPlainly
  <2>5. QED
    BY <1>11, <2>2, <2>4
<1>13. \A u \in Units \ DOMAIN final : EndLayout(done, attachments, u) = d.layout[u]
  BY <1>6 DEF EndLayout
<1>14. \A u \in attached \ DOMAIN final : d.layout[u] \in {"color", "depth"}
  <2>1. SUFFICES ASSUME NEW u \in attached \ DOMAIN final PROVE d.layout[u] \in {"color", "depth"}
    OBVIOUS
  <2>2. PICK a \in ToSet(attachments) : a.on = u
    BY DEF Attached
  <2>3. a.final = d.layout[u] /\ a.initial = d.layout[u]
    BY <1>2, <1>11, <1>13, <2>2 DEF PassAttachments
  <2>4. QED
    BY <2>2, <2>3 DEF EndsPlainly, AttachmentLayouts
<1>15. \A u \in attached : \A p \in done.past[u] : p \in PastAccess /\ MadeOrAwaited(p)
  <2>1. SUFFICES ASSUME NEW u \in attached, NEW p \in done.past[u] PROVE p \in PastAccess /\ MadeOrAwaited(p)
    OBVIOUS
  <2>2. CASE p \in d.past[u]
    BY <1>2, <1>5, <1>7, <2>2
  <2>3. ASSUME NEW x \in uses, x.on = u, p.at = 0, p.stage = x.stage, p.access = x.access PROVE MadeOrAwaited(p)
    BY <2>3 DEF MadeOrAwaited, FitsPass
  <2>4. QED
    BY <1>2, <1>7, <2>2, <2>3
<1> HIDE DEF final, out
<1>16. NoImageRace(e, d)
  <2>1. \A u \in DOMAIN final : ~Unordered(done, u, [all |-> deps, into |-> out])
    BY <1>1, <1>11, <1>15, OutgoingAwaits DEF out
  <2>2. QED
    BY <1>5, <1>6, <1>10, <2>1 DEF NoImageRace
<1>17. HeldIn(e)
  <2>1. SUFFICES ASSUME NEW u \in Units, NEW q \in e.past[u] PROVE Held(q, e.layout[u])
    BY DEF HeldIn
  <2>2. u \in Resources /\ e.layout[u] = EndLayout(done, attachments, u) /\ d.layout[u] \in LayoutNames
    BY <1>3, <1>9, BuffersAre DEF EndLayouts, Device
  <2>3. CASE u \in DOMAIN final
    <3>1. q = Transitioned(out, External) /\ e.layout[u] = "transfer_src"
      BY <1>10, <1>12, <2>2, <2>3
    <3>2. LET b == Outgoing(0, 1) IN
          /\ b \in out /\ b.dst = StageMaskForLayout["transfer_src"]
          /\ b.dst_access = AccessMaskForLayout["transfer_src"]
      BY <1>1 DEF out, Outgoing, SubpassDependency, StageMaskForLayout, AccessMaskForLayout
    <3>3. QED
      BY <3>1, <3>2, TransitionedUsable, TransferLayouts
  <2>4. CASE u \notin DOMAIN final
    <3>1. e.layout[u] = d.layout[u]
      BY <1>13, <2>2, <2>4
    <3>2. PICK p \in done.past[u] : q = SeenAfter(p, deps)
      BY <1>10, <2>2, <2>4
    <3>3. CASE p \in d.past[u] /\ p.at = External
      <4>1. Held(p, d.layout[u]) /\ p \in PastAccess
        BY <1>3, <1>7, <2>2, <3>3 DEF HeldIn
      <4>2. QED
        BY <1>1, <2>2, <3>1, <3>2, <3>3, <4>1, SeenAfterHeld
    <3>4. ASSUME NEW x \in uses, x.on = u, p.at = 0, p.stage = x.stage, p.access = x.access
          PROVE  Held(q, e.layout[u])
      <4>1. p \in PastAccess
        BY <1>7, <2>2
      <4>2. <<x.stage, x.access>> \in LayoutScope(d.layout[u])
        <5>1. CASE u \in attached
          <6>1. d.layout[u] \in {"color", "depth"} /\ x.layout = d.layout[u]
            BY <1>14, <2>4, <3>4, <5>1 DEF FitsPass
          <6>2. QED
            BY <3>4, <5>1, <6>1 DEF FitsPass
        <5>2. CASE u \notin attached
          BY <3>4, <5>2 DEF FitsPass, Fits
        <5>3. QED
          BY <5>1, <5>2
      <4>3. QED
        BY <1>1, <2>2, <3>1, <3>2, <3>4, <4>1, <4>2, SeenAfterHeld
    <3>5. QED
      BY <1>7, <2>2, <3>3, <3>4
  <2>5. QED
    BY <2>3, <2>4
<1>18. Unfilled(e)
  <2>1. Temporary \in Resources /\ Temporary \notin DOMAIN final
    BY <1>2, <1>11, BuffersAre
  <2>2. done.past[Temporary] = {}
    BY <1>7, <2>1 DEF Unfilled, FitsPass
  <2>3. QED
    BY <1>10, <2>1, <2>2 DEF Unfilled
<1>19. QED
  BY <1>9, <1>16, <1>17, <1>18 DEF e

\* The transitions of attachments promise what a transition does, and bring them all there.
LEMMA AttachmentsStay ==
  ASSUME NEW d, Calm(d), NEW attachments \in Seq(AttachmentType)
  PROVE  LET e == TransitionAttachments(d, attachments) IN
         Stays(e, d) /\ ReadyIn(e, Attached(attachments))
<1> DEFINE n == Len(attachments)
           e == TransitionAttachments(d, attachments)
           all == ToSet(attachments)
           U == [k \in 1 .. n |-> {attachments[k].on}]
           L == [k \in 1 .. n |-> attachments[k].initial]
           V == {}
<1>1. /\ n \in Nat /\ all = {attachments[k] : k \in 1 .. n}
      /\ \A k \in 1 .. n : attachments[k] \in AttachmentType
  BY DEF ToSet
<1>2. e = AttachmentFold!Fold(0, d, attachments)
  BY DEF TransitionAttachments, FoldLeft, MapThenFoldSet, Max, AttachmentFold!Fold,
     AttachmentFold!Iteration, AttachmentFold!Top, AttachmentStep
<1>3. PICK p : AttachmentFold!Through(0, p, d, attachments) /\ e = p[n]
  BY <1>2, AttachmentFold!FoldThrough
<1> HIDE DEF e
<1>4. p[0] = d /\ \A k \in 1 .. n : p[k] = AttachmentStep(0, p[k - 1], attachments[k])
  BY <1>3 DEF AttachmentFold!Through
<1> HIDE DEF n, all
<1>5. Moves(p, n, U, L)
  <2>1. SUFFICES ASSUME NEW k \in 1 .. n
                 PROVE  /\ p[k] = TransitionImageRange(p[k - 1], U[k], L[k])
                        /\ U[k] \in SUBSET Units /\ L[k] \in LayoutNames
    BY DEF Moves
  <2>2. attachments[k].on \in Units /\ attachments[k].initial \in LayoutNames
    BY <1>1 DEF AttachmentType
  <2>3. p[k] = TransitionImageRange(p[k - 1], {attachments[k].on}, attachments[k].initial)
    BY <1>4 DEF AttachmentStep
  <2>4. U[k] = {attachments[k].on} /\ L[k] = attachments[k].initial
    OBVIOUS
  <2>5. QED
    BY <2>2, <2>3, <2>4
<1>6. Attached(attachments) \subseteq MovedBy(n, U)
  <2>1. SUFFICES ASSUME NEW a \in all PROVE a.on \in MovedBy(n, U)
    BY DEF Attached, all
  <2>2. PICK k \in 1 .. n : a = attachments[k]
    BY <1>1
  <2>3. a.on \in Units /\ a.on \in U[k]
    BY <1>1, <2>2 DEF AttachmentType
  <2>4. QED
    BY <2>3 DEF MovedBy
<1>7. V \in SUBSET Units /\ ReadyIn(d, V)
  BY DEF ReadyIn
<1> HIDE DEF U, L, V
<1>8. Stays(e, d) /\ ReadyIn(e, V \cup MovedBy(n, U))
  BY <1>1, <1>3, <1>4, <1>5, <1>7, MovesStay
<1>9. QED
  BY <1>6, <1>8 DEF ReadyIn, e

\* What a pass is given whenever its attachments and what it binds are where they should be.
PassWillFit(attachments, bound, uses) ==
  LET attached == Attached(attachments)
  IN \A r : BoundReady(r, bound, attached) /\ AttachmentsIn(r, attachments) =>
       /\ uses \in SUBSET UseType /\ FitsPass(uses, r, attached)
       /\ UsedBy(uses) \cap Units \subseteq attached \cup BoundUnits(bound, attached)

\* A render pass of one subpass with all around it promises what a command does of images.
LEMMA AroundPassOrders ==
  ASSUME NEW d, Fine(d), HeldIn(d), Unfilled(d), NEW attachments \in Seq(AttachmentType),
         NEW colors \in Seq(AttachmentType), Alike(attachments), ColorsCover(attachments, colors),
         \A a \in ToSet(attachments) : EndsPlainly(a), NEW bound \in Seq(Bindings),
         NEW uses, PassWillFit(attachments, bound, uses), NEW writes \in BOOLEAN,
         NEW e, e = AroundPass(d, attachments, colors, bound, RenderPassDependencies, <<uses>>, writes),
         Fine(e)
  PROVE  Orders(e, d)
<1> DEFINE attached == Attached(attachments)
           placed == TransitionAttachments(d, attachments)
           ready == TransitionStorage(TransitionSampled(placed, bound, attached), bound, attached)
           done == RunRenderPass(ready, attachments, RenderPassDependencies, <<uses>>)
           after == IF writes THEN Barrier(done, RenderPassShaderWrite, Resources) ELSE done
           W == attached \cup BoundUnits(bound, attached)
<1>1. e = SetLayouts(after, colors)
  BY DEF AroundPass, Attached, RecordMemoryBarrier
<1> HIDE DEF attached, W
<1>2. Calm(d) /\ ToSet(attachments) \subseteq AttachmentType
  BY DEF Fine, Calm, ToSet
<1>3. Keeps(placed, d) /\ AttachmentsIn(placed, attachments)
  BY AttachmentsKeep
<1>4. Stays(placed, d) /\ ReadyIn(placed, attached)
  BY <1>2, AttachmentsStay DEF attached
<1>5. attached \in SUBSET Units
  BY <1>2 DEF attached, Attached, AttachmentType
<1> HIDE DEF placed
<1>6. /\ BoundReady(ready, bound, attached) /\ \A u \in Units \cap attached : ready.layout[u] = placed.layout[u]
  BY <1>3, TexturesKeep DEF Keeps
<1>7. Stays(ready, placed) /\ ReadyIn(ready, W)
  <2>1. Calm(placed)
    BY <1>4 DEF Stays
  <2> HIDE DEF ready
  <2>2. Stays(ready, placed) /\ ReadyIn(ready, attached \cup BoundUnits(bound, attached))
    BY <1>4, <1>5, <2>1, TexturesStay DEF ready
  <2>3. QED
    BY <2>2 DEF W
<1> HIDE DEF ready
<1>8. Calm(ready) /\ Unfilled(ready) /\ NoImageRace(ready, d)
  <2>1. Stays(ready, d)
    BY <1>4, <1>7, StaysOn
  <2>2. QED
    BY <2>1, TemporaryStays DEF Stays
<1>9. AttachmentsIn(ready, attachments) /\ PassAttachments(ready, attachments)
  <2>1. \A a \in ToSet(attachments) : a.on \in Units \cap attached
    BY <1>2 DEF AttachmentType, Attached, attached
  <2>2. AttachmentsIn(ready, attachments)
    BY <1>3, <1>6, <2>1 DEF AttachmentsIn
  <2>3. QED
    BY <1>2, <2>2 DEF PassAttachments, AttachmentsIn, Alike
<1>10. /\ uses \in SUBSET UseType /\ FitsPass(uses, ready, attached)
       /\ ReadyIn(ready, attached \cup (UsedBy(uses) \cap Units))
  <2>1. /\ uses \in SUBSET UseType /\ FitsPass(uses, ready, attached)
        /\ UsedBy(uses) \cap Units \subseteq W
    BY <1>6, <1>9 DEF PassWillFit, attached, W
  <2>2. attached \cup (UsedBy(uses) \cap Units) \subseteq W
    BY <2>1 DEF W
  <2>3. QED
    BY <1>7, <2>1, <2>2 DEF ReadyIn
<1>11. done \in Device /\ Outside(done) /\ HeldIn(done) /\ NoImageRace(done, ready) /\ Unfilled(done)
  BY <1>8, <1>9, <1>10, PassOrders DEF attached
<1> HIDE DEF done
<1>12. after \in Device /\ HeldIn(after) /\ NoImageRace(after, done) /\ Unfilled(after)
  <2>1. CASE writes
    <3>1. after = Barrier(done, RenderPassShaderWrite, Resources) /\ IsDependency(RenderPassShaderWrite)
      BY <2>1, NamedBarriers
    <3> HIDE DEF after
    <3>2. after \in Device /\ after.races = done.races
      BY <1>11, <3>1, BarrierEffect
    <3>3. /\ HeldIn(after)
          /\ \A r \in Resources : \A q \in after.past[r] : \E p \in done.past[r] : Extends(q, p)
      BY <1>11, <3>1, BarrierExtends
    <3>4. Unfilled(after)
      BY <1>11, <3>3, BuffersAre DEF Unfilled
    <3>5. QED
      BY <3>2, <3>3, <3>4 DEF NoImageRace
  <2>2. CASE ~writes
    BY <1>11, <2>2 DEF NoImageRace
  <2>3. QED
    BY <2>1, <2>2
<1> HIDE DEF after
<1>13. Alike(colors)
  BY DEF Alike, ColorsCover
<1>14. e.past = after.past /\ e.layout = after.layout /\ e.races = after.races
  BY <1>1, <1>12, <1>13, SetLayoutsEffect
<1>15. Calm(e) /\ Unfilled(e)
  BY <1>12, <1>14 DEF Calm, Fine, HeldIn, Unfilled
<1>16. NoImageRace(e, d)
  BY <1>8, <1>11, <1>12, <1>14 DEF NoImageRace
<1>17. QED
  BY <1>15, <1>16 DEF Orders

-----------------------------------------------------------------------------
(* Render passes and their attachments                                     *)

\* Accesses of attachments are in their layouts' scopes.
LEMMA AttachmentFits ==
  ASSUME NEW u \in Units
  PROVE  /\ \A l \in {"color", "general"} : \A x \in ColorUses(u, l) :
               /\ <<x.stage, x.access>> \in AttachmentScope
               /\ l # "general" => <<x.stage, x.access>> \in LayoutScope(l)
         /\ \A x \in DepthUses(u) : /\ <<x.stage, x.access>> \in AttachmentScope
                                    /\ <<x.stage, x.access>> \in LayoutScope("depth")
<1>1. \A a \in {"color_read", "color_write"} :
         <<"color", a>> \in AttachmentScope /\ <<"color", a>> \in LayoutScope("color")
  <2>1. /\ "color" \in DOMAIN Accesses /\ {"color_read", "color_write"} \subseteq Accesses["color"]
        /\ "color" \in AttachmentStages /\ {"color_read", "color_write"} \subseteq AttachmentAccesses
        /\ "color" \in StageMaskForLayout["color"]
        /\ {"color_read", "color_write"} \subseteq AccessMaskForLayout["color"]
    BY DEF Accesses, AttachmentStages, AttachmentAccesses, StageMaskForLayout, AccessMaskForLayout
  <2>2. QED
    BY <2>1, ScopeIs DEF AttachmentScope, LayoutScope
<1>2. \A s \in {"early", "late"}, a \in {"depth_read", "depth_write"} :
         <<s, a>> \in AttachmentScope /\ <<s, a>> \in LayoutScope("depth")
  <2>1. /\ {"early", "late"} \subseteq DOMAIN Accesses
        /\ \A s \in {"early", "late"} : {"depth_read", "depth_write"} \subseteq Accesses[s]
        /\ {"early", "late"} \subseteq AttachmentStages
        /\ {"depth_read", "depth_write"} \subseteq AttachmentAccesses
        /\ {"early", "late"} \subseteq StageMaskForLayout["depth"]
        /\ {"depth_read", "depth_write"} \subseteq AccessMaskForLayout["depth"]
    BY DEF Accesses, AttachmentStages, AttachmentAccesses, StageMaskForLayout, AccessMaskForLayout
  <2>2. QED
    BY <2>1, ScopeIs DEF AttachmentScope, LayoutScope
<1>3. \A l \in {"color", "general"} : \A x \in ColorUses(u, l) :
         /\ <<x.stage, x.access>> \in AttachmentScope
         /\ l # "general" => <<x.stage, x.access>> \in LayoutScope(l)
  BY <1>1 DEF ColorUses, Image
<1>4. \A x \in DepthUses(u) : /\ <<x.stage, x.access>> \in AttachmentScope
                              /\ <<x.stage, x.access>> \in LayoutScope("depth")
  BY <1>2 DEF DepthUses, Image
<1>5. QED
  BY <1>3, <1>4

\* What draws do fits what is bound, if their shaders do not write what they sample.
DrawsSample(draws) == \A w \in draws : SampledNotWritten(w)

LEMMA DrawUsesFit ==
  ASSUME NEW r, NEW draws, NEW bound \in Seq(Bindings), NEW attached, BoundReady(r, bound, attached),
         \A w \in draws : DrawIs(w, bound, attached), DrawsSample(draws)
  PROVE  LET uses == DrawUses(draws, bound) IN
         /\ FitIn(uses, r) /\ UsedBy(uses) \cap Units \subseteq BoundUnits(bound, attached)
         /\ Temporary \notin UsedBy(uses)
<1> DEFINE uses == DrawUses(draws, bound)
           stages == {"vertex", "fragment"}
           shader(w) == ShaderUses(w.pipeline, w.binds, bound, stages)
<1>1. ASSUME NEW w \in draws
      PROVE  /\ FitIn(shader(w), r)
             /\ UsedBy(shader(w)) \cap Units \subseteq BoundUnits(bound, attached)
             /\ Temporary \notin UsedBy(shader(w))
  <2> DEFINE pipeline == w.pipeline
             binds == w.binds
  <2>1. binds \in SUBSET Bindings /\ binds \subseteq ToSet(bound)
    BY ToSetIn DEF DrawIs
  <2>2. \A b \in binds : \E i \in DOMAIN bound : b = bound[i]
    BY <2>1 DEF ToSet
  <2>3. \A b \in binds : b.key \in pipeline.declared => b.on \notin attached
    BY DEF DrawIs
  <2>4. SampledNotWritten([pipeline |-> pipeline, binds |-> binds])
    BY DEF DrawsSample, SampledNotWritten
  <2>5. stages \in SUBSET ShaderStages
    BY DEF ShaderStages
  <2>6. shader(w) = ShaderUses(pipeline, binds, bound, stages)
    OBVIOUS
  <2> DEFINE us == ShaderUses(pipeline, binds, bound, stages)
  <2> HIDE DEF shader, stages, pipeline, binds
  <2>7. FitIn(us, r)
    BY <2>1, <2>2, <2>3, <2>4, <2>5, ShaderUsesFit
  <2>8. UsedBy(us) \cap Units \subseteq BoundUnits(bound, attached)
    BY <2>1, <2>2, <2>3, <2>4, <2>5, ShaderUsesFit
  <2>9. Temporary \notin UsedBy(us)
    BY <2>1, <2>2, <2>3, <2>4, <2>5, ShaderUsesFit
  <2> HIDE DEF us
  <2>10. QED
    BY <2>6, <2>7, <2>8, <2>9 DEF us
<1>2. \A w \in draws : w.fetches \subseteq Fetches
  BY DEF DrawIs
<1>3. \A x \in Fetches : x.on \in Buffers
  BY DEF Fetches, Buffer
<1>4. uses = UNION {shader(w) \cup w.fetches : w \in draws}
  BY DEF DrawUses
<1> HIDE DEF uses, shader
<1>5. ASSUME NEW x \in uses
      PROVE  x.on \in Buffers \/ \E w \in draws : x \in shader(w)
  BY <1>2, <1>3, <1>4
<1>6. ASSUME NEW x \in uses
      PROVE  /\ x.on # Temporary
             /\ x.on \in Units => /\ x.layout = r.layout[x.on] /\ Fits(x, x.layout)
                                  /\ x.on \in BoundUnits(bound, attached)
  BY <1>1, <1>5, BuffersAre DEF FitIn, UsedBy
<1>7. QED
  BY <1>6 DEF FitIn, UsedBy, uses

\* Whoever reads an attachment in its shaders can copy from it.
FetchedCopied(c) ==
  \A i \in DOMAIN c.colors : c.colors[i].fetch => ImageOf[c.colors[i].on] \in CopySources

\* Attachments of a render pass end in their own layouts or for copies.
LEMMA AttachmentsEnd ==
  ASSUME NEW c, PassColors(c), c.kind = "render", FetchedCopied(c),
         \A i \in DOMAIN c.colors : c.colors[i].fetch \in BOOLEAN
  PROVE  \A a \in ToSet(Attachments(c)) : EndsPlainly(a)
<1>1. \A u, l : ColorAttachment(u, l).initial = l /\ ColorAttachment(u, l).final = FinalLayout(u)
  BY DEF ColorAttachment, Attachment
<1>2. \A u : FinalLayout(u) = "transfer_src" \/ (FinalLayout(u) = "color" /\ ImageOf[u] \notin CopySources)
  BY DEF FinalLayout
<1>3. SUFFICES ASSUME NEW a \in ToSet(Attachments(c)) PROVE EndsPlainly(a)
  OBVIOUS
<1>4. ASSUME NEW i \in DOMAIN c.colors, a = ColorAttachment(c.colors[i].on, ColorIn(c, i)) PROVE EndsPlainly(a)
  <2>1. a.initial = ColorIn(c, i) /\ a.final = FinalLayout(c.colors[i].on)
    BY <1>1, <1>4
  <2>2. ReadInPass(c, i) = c.colors[i].fetch
    BY DEF ReadInPass
  <2>3. CASE c.colors[i].fetch
    <3>1. a.initial = "general"
      BY <2>1, <2>2, <2>3 DEF ColorIn
    <3>2. a.final = "transfer_src"
      BY <1>2, <2>1, <2>3 DEF FetchedCopied
    <3>3. QED
      BY <3>1, <3>2 DEF EndsPlainly, AttachmentLayouts
  <2>4. CASE ~c.colors[i].fetch
    <3>1. a.initial = "color"
      BY <2>1, <2>2, <2>4 DEF ColorIn
    <3>2. QED
      BY <1>2, <2>1, <3>1 DEF EndsPlainly, AttachmentLayouts
  <2>5. QED
    BY <2>3, <2>4
<1>5. ASSUME NEW u, a = ColorAttachment(u, "color") PROVE EndsPlainly(a)
  BY <1>1, <1>2, <1>5 DEF EndsPlainly, AttachmentLayouts
<1>6. ASSUME NEW u, a = DepthAttachment(u) PROVE EndsPlainly(a)
  BY <1>6 DEF DepthAttachment, Attachment, EndsPlainly, AttachmentLayouts
<1>7. IsColorOf(c, a) \/ \E u \in ToSet(c.depth) : a = DepthAttachment(u)
  BY AttachmentsAre
<1>8. QED
  BY <1>4, <1>5, <1>6, <1>7 DEF IsColorOf

\* A render pass orders what it does to images, if its shaders do not write what they
\* sample and read only attachments that can be copied from.
LEMMA RenderPassOrders ==
  ASSUME NEW d, Fine(d), HeldIn(d), Unfilled(d), NEW c, c.kind = "render",
         c.colors \in Seq([on : Units, fetch : BOOLEAN, resolve : Seq(Units)]), c.depth \in Seq(Units),
         c.stream \in Seq(StreamCommand), AttachmentsMatch(c), \A w \in DrawsOf(c) : BindGroupsMatch(w),
         FetchedCopied(c), DrawsSample(DrawsOf(c)), Fine(RenderPass(d, c))
  PROVE  Orders(RenderPass(d, c), d)
<1> DEFINE walk == Walk(c.stream)
           atts == Attachments(c)
           cols == ColorAttachments(c)
           attached == Attached(atts)
           own == (UNION {ColorUses(a.on, a.initial) : a \in ToSet(cols)})
                    \cup (UNION {DepthUses(u) : u \in ToSet(c.depth)})
           drawn == DrawUses(walk.draws, walk.bound)
           uses == own \cup drawn
<1>1. PassColors(c) /\ \A i \in DOMAIN c.colors : c.colors[i].fetch \in BOOLEAN
  <2> DEFINE Slot == [on : Units, fetch : BOOLEAN, resolve : Seq(Units)]
  <2>1. \A x \in Slot : x.on \in Units /\ x.resolve \in Seq(Units) /\ x.fetch \in BOOLEAN
    OBVIOUS
  <2> HIDE DEF Slot
  <2>2. c.colors \in Seq(Slot)
    BY DEF Slot
  <2>3. /\ Len(c.colors) \in Nat /\ DOMAIN c.colors = 1 .. Len(c.colors)
        /\ \A i \in DOMAIN c.colors : c.colors[i] \in Slot
    BY <2>2
  <2>4. QED
    BY <2>1, <2>3 DEF PassColors
<1>2. walk \in WalkType /\ WalkHolds(walk)
  BY StreamWalks DEF Walks
<1>3. InitialsMatch(c) /\ NotBound(c)
  BY MatchIs
<1>4. /\ atts \in Seq(AttachmentType) /\ cols \in Seq(AttachmentType)
      /\ Alike(atts) /\ ColorsCover(atts, cols) /\ attached \in SUBSET Units
  BY <1>1, <1>3, AttachmentsAre, ColorAttachmentsAre, AttachmentsAlike, AttachedAre
<1>5. DrawsOf(c) = walk.draws
  BY DEF DrawsOf
<1>6. /\ walk.bound \in Seq(Bindings) /\ walk.writes \in BOOLEAN
      /\ \A w \in walk.draws : w \in DrawType
  BY <1>2 DEF WalkType
<1>7. \A w \in walk.draws : DrawIs(w, walk.bound, attached)
  <2>1. \A w \in walk.draws : w.binds \subseteq ToSet(walk.bound) /\ w.fetches \subseteq Fetches
    BY <1>2, <1>6 DEF WalkHolds, DrawType
  <2>2. QED
    BY <1>3, <1>5, <2>1 DEF DrawIs, NotBound
<1>8. RenderPass(d, c) = AroundPass(d, atts, cols, walk.bound, RenderPassDependencies, <<uses>>, walk.writes)
  BY DEF RenderPass
<1>9. \A a \in ToSet(atts) : EndsPlainly(a)
  BY <1>1, AttachmentsEnd
<1>10. DrawsSample(walk.draws)
  BY <1>5
<1> HIDE DEF walk, atts, cols, attached
<1>11. ASSUME NEW x \in own
       PROVE  /\ x \in UseType
              /\ <<x.stage, x.access>> \in AttachmentScope
              /\ x.layout # "general" => <<x.stage, x.access>> \in LayoutScope(x.layout)
              /\ \E a \in ToSet(atts) : x.on = a.on /\ x.layout = a.initial /\ a.on \in Units
  <2>1. CASE \E a \in ToSet(cols) : x \in ColorUses(a.on, a.initial)
    <3>1. PICK a \in ToSet(cols) : x \in ColorUses(a.on, a.initial)
      BY <2>1
    <3>2. a \in ToSet(atts)
      BY <1>4 DEF ColorsCover
    <3>3. a.on \in Units /\ a.initial \in {"color", "general"}
      BY <1>1, ColorAttachmentsAre DEF IsColor, cols
    <3>4. x \in UseType /\ x.on = a.on /\ x.layout = a.initial
      BY <3>1, <3>3, AttachmentUse, TransferLayouts
    <3>5. QED
      BY <3>1, <3>2, <3>3, <3>4, AttachmentFits
  <2>2. CASE \E u \in ToSet(c.depth) : x \in DepthUses(u)
    <3>1. PICK u \in ToSet(c.depth) : x \in DepthUses(u)
      BY <2>2
    <3>2. u \in Units
      BY ToSetIn
    <3>3. DepthAttachment(u) \in ToSet(atts)
      BY <1>1, AttachmentsAre DEF atts
    <3>4. x \in UseType /\ x.on = u /\ x.layout = "depth"
      BY <3>1, <3>2, AttachmentUse
    <3>5. DepthAttachment(u).on = u /\ DepthAttachment(u).initial = "depth"
      BY DEF DepthAttachment, Attachment
    <3>6. QED
      BY <3>1, <3>2, <3>3, <3>4, <3>5, AttachmentFits
  <2>3. QED
    BY <2>1, <2>2
<1> HIDE DEF own
<1>12. \A a \in ToSet(atts) : a.on \in attached
  BY DEF attached, Attached
<1>13. ASSUME NEW r, BoundReady(r, walk.bound, attached), AttachmentsIn(r, atts)
       PROVE  /\ uses \in SUBSET UseType /\ FitsPass(uses, r, attached)
              /\ UsedBy(uses) \cap Units \subseteq attached \cup BoundUnits(walk.bound, attached)
  <2>1. drawn \in SUBSET UseType
    BY <1>6, <1>7, <1>13, DrawUsesGiven
  <2>2. FitIn(drawn, r)
    BY <1>6, <1>7, <1>10, <1>13, DrawUsesFit
  <2>3. UsedBy(drawn) \cap Units \subseteq BoundUnits(walk.bound, attached)
    BY <1>6, <1>7, <1>10, <1>13, DrawUsesFit
  <2>4. Temporary \notin UsedBy(drawn)
    BY <1>6, <1>7, <1>10, <1>13, DrawUsesFit
  <2> HIDE DEF drawn
  <2>5. \A x \in own : /\ x.on \in attached /\ x.on \in Units /\ x.layout = r.layout[x.on]
                       /\ <<x.stage, x.access>> \in AttachmentScope
                       /\ x.layout # "general" => <<x.stage, x.access>> \in LayoutScope(x.layout)
    BY <1>11, <1>12, <1>13 DEF AttachmentsIn
  <2>6. \A x \in drawn : /\ x.on # Temporary /\ x.on \notin attached
                         /\ x.on \in Units => /\ x.layout = r.layout[x.on] /\ Fits(x, x.layout)
                                              /\ x.on \in BoundUnits(walk.bound, attached)
    BY <1>4, <2>2, <2>3, <2>4 DEF FitIn, UsedBy, BoundUnits
  <2>7. \A x \in uses : x \in own \/ x \in drawn
    OBVIOUS
  <2>8. uses \in SUBSET UseType
    BY <1>11, <2>1
  <2> HIDE DEF uses
  <2>9. FitsPass(uses, r, attached)
    BY <2>5, <2>6, <2>7, BuffersAre DEF FitsPass
  <2>10. UsedBy(uses) \cap Units \subseteq attached \cup BoundUnits(walk.bound, attached)
    BY <2>5, <2>6, <2>7 DEF UsedBy
  <2>11. QED
    BY <2>8, <2>9, <2>10
<1> HIDE DEF drawn, uses
<1>14. PassWillFit(atts, walk.bound, uses)
  BY <1>13 DEF PassWillFit, attached
<1> DEFINE e == RenderPass(d, c)
<1>15. /\ e = AroundPass(d, atts, cols, walk.bound, RenderPassDependencies, <<uses>>, walk.writes)
       /\ Fine(e)
  BY <1>8
<1> HIDE DEF e
<1>16. Orders(e, d)
  BY <1>4, <1>6, <1>9, <1>14, <1>15, AroundPassOrders
<1>17. QED
  BY <1>16 DEF e

-----------------------------------------------------------------------------
(* Every command but passes of several subpasses                           *)

\* A command of one pass, whose shaders write no texture that they sample, and read only
\* attachments that can be copied from.
Plain(c) ==
  /\ c.kind # "subpass"
  /\ c.kind = "render" => FetchedCopied(c)
  /\ DrawsSample(DrawsOf(c))

\* It orders what it does to images.
LEMMA EncodeOrders ==
  ASSUME NEW d, Fine(d), HeldIn(d), Unfilled(d), NEW c, IsCommand(c), Plain(c), Fine(Encode(d, c))
  PROVE  Orders(Encode(d, c), d)
<1>0. Calm(d)
  BY DEF Fine, Calm
<1>1. CASE c.kind \in {"buffer_copy", "buffer_clear", "resolve"}
  <2>1. c.to \in Buffers /\ (c.kind = "buffer_copy" => c.from \in Buffers)
    BY <1>1 DEF IsCommand, HalCopy
  <2>2. Encode(d, c) = CASE c.kind = "buffer_copy"  -> BufferCopy(d, c)
                         [] c.kind = "buffer_clear" -> BufferClear(d, c)
                         [] c.kind = "resolve"      -> ResolveQuerySet(d, c)
    BY <1>1 DEF Encode
  <2>3. Stays(Encode(d, c), d)
    BY <1>0, <1>1, <2>1, <2>2, BuffersOnlyStay
  <2>4. QED
    BY <2>3, TemporaryStays
<1>2. CASE c.kind = "clear_texture"
  <2>1. c.units \in SUBSET Units
    BY <1>2 DEF IsCommand, HalCopy
  <2>2. QED
    BY <1>0, <1>2, <2>1, ClearTextureOrders DEF Encode
<1>3. CASE c.kind = "buffer_to_texture"
  <2>1. c.from \in Buffers /\ c.units \in SUBSET Units
    BY <1>3 DEF IsCommand, HalCopy
  <2>2. Stays(BufferToTexture(d, c), d)
    BY <1>0, <2>1, BufferTextureStay
  <2>3. QED
    BY <1>3, <2>2, TemporaryStays DEF Encode
<1>4. CASE c.kind = "texture_to_buffer"
  <2>1. c.to \in Buffers /\ c.units \in SUBSET Units
    BY <1>4 DEF IsCommand, HalCopy
  <2>2. Stays(TextureToBuffer(d, c), d)
    BY <1>0, <2>1, BufferTextureStay
  <2>3. QED
    BY <1>4, <2>2, TemporaryStays DEF Encode
<1>5. CASE c.kind = "texture_to_texture"
  <2>1. c.from \in SUBSET Units /\ c.to \in SUBSET Units
    BY <1>5 DEF IsCommand, HalCopy
  <2>2. QED
    BY <1>0, <1>5, <2>1, TextureToTextureOrders DEF Encode
<1>6. CASE c.kind = "compute"
  <2> DEFINE w == [pipeline |-> c.pipeline, binds |-> ToSet(c.binds)]
  <2>1. c.pipeline \in Pipelines /\ c.binds \in Seq(Bindings) /\ c.indirect \in SUBSET Buffers
    BY <1>6 DEF IsCommand, HalCopy
  <2>2. w \in DrawsOf(c)
    BY <1>6 DEF DrawsOf
  <2>3. BindGroupsMatch(w) /\ SampledNotWritten(w)
    BY <2>2 DEF IsCommand, Plain, DrawsSample
  <2>4. Stays(ComputePass(d, c), d)
    BY <2>1, <2>3, ComputePassStays
  <2>5. QED
    BY <1>6, <2>4, TemporaryStays DEF Encode
<1>7. CASE c.kind = "render"
  <2>1. /\ c.colors \in Seq([on : Units, fetch : BOOLEAN, resolve : Seq(Units)])
        /\ c.depth \in Seq(Units) /\ c.stream \in Seq(StreamCommand)
    BY <1>7 DEF IsCommand, HalCopy
  <2>2. AttachmentsMatch(c) /\ \A w \in DrawsOf(c) : BindGroupsMatch(w)
    BY <1>7 DEF IsCommand
  <2>3. FetchedCopied(c) /\ DrawsSample(DrawsOf(c))
    BY <1>7 DEF Plain
  <2>4. Encode(d, c) = RenderPass(d, c)
    BY <1>7 DEF Encode
  <2>5. QED
    BY <1>7, <2>1, <2>2, <2>3, <2>4, RenderPassOrders
<1>8. c.kind \in {"buffer_copy", "buffer_clear", "resolve", "clear_texture", "buffer_to_texture",
                  "texture_to_buffer", "texture_to_texture", "compute", "render"}
  BY DEF IsCommand, HalCopy, Plain
<1>9. QED
  BY <1>1, <1>2, <1>3, <1>4, <1>5, <1>6, <1>7, <1>8

\* A recorded command, with the barrier before it.
LEMMA RecordOrders ==
  ASSUME NEW c \in Commands, Plain(c), Fine(recorded), HeldIn(recorded), Unfilled(recorded), Record(c)
  PROVE  HeldIn(recorded') /\ Unfilled(recorded') /\ NoImageRace(recorded', recorded)
<1> DEFINE d == IF CommandWritesBuffer(c) THEN RecordMemoryBarrier(recorded, BufferReadToWrite) ELSE recorded
<1>1. IsCommand(c)
  BY CommandsAssumption DEF IsCommand
<1>2. Calm(recorded)
  BY DEF Fine, Calm
<1>3. Keeps(d, recorded) /\ Stays(d, recorded) /\ (CommandWritesBuffer(c) => Prepared(d))
  <2>1. CASE CommandWritesBuffer(c)
    <3> DEFINE e == RecordMemoryBarrier(recorded, BufferReadToWrite)
    <3>1. Keeps(e, recorded) /\ Stays(e, recorded)
      BY <1>2, NamedBarriers, BarrierKeeps, BarrierStays DEF RecordMemoryBarrier
    <3>2. Prepared(e)
      BY PreparedBy DEF Fine
    <3> HIDE DEF e
    <3>3. d = e
      BY <2>1 DEF e
    <3>4. QED
      BY <3>1, <3>2, <3>3
  <2>2. CASE ~CommandWritesBuffer(c)
    BY <1>2, <2>2, StaysSelf DEF Keeps, NoNewRace
  <2>3. QED
    BY <2>1, <2>2
<1>4. recorded' = Encode(d, c)
  BY DEF Record
<1> HIDE DEF d
<1>5. Fine(d) /\ HeldIn(d) /\ Unfilled(d) /\ NoImageRace(d, recorded)
  BY <1>3, TemporaryStays DEF Keeps, Stays, Calm
<1>6. Fine(Encode(d, c))
  BY <1>1, <1>3, <1>5, EncodeKeeps
<1>7. Orders(Encode(d, c), d)
  BY <1>1, <1>5, <1>6, EncodeOrders
<1>8. QED
  BY <1>4, <1>5, <1>7, OrdersOn DEF Orders, Calm

\* Nothing has raced, and what was done to images is held for what comes.
Ordered(d) == d.races = {} /\ HeldIn(d) /\ Unfilled(d)
OrderInv == Ordered(recorded) /\ Ordered(committed)

\* The barriers order any two accesses to a resource, a buffer or a subresource, one of
\* them a write, and the second sees what the first wrote, whatever is recorded,
\* submitted or dropped, if every command is plain.
THEOREM NeverRaces ==
  ASSUME \A c \in Commands : Plain(c)
  PROVE  Spec => []NoRace
<1>1. Init => OrderInv
  <2>1. Ordered(Empty)
    BY BuffersAre DEF Empty, Ordered, HeldIn, Unfilled
  <2>2. QED
    BY <2>1 DEF Init, OrderInv
<1>2. ASSUME NEW d, NEW e, e \in Device, NoNewRace(e, d), NoImageRace(e, d), d.races = {}
      PROVE  e.races = {}
  <2>1. \A r \in e.races : r \in Buffers \cup Units \cup {Temporary}
    BY <1>2 DEF Device, Resources
  <2>2. QED
    BY <1>2, <2>1 DEF NoNewRace, NoImageRace
<1>3. BarriersInv /\ OrderInv /\ [Next]_vars => OrderInv'
  <2> SUFFICES ASSUME BarriersInv, OrderInv, [Next]_vars PROVE OrderInv'
    OBVIOUS
  <2>1. ASSUME NEW c \in Commands, Record(c) PROVE OrderInv'
    <3>1. Plain(c) /\ Apart(c)
      BY DEF Plain, Apart
    <3>2. Fine(recorded') /\ NoNewRace(recorded', recorded)
      BY <2>1, <3>1, RecordKeeps DEF BarriersInv
    <3>3. HeldIn(recorded') /\ Unfilled(recorded') /\ NoImageRace(recorded', recorded)
      BY <2>1, <3>1, RecordOrders DEF BarriersInv, OrderInv, Ordered
    <3>4. recorded'.races = {}
      BY <1>2, <3>2, <3>3 DEF Fine, OrderInv, Ordered
    <3>5. committed' = committed
      BY <2>1 DEF Record
    <3>6. QED
      BY <3>3, <3>4, <3>5 DEF OrderInv, Ordered
  <2>2. CASE Submit
    <3>1. committed' = RecordMemoryBarrier(recorded, GpuWriteToHostRead) /\ recorded' = committed'
      BY <2>2 DEF Submit
    <3>2. Fine(committed') /\ NoNewRace(committed', recorded)
      BY <3>1, SubmitKeeps DEF BarriersInv, Keeps
    <3>3. Calm(recorded)
      BY DEF BarriersInv, OrderInv, Fine, Ordered, Calm
    <3>4. Stays(committed', recorded)
      BY <3>1, <3>3, NamedBarriers, BarrierStays DEF RecordMemoryBarrier
    <3>5. HeldIn(committed') /\ NoImageRace(committed', recorded)
      BY <3>4 DEF Stays, Calm
    <3>6. Unfilled(committed')
      BY <3>4, TemporaryStays DEF OrderInv, Ordered
    <3>7. committed'.races = {}
      BY <1>2, <3>2, <3>5 DEF Fine, OrderInv, Ordered
    <3>8. QED
      BY <3>1, <3>5, <3>6, <3>7 DEF OrderInv, Ordered
  <2>3. CASE Fail
    BY <2>3 DEF Fail, OrderInv
  <2>4. CASE UNCHANGED vars
    BY <2>4 DEF vars, OrderInv
  <2>5. QED
    BY <2>1, <2>2, <2>3, <2>4 DEF Next
<1>4. OrderInv => NoRace
  BY DEF OrderInv, Ordered, NoRace
<1>5. QED
  BY <1>1, <1>3, <1>4, InvHolds, PTL DEF Spec
=============================================================================
