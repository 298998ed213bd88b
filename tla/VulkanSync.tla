----------------------------- MODULE VulkanSync -----------------------------
(***************************************************************************)
(* What the Vulkan specification says of execution and memory              *)
(* dependencies, as far as the commands that yawgpu records use it: which  *)
(* earlier accesses a barrier or a render pass dependency orders before    *)
(* which later ones, and which writes it makes visible to them.            *)
(*                                                                         *)
(* Nothing here is yawgpu's own code; VulkanBarriers uses it to judge the  *)
(* barriers yawgpu records.                                                *)
(***************************************************************************)
EXTENDS Integers, Sequences, FiniteSets

\* The logical order of the stages of each kind of command.
Graphics == <<"top", "indirect", "vertex_input", "vertex", "early", "fragment",
              "late", "color", "bottom">>
Compute  == <<"top", "indirect", "compute", "bottom">>
Transfer == <<"top", "transfer", "bottom">>

\* What commands of each stage do to memory.
Accesses == [
  indirect     |-> {"indirect_read"},
  vertex_input |-> {"index_read", "vertex_read"},
  vertex       |-> {"uniform_read", "shader_read", "shader_write"},
  fragment     |-> {"uniform_read", "shader_read", "shader_write", "input_read"},
  compute      |-> {"uniform_read", "shader_read", "shader_write"},
  early        |-> {"depth_read", "depth_write"},
  late         |-> {"depth_read", "depth_write"},
  color        |-> {"color_read", "color_write"},
  transfer     |-> {"transfer_read", "transfer_write"},
  host         |-> {"host_read"}]

\* A layout transition is a write of its own, made by a barrier.
Writes == {"shader_write", "depth_write", "color_write", "transfer_write", "transition"}

AllCommands == {"top", "bottom"} \cup (DOMAIN Accesses \ {"host"})
MemoryWrite == Writes
MemoryRead  == (UNION {Accesses[s] : s \in DOMAIN Accesses}) \ Writes

Precede(order, s) == {order[i] : i \in {i \in DOMAIN order : \E j \in DOMAIN order :
                                          i <= j /\ order[j] = s}}
Follow(order, s) == {order[i] : i \in {i \in DOMAIN order : \E j \in DOMAIN order :
                                          j <= i /\ order[j] = s}}

Stages == {"top", "bottom"} \cup DOMAIN Accesses
EarlierThan == [s \in Stages |-> {s} \cup Precede(Graphics, s) \cup Precede(Compute, s)
                                     \cup Precede(Transfer, s)]
LaterThan   == [s \in Stages |-> {s} \cup Follow(Graphics, s) \cup Follow(Compute, s)
                                     \cup Follow(Transfer, s)]

\* The stages a source mask and a destination mask stand for.
Earlier(stages) == UNION {EarlierThan[s] : s \in stages}
Later(stages)   == UNION {LaterThan[s] : s \in stages}

\* The accesses that masks of stages and accesses stand for.
Scope(stages, accesses) ==
  UNION {{<<s, a>> : a \in Accesses[s] \cap accesses} : s \in stages \cap DOMAIN Accesses}

Dependency(src, src_access, dst, dst_access) ==
  [src |-> src, src_access |-> src_access, dst |-> dst, dst_access |-> dst_access]

-----------------------------------------------------------------------------
(* Past accesses                                                           *)

\* An access that was made. at: the subpass it is made in, or External.
\* after: stages of later commands that wait for it. avail: those that wait
\* until what it wrote is available. visible: later accesses that see it.
External == -1
Accessed(stage, access, at) ==
  [stage |-> stage, access |-> access, at |-> at, after |-> {}, avail |-> {},
   visible |-> {}]
Transitioned(deps, at) ==
  LET later == UNION {Later(d.dst) : d \in deps}
  IN [stage |-> "transition", access |-> "transition", at |-> at,
      after |-> later, avail |-> later,
      visible |-> UNION {Scope(d.dst, d.dst_access) : d \in deps}]

IsWrite(access) == access \in Writes

\* The dependency d has p in its first scope, itself or by way of an earlier
\* dependency; own: p is among the commands d starts from.
Reaches(p, d, own) ==
  Earlier(d.src) \cap (p.after \cup (IF own THEN {p.stage} ELSE {})) # {}
Avails(p, d, own) ==
  \/ Earlier(d.src) \cap p.avail # {}
  \/ own /\ <<p.stage, p.access>> \in Scope(d.src, d.src_access)

\* p as commands see it that follow the dependencies `deps`; v[d]: as it is seen
\* where d starts; own[d]: as for Reaches; memory: they order the memory of p's
\* resource, not only execution.
After(p, deps, v, own, memory) ==
  LET reach == {d \in deps : Reaches(v[d], d, own[d])}
      avail == {d \in reach : Avails(v[d], d, memory /\ own[d])}
  IN [p EXCEPT !.after = @ \cup UNION {Later(d.dst) : d \in reach},
               !.avail = @ \cup UNION {Later(d.dst) : d \in avail},
               !.visible = @ \cup UNION {Scope(d.dst, d.dst_access) :
                                            d \in IF memory THEN avail ELSE {}}]

\* p after a barrier recorded outside a render pass.
Barriered(p, b, memory) == After(p, {b}, [d \in {b} |-> p], [d \in {b} |-> TRUE], memory)

\* p as subpass k of a render pass sees it. Of what is recorded before the pass,
\* every subpass sees what barriers before the pass did; of what is recorded
\* inside, only what dependencies carry along.
Seen(p, deps, k) ==
  LET start == IF p.at = External THEN p ELSE [p EXCEPT !.after = {}, !.avail = {}, !.visible = {}]
      view[j \in p.at .. k] ==
        IF j = p.at THEN p
        ELSE LET into == {d \in deps : d.to = j /\ d.from \in p.at .. j - 1}
             IN After(start, into, [d \in into |-> view[d.from]],
                      [d \in into |-> d.from = p.at], TRUE)
  IN view[k]

\* An access by `stage` now would not be ordered after p, or not see its data.
Races(p, stage, access) ==
  IF IsWrite(p.access) THEN <<stage, access>> \notin p.visible
                       ELSE IsWrite(access) /\ stage \notin p.after

\* What is left to wait for once the accesses `new` are made: a write stands
\* for everything before it, a read for the same read before it.
Superseded(past, new) ==
  IF \E a \in new : IsWrite(a.access) THEN new
  ELSE {p \in past : \A a \in new : <<p.stage, p.access>> # <<a.stage, a.access>>} \cup new

\* A layout transition that the dependencies `deps` make waits for p.
Awaited(p, deps, v, own) ==
  \E d \in deps : /\ Reaches(v[d], d, own[d])
                  /\ IsWrite(p.access) => Avails(v[d], d, own[d])
=============================================================================
