---------------------------- MODULE HalTimeline ----------------------------
(***************************************************************************)
(* What a HAL queue promises the core queue (HalQueue in yawgpu-hal):      *)
(* indices are issued in submission order, an index is reported complete   *)
(* only when the GPU has finished every accepted submission up to it, the  *)
(* report never goes back, and a wait succeeds only for such an index.     *)
(* Module Queue builds on this, VulkanQueue implements it.                 *)
(***************************************************************************)
EXTENDS Integers

CONSTANT Callers

VARIABLES
  issued,   \* highest index issued
  accepted, \* indices of the submissions the GPU has accepted
  finished, \* every accepted index up to this one is finished
  reported, \* the completed index
  awaited,  \* per caller: the index it waits for, or 0
  answered  \* indices a wait has succeeded for

hal_vars == <<issued, accepted, finished, reported, awaited, answered>>

HalInit ==
  /\ issued = 0 /\ accepted = {} /\ finished = 0 /\ reported = 0
  /\ awaited = [c \in Callers |-> 0]
  /\ answered = {}

\* A submission the device refuses uses its index up all the same.
Issue ==
  /\ issued' = issued + 1
  /\ accepted' \in {accepted, accepted \cup {issued'}}
  /\ UNCHANGED <<finished, reported, awaited, answered>>

\* In submission order.
GpuFinish(i) ==
  /\ i > finished
  /\ \A j \in accepted : j > finished => i <= j
  /\ finished' = i
  /\ UNCHANGED <<issued, accepted, reported, awaited, answered>>

Report(r) ==
  /\ reported < r /\ r <= issued
  /\ \A i \in accepted : i <= r => i <= finished
  /\ reported' = r

Observe(r) ==
  /\ Report(r)
  /\ UNCHANGED <<issued, accepted, finished, awaited, answered>>

Await(c, i) ==
  /\ awaited[c] = 0
  /\ awaited' = [awaited EXCEPT ![c] = i]
  /\ UNCHANGED <<issued, accepted, finished, reported, answered>>

Answer(c) ==
  /\ awaited[c] # 0
  /\ \/ awaited[c] <= reported /\ UNCHANGED reported
     \/ Report(awaited[c])
  /\ answered' = answered \cup {awaited[c]}
  /\ awaited' = [awaited EXCEPT ![c] = 0]
  /\ UNCHANGED <<issued, accepted, finished>>

\* The device is lost.
Refuse(c) ==
  /\ awaited[c] # 0
  /\ awaited' = [awaited EXCEPT ![c] = 0]
  /\ UNCHANGED <<issued, accepted, finished, reported, answered>>

HalNext ==
  \/ Issue
  \/ \E i \in accepted : GpuFinish(i)
  \/ \E r \in 1 .. issued : Observe(r)
  \/ \E c \in Callers : Answer(c) \/ Refuse(c) \/ \E i \in accepted : Await(c, i)

HalSpec == HalInit /\ [][HalNext]_hal_vars
=============================================================================
