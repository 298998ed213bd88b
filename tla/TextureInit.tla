---------------------------- MODULE TextureInit ----------------------------
(* Lazy zero initialization in yawgpu-core: which texture subresources a   *)
(* texture believes initialized, the clears the queue plans while it       *)
(* lowers a submission, the overlay that holds the marks back until the    *)
(* HAL has accepted it, and the marks a queue write makes at once.  What   *)
(* the memory really holds is followed beside it, part by part: the parts  *)
(* are the halves a copy may cover, or the depth slices of a 3D mip, which *)
(* share one mark.                                                         *)
(*                                                                         *)
(* The queue serializes writes, flushes and submissions (Queue), so each   *)
(* is one step here, in the order of the GPU timeline.                     *)
EXTENDS Naturals, SequencesExt

CONSTANTS
  Tracked,     \* texture subresources with a mark of their own
  Volumes,     \* those whose parts are the depth slices of a 3D texture
  MaxWrites    \* bound: queue writes

Halves == {1, 2}
ASSUME TrackedOK == Volumes \subseteq Tracked /\ MaxWrites \in Nat

VARIABLES
  marked,   \* TextureInitState: which subresources are believed initialized
  mem,      \* what the memory of each part holds, in timeline order
  pending,  \* the copies of queue writes not yet submitted
  writes,   \* the queue writes so far
  spoiled,  \* history: the subresources read where nothing defined was stored
  wiped,    \* history: a lazy clear has overwritten written contents
  dropped   \* history: the subresources whose queued writes were lost

initVars == <<marked, mem, pending, writes, spoiled, wiped, dropped>>

InitTextures ==
  /\ marked = [u \in Tracked |-> FALSE]
  /\ mem = [u \in Tracked |-> [h \in Halves |-> "garbage"]]
  /\ pending = <<>> /\ writes = 0 /\ spoiled = {} /\ wiped = FALSE /\ dropped = {}

-----------------------------------------------------------------------------
(* HAL copies and what running them does                                   *)

Clear(u) == [do |-> "clear", unit |-> u]
Write(u, parts) == [do |-> "write", unit |-> u, parts |-> parts]
Read(u) == [do |-> "read", unit |-> u]
\* One attachment of a pass: its effective load operation, then its store.
Attach(a, load) == [do |-> "attach", unit |-> a.unit, parts |-> a.parts,
                    load |-> load, store |-> a.store]

Filled(m, u, parts, c) ==
  [m EXCEPT ![u] = [h \in Halves |-> IF h \in parts THEN c ELSE @[h]]]
Held(m, u, parts) == {m[u][h] : h \in parts}
Spoils(m, u, parts) == IF "garbage" \in Held(m, u, parts) THEN {u} ELSE {}

\* What a copy does to the memory; r has fields mem, spoiled and wiped.
Ran(r, c) ==
  CASE c.do = "clear" ->
         [r EXCEPT !.mem = Filled(@, c.unit, Halves, "zero"),
                   !.wiped = @ \/ "data" \in Held(r.mem, c.unit, Halves)]
    [] c.do = "write" -> [r EXCEPT !.mem = Filled(@, c.unit, c.parts, "data")]
    [] c.do = "read"  -> [r EXCEPT !.spoiled = @ \cup Spoils(r.mem, c.unit, Halves)]
    [] c.do = "attach" ->
         [r EXCEPT !.spoiled = @ \cup (IF c.load = "load" THEN Spoils(r.mem, c.unit, c.parts) ELSE {}),
                   !.wiped = @ \/ (c.load = "zero" /\ "data" \in Held(r.mem, c.unit, c.parts)),
                   !.mem = Filled(@, c.unit, c.parts, IF c.store THEN "data" ELSE "garbage")]

Run(copies) ==
  LET r == FoldLeft(Ran, [mem |-> mem, spoiled |-> spoiled, wiped |-> wiped], copies) IN
  mem' = r.mem /\ spoiled' = r.spoiled /\ wiped' = r.wiped

-----------------------------------------------------------------------------
(* Lowering: acc.copies grows, acc.marks is the overlay over marked        *)

\* append_texture_read_init_clears and append_texture_view_init_clears
CleanRead(acc, u) ==
  IF acc.marks[u] THEN acc
  ELSE [copies |-> Append(acc.copies, Clear(u)), marks |-> [acc.marks EXCEPT ![u] = TRUE]]

CoveredBy(full) == IF full THEN Halves ELSE {1}

\* Mutant: a write that covers the whole subresource leaves no mark.
CleanWrite_FullUnmarked(acc, u, full) == IF full THEN acc ELSE CleanRead(acc, u)

\* append_texture_write_init_clears: no clear for a full cover; always a mark.
CleanWrite(acc, u, full) ==
  IF full THEN [acc EXCEPT !.marks[u] = TRUE] ELSE CleanRead(acc, u)

\* Mutant: the attachment that loads is not rewritten to a clear.
LoadOf_AsGiven(acc, a) == a.load

\* color_force_clear: an unmarked attachment that loads is cleared instead,
\* except on a 3D texture, whose slices are all cleared before the pass.
LoadOf(acc, a) ==
  IF a.load = "load" /\ ~acc.marks[a.unit] /\ a.unit \notin Volumes THEN "zero" ELSE a.load

\* A slice of an unmarked 3D mip: the whole mip is cleared before the pass.
MipCleared(acc, a) ==
  IF a.unit \in Volumes /\ ~acc.marks[a.unit]
    THEN [acc EXCEPT !.copies = Append(@, Clear(a.unit))] ELSE acc

\* StoreOp::Store marks the subresource, StoreOp::Discard unmarks it.
Stored(marks, a) == [marks EXCEPT ![a.unit] = a.store]

\* plan_render_pass_attachment_init and the pass itself: clears before the
\* pass, then every attachment, then the marks in the order of the slots.
LowerTargets(acc, targets) ==
  LET attach == [i \in DOMAIN targets |-> Attach(targets[i], LoadOf(acc, targets[i]))] IN
  [copies |-> FoldLeft(MipCleared, acc, targets).copies \o attach,
   marks  |-> FoldLeft(Stored, acc.marks, targets)]

\* A texture that a draw or dispatch reads, cleared before the pass.
ReadFirst(acc, u) == [CleanRead(acc, u) EXCEPT !.copies = Append(@, Read(u))]

\* The clears of every texture bound in the stream come before the pass,
\* whose draws then read them.
Sampled(acc, units) == FoldLeft(ReadFirst, acc, SetToSeq(units))
=============================================================================
