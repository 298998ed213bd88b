------------------------------ MODULE Commands -----------------------------
(* Encoders and lazy initialization together: command buffers are          *)
(* recorded (Encoder), submitted once, lowered with the clears their       *)
(* commands need (TextureInit), and run on the memory of the textures.     *)
EXTENDS Encoder, TextureInit

CONSTANT Faults  \* "lower", "submit": what may fail in a submission

vars == <<encVars, initVars>>

ASSUME UnitsTracked == Tracked = Units /\ Halves = Parts
ASSUME UnitsFinite == IsFiniteSet(Units)

-----------------------------------------------------------------------------
(* Queue writes and flushes                                                *)

Start == [copies |-> <<>>, marks |-> marked]

\* write_texture: its clear and its copy wait in the batch, its mark does not.
WriteTexture(u, full) ==
  /\ u \notin destroyed /\ writes < MaxWrites /\ writes' = writes + 1
  /\ LET acc == CleanWrite(Start, u, full) IN
     /\ marked' = acc.marks
     /\ pending' = pending \o Append(acc.copies, Write(u, CoveredBy(full)))
  /\ UNCHANGED <<encVars, mem, spoiled, wiped, dropped>>

\* flush_pending_writes
Flush ==
  /\ pending # <<>>
  /\ Run(pending) /\ pending' = <<>>
  /\ UNCHANGED <<encVars, marked, writes, dropped>>

\* A HAL submission that fails drops the queue writes it carried, and their
\* marks stay.
DropQueued ==
  /\ pending' = <<>>
  /\ dropped' = dropped \cup {pending[i].unit : i \in DOMAIN pending}

FlushFails ==
  /\ pending # <<>> /\ "submit" \in Faults
  /\ DropQueued
  /\ UNCHANGED <<encVars, marked, writes, mem, spoiled, wiped>>

-----------------------------------------------------------------------------
(* Submission                                                              *)

\* The textures that the stream of a pass binds, its bundles included.
Bound(op) ==
  IF op.op = "render" THEN op.touched \cap Units
  ELSE Units \cap UNION {UNION {{x.res : x \in Bindings[d.groups[s].group]} :
                                   s \in {t \in Slots : d.groups[t] # NoResource}} : d \in op.drawn}

\* append_hal_command_execution
Lowered(acc, op) ==
  CASE op.op = "in" ->
         [CleanWrite(acc, op.unit, op.full) EXCEPT !.copies = Append(@, Write(op.unit, CoveredBy(op.full)))]
    [] op.op = "out" -> [CleanRead(acc, op.unit) EXCEPT !.copies = Append(@, Read(op.unit))]
    [] op.op = "dispatch" -> Sampled(acc, Bound(op))
    [] op.op = "render" -> LowerTargets(Sampled(acc, Bound(op)), op.targets)

Lowering == FoldLeft(Lowered, Start, cb.ops)

\* The command buffer is refused if it is an error, was submitted before or
\* refers to something destroyed.
Refused == cb.error \/ cb.life = "submitted" \/ Checked(cb) \cap destroyed # {}

\* What a submitted command buffer held is never looked at again.
Submitted == cb' = [NoCommandBuffer EXCEPT !.life = "submitted"]

\* A refused submission still flushes the queue writes before it.
SubmitRefused ==
  /\ cb.life # "none" /\ Refused
  /\ Submitted /\ Run(pending) /\ pending' = <<>>
  /\ UNCHANGED <<enc, passes, bundler, bundles, destroyed, writes, marked, dropped>>

\* The marks of the lowering walk reach the textures with the HAL's success.
SubmitRuns ==
  /\ cb.life = "ready" /\ ~Refused
  /\ Submitted /\ Run(pending \o Lowering.copies) /\ pending' = <<>>
  /\ marked' = Lowering.marks
  /\ UNCHANGED <<enc, passes, bundler, bundles, destroyed, writes, dropped>>

\* The overlay is dropped.
Discard == marked' = marked

\* A lowering that fails (staging memory, a pass that does not lower) runs
\* none of the commands, but flushes the queue writes before them.
SubmitLowerFails ==
  /\ cb.life = "ready" /\ ~Refused /\ "lower" \in Faults
  /\ Submitted /\ Run(pending) /\ pending' = <<>> /\ Discard
  /\ UNCHANGED <<enc, passes, bundler, bundles, destroyed, writes, dropped>>

\* The HAL refuses the whole submission, the queue writes in it included.
SubmitHalFails ==
  /\ cb.life = "ready" /\ ~Refused /\ "submit" \in Faults
  /\ Submitted /\ DropQueued /\ Discard
  /\ UNCHANGED <<enc, passes, bundler, bundles, destroyed, writes, mem, spoiled, wiped>>

-----------------------------------------------------------------------------
InitAll == Init /\ InitTextures

Next ==
  \/ EncoderNext /\ UNCHANGED initVars
  \/ \E u \in Units, full \in BOOLEAN : WriteTexture(u, full)
  \/ Flush \/ FlushFails
  \/ SubmitRefused \/ SubmitRuns \/ SubmitLowerFails \/ SubmitHalFails

Spec == InitAll /\ [][Next]_vars

-----------------------------------------------------------------------------
(* Properties                                                              *)

\* The resources a command really uses, found from what it draws, copies and
\* attaches.
UsedBy(op) ==
  IF op.op \in {"in", "out"} THEN {op.buffer, op.unit}
  ELSE (IF op.op = "render" THEN op.touched \cup TargetUnits(op.targets)
        ELSE {op.indirect} \ {NoResource})
       \cup UNION {UNION {{x.res : x \in Bindings[d.groups[s].group]} : s \in Needed(d.pipeline)}
                     : d \in op.drawn}

\* The HAL never gets a command that uses a destroyed resource, however the
\* resource came into the command buffer.
\* (queue.rs: submit; command_encoder.rs: record_referenced_buffer)
AcceptedAlive ==
  [][SubmitRuns => \A i \in DOMAIN cb.ops : UsedBy(cb.ops[i]) \cap destroyed = {}]_vars

\* No command reads memory that was never written or was discarded: a
\* subresource reads as zero until something is stored in it.  The exception
\* is a subresource whose queued writes a failed HAL submission has dropped:
\* write_texture had marked it at once.
\* (queue.rs: InitOverlay, plan_render_pass_attachment_init)
ReadsDefined == spoiled \subseteq dropped

\* The clears the queue inserts on its own never destroy stored contents.
\* (queue.rs: append_texture_read_init_clears)
DataKept == ~wiped
=============================================================================
