----------------------------- MODULE MCCommands -----------------------------
(* Two textures, one of them also sampled; one buffer that a storage group *)
(* binds at two dynamic offsets and that also feeds vertices and indirect calls.   *)
EXTENDS Commands

CONSTANTS b1, tex1, tex2, gw, gt, pw, pt, rt, none
MaxDestroyed == 1  \* bound: destroyed resources
MaxShort == 3      \* bound: calls of a recording that is submitted

MCLayout == gw :> "W" @@ gt :> "T"
Writable(base, dynamic) == [res |-> b1, access |-> "write", base |-> base, dynamic |-> dynamic]
MCBindings == gw :> {Writable(0, TRUE), Writable(1, FALSE)}
           @@ gt :> {[res |-> tex1, access |-> "read", base |-> 0, dynamic |-> FALSE]}
MCRequires == pw :> (0 :> "W") @@ pt :> (0 :> "T") @@ rt :> (0 :> "T")

Whole(u, load, store) == [unit |-> u, parts |-> Parts, load |-> load, store |-> store]
MCTargets == {<<Whole(tex1, "load", TRUE)>>, <<Whole(tex1, "clear", FALSE)>>,
              <<Whole(tex2, "load", TRUE)>>, <<Whole(tex2, "load", FALSE), Whole(tex1, "load", TRUE)>>,
              <<Whole(tex1, "load", TRUE), Whole(tex1, "clear", FALSE)>>}  \* refused

\* Two depth slices of one 3D mip in one pass: one is discarded, one is stored.
Slice(part, store) == [unit |-> tex1, parts |-> {part}, load |-> "clear", store |-> store]
MCSliceTargets == {<<Slice(1, FALSE), Slice(2, TRUE)>>}

\* Recording neither reads nor writes what the queue and the application change
\* meanwhile, and bundles do not depend on encoders: it is enough to record the
\* bundles first, and to write, destroy and submit between two recordings.  An
\* encoder with an error has nothing left to do but finish.
Quiet == UNCHANGED <<initVars, destroyed>>
RecordingFirst ==
  /\ cb.life # "ready" => Quiet
  /\ cb.life = "ready" => enc'.made = enc.made
  /\ bundler' # bundler => enc.made = 0
  /\ writes' # writes => destroyed = {}
  /\ Cardinality(destroyed') <= MaxDestroyed
  /\ enc.life = "recording" /\ enc.error => enc'.life = "finished"

\* A longer recording is a single pass of the first encoder.
LongInPass ==
  enc'.calls > MaxShort =>
    /\ enc.made = 1 /\ enc'.life = "recording" /\ enc'.depth = 0
    /\ \A i \in DOMAIN enc'.ops : enc'.ops[i].op = "dispatch"
    /\ Len(passes') = 1 /\ ~passes'[1].ended /\ passes'[1].depth = 0

\* A bundle is worth executing when it draws, or when it has an error; it is
\* executed by the first encoder, and nothing is copied or queued besides.
FewBundles ==
  /\ bundles' # bundles => (bundler.error \/ bundler.st.drawn # {})
  /\ enc.made # enc'.made => bundler.life = "finished"
  /\ bundles # <<>> =>
       /\ writes' = 0 /\ enc'.made <= 1
       /\ (enc'.life = "recording" /\ enc'.calls > 0) => passes' # <<>>

MCSpec == InitAll /\ [][Next /\ RecordingFirst /\ LongInPass /\ FewBundles]_vars
=============================================================================
