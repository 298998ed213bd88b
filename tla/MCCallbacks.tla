---------------------------- MODULE MCCallbacks ----------------------------
(* Small instances of Callbacks for TLC.                                   *)
EXTENDS Callbacks

\* What the application has registered or is registering.
Wants ==
  {f.want : f \in {g \in UNION {Frames(t) : t \in Threads} : g.op = "register"}}
    \cup {callback[id] : id \in DOMAIN callback}

Losing == lost \/ \E t \in Threads : \E f \in Frames(t) : f.op = "lose"

\* Bound: two callbacks of any kinds and modes, or more that all wait for a
\* submission, of one kind and mode and on a device that is not lost, which is what
\* the order of three callbacks is about.
FewModes ==
  begun' > 2 =>
    /\ ~Losing'
    /\ \A v, w \in Wants' : v.kind \in Gated /\ v.kind = w.kind /\ v.mode = w.mode

Reentrant == Init /\ [][Next /\ FewModes]_vars

\* Threads are alike: one of them makes the first registration.
First == CHOOSE t \in Threads : TRUE

\* Bound: one callback of any kind and mode, more references than one only with a
\* request and the device being lost only under a callback that it ends; or two that
\* both wait for a submission and are left to ProcessEvents, without WaitAny and on a
\* device that is not lost.
FewGates ==
  /\ begun' = 1 => \A t \in Threads \ {First} : \A f \in Frames(t)' : f.op # "register"
  /\ use_refs' > 1 => \A w \in Wants' : w.kind = "request"
  /\ Losing' => \A w \in Wants' : w.kind \in Gated \cup Mapping
  /\ begun' > 1 =>
       /\ ~Losing' /\ \A t \in Threads : \A f \in Frames(t)' : f.op # "wait"
       /\ \A w \in Wants' : w.kind = "work_done" /\ w.mode = "process"

Live == Init /\ [][Next /\ FewGates]_vars /\ Fairness
=============================================================================
