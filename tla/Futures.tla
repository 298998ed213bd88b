------------------------------ MODULE Futures ------------------------------
(***************************************************************************)
(* What the instance promises of its futures (webgpu.h callbacks, blocks   *)
(* 137 and 138): every future is resolved, then settled exactly once, by   *)
(* its callback or, only when the instance is no longer in use, by a       *)
(* cancellation; and the end of use settles everything.                    *)
(***************************************************************************)

CONSTANT Ids  \* identities of futures

VARIABLES
  status,     \* the state of each future
  in_use      \* the application holds an instance, adapter or device

future_vars == <<status, in_use>>

FutureInit == status = [i \in Ids |-> "none"] /\ in_use = TRUE

Change(i, from, to) ==
  /\ status[i] = from
  /\ status' = [status EXCEPT ![i] = to]
  /\ UNCHANGED in_use

Start(i)   == Change(i, "none", "pending")
Resolve(i) == Change(i, "pending", "ready")
Deliver(i) == Change(i, "ready", "delivered")
Cancel(i)  == ~in_use /\ Change(i, "ready", "cancelled")

EndOfUse == in_use /\ in_use' = FALSE /\ UNCHANGED status

FutureNext ==
  \/ \E i \in Ids : Start(i) \/ Resolve(i) \/ Deliver(i) \/ Cancel(i)
  \/ EndOfUse

\* After the end of use, nothing stays pending or undelivered.
FutureFairness ==
  \A i \in Ids :
    /\ WF_future_vars(~in_use /\ Resolve(i))
    /\ WF_future_vars(~in_use /\ (Deliver(i) \/ Cancel(i)))

FutureSafety == FutureInit /\ [][FutureNext]_future_vars
FutureSpec == FutureSafety /\ FutureFairness
=============================================================================
