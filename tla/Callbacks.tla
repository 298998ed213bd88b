----------------------------- MODULE Callbacks -----------------------------
(***************************************************************************)
(* Futures and callbacks of an instance: the future registry of            *)
(* yawgpu-core (future.rs) and the callback map of the C layer             *)
(* (ffi/mod.rs), from registration to ProcessEvents, WaitAny, delivery at  *)
(* registration, and cancellation when the instance is no longer in use.   *)
(*                                                                         *)
(* One action is one critical section of the callback map or of the        *)
(* registry.  No lock is held while a callback runs, so a callback may     *)
(* call back into the instance: a thread has a stack of calls, and the     *)
(* application runs when the stack is empty or its top is in a callback.   *)
(*                                                                         *)
(* A future id is its position in `callback`.  The BTreeMaps are sets of   *)
(* ids, walked in id order.                                                *)
(***************************************************************************)
EXTENDS Integers, Sequences, FiniteSets

CONSTANTS
  Threads,     \* application threads
  Modes,       \* callback modes the application uses
  Kinds,       \* kinds of callbacks it registers
  MaxFutures,  \* bound: registrations in a behaviour
  MaxSubmits,  \* bound: queue submissions in a behaviour
  MaxRefs,     \* bound: instance references made by AddRef
  MaxDepth     \* bound: calls nested in callbacks

ASSUME CallbacksAssumption ==
  /\ IsFiniteSet(Threads)
  /\ Modes \subseteq {"wait_any", "process", "spontaneous"}
  /\ Kinds \subseteq {"ready", "request", "refused", "map", "work_done"}
  /\ MaxFutures \in Nat /\ MaxSubmits \in Nat /\ MaxRefs \in Nat
  /\ MaxDepth \in Nat \ {0}

VARIABLES
  callback,  \* the PendingCallback of each future, wherever it is by now
  futures,   \* ids in FutureRegistryInner.futures
  complete,  \* those whose state is Complete
  pending,   \* ids in pending_callbacks
  gated,     \* those whose submission gate is set
  use_refs,  \* in_use_refs
  latest,    \* the queue's latest_submission_index
  done,      \* the last submission the GPU has completed
  lost,      \* the device is lost
  stack,     \* per thread: the calls it is in, innermost last
  begun,     \* counter behind MaxFutures
  log        \* history: callbacks delivered, in order, [id, how]

vars == <<callback, futures, complete, pending, gated, use_refs, latest, done,
          lost, stack, begun, log>>

registry_vars == <<futures, complete>>
queue_vars    == <<latest, done, lost>>

-----------------------------------------------------------------------------
(* Calls.                                                                  *)

NoCallback == [mode |-> "wait_any", kind |-> "ready", index |-> 0,
               outcome |-> "success"]

\* Callbacks that wait for a submission: MapAsync and OnSubmittedWorkDone.  A
\* refused MapAsync has no gate, but it ends with its device as they do.
Gated   == {"map", "work_done"}
Mapping == {"map", "refused"}

Frame(op, label) ==
  [op |-> op, at |-> label, id |-> 0, want |-> NoCallback, list |-> {},
   todo |-> {}]

Top(t) == stack[t][Len(stack[t])]
At(t, label) == stack[t] # <<>> /\ Top(t).at = label

Push(t, f) == stack' = [stack EXCEPT ![t] = Append(@, f)]
Pop(t) == stack' = [stack EXCEPT ![t] = SubSeq(@, 1, Len(@) - 1)]

Go(t, label, todo) ==
  IF label = "return" THEN Pop(t)
  ELSE stack' = [stack EXCEPT ![t][Len(stack[t])] =
                   [@ EXCEPT !.at = label, !.todo = todo]]

\* Runs the loop at label over todo, then what follows the loop.
Loop(t, label, todo, next) ==
  IF todo = {} THEN Go(t, next, {}) ELSE Go(t, label, todo)

\* Mutant: callbacks are called in any order.
IsNext_Any(f, id) == id \in f.todo

\* Loops go through ids in order, except that WaitAny fires in the order of
\* the application's list, whatever it is.
IsNext(f, id) ==
  id \in f.todo /\ (f.op # "wait" \/ f.at = "complete" => \A j \in f.todo : id <= j)

AppRuns(t) ==
  \/ stack[t] = <<>>
  \/ (At(t, "callback") \/ At(t, "cancelled")) /\ Len(stack[t]) < MaxDepth

Frames(t) == {stack[t][k] : k \in DOMAIN stack[t]}

\* A call on an instance, adapter or device handle borrows the application's
\* reference.
Borrows(f) == f.op \in {"process", "wait", "lose"} \/ f.want.kind = "request"

\* Future ids that a call has returned to the application.
Returned ==
  {i \in DOMAIN callback :
     \A t \in Threads : \A f \in Frames(t) : f.op = "register" => f.id # i}

-----------------------------------------------------------------------------
(* Registration.                                                           *)

Init ==
  /\ callback = <<>> /\ futures = {} /\ complete = {}
  /\ pending = {} /\ gated = {}
  /\ use_refs = 1
  /\ latest = 0 /\ done = 0 /\ lost = FALSE
  /\ stack = [t \in Threads |-> <<>>]
  /\ begun = 0 /\ log = <<>>

\* A call that registers a callback.  A gated one (OnSubmittedWorkDone, a valid
\* MapAsync) has read the index of the latest submission; the others are
\* complete when they register, a MapAsync on a lost device among them.
BeginRegister(t) ==
  /\ AppRuns(t) /\ begun < MaxFutures
  /\ begun' = begun + 1
  /\ \E mode \in Modes, kind \in Kinds :
       /\ kind = "request" => use_refs > 0
       /\ kind = "map" => ~lost
       /\ Push(t, [Frame("register", "register") EXCEPT
                     !.want = [mode |-> mode, kind |-> kind,
                               outcome |-> IF kind = "refused" THEN "error" ELSE "success",
                               index |-> IF kind \in Gated THEN latest ELSE 0]])
  /\ UNCHANGED <<callback, registry_vars, pending, gated, use_refs, queue_vars, log>>

\* FutureRegistry::register
Register(t) ==
  /\ At(t, "register")
  /\ LET id == Len(callback) + 1
     IN /\ callback' = Append(callback, Top(t).want)
        /\ futures' = futures \cup {id}
        /\ stack' = [stack EXCEPT ![t][Len(stack[t])] =
                       [@ EXCEPT !.at = "insert", !.id = id]]
  /\ UNCHANGED <<complete, pending, gated, use_refs, queue_vars, begun, log>>

AfterInsert(t) == IF Top(t).want.kind \in Gated THEN "poll" ELSE "finish"

\* Mutant: whether the instance is in use is not tested under the map's lock.
Insert_NoCheck(t) ==
  /\ At(t, "insert")
  /\ pending' = pending \cup {Top(t).id}
  /\ gated' = IF Top(t).want.kind \in Gated THEN gated \cup {Top(t).id} ELSE gated
  /\ Go(t, AfterInsert(t), {})
  /\ UNCHANGED <<callback, registry_vars, use_refs, queue_vars, begun, log>>

\* register_pending_callback, under the map's lock: a callback of an instance
\* that is not in use is cancelled at once.
Insert(t) ==
  /\ At(t, "insert")
  /\ IF use_refs = 0
     THEN /\ Go(t, "cancel_complete", {Top(t).id})
          /\ UNCHANGED <<pending, gated>>
     ELSE /\ pending' = pending \cup {Top(t).id}
          /\ gated' = IF Top(t).want.kind \in Gated THEN gated \cup {Top(t).id} ELSE gated
          /\ Go(t, AfterInsert(t), {})
  /\ UNCHANGED <<callback, registry_vars, use_refs, queue_vars, begun, log>>

\* finish_callback_registration: a spontaneous callback that is complete fires
\* now, after the older spontaneous ones that are; an id no longer in the
\* registry counts as complete.
Ready(id, marked) == id \notin futures \/ id \in marked

Finish(t) ==
  /\ At(t, "finish")
  /\ LET own    == Top(t).id
         marked == IF Top(t).want.kind \in Gated THEN complete
                   ELSE complete \cup ({own} \cap futures)
         older  == {i \in pending : i < own /\ callback[i].mode = "spontaneous"}
         fires  == IF /\ own \in pending /\ callback[own].mode = "spontaneous"
                      /\ Ready(own, marked)
                   THEN {own} \cup {i \in older : Ready(i, marked)}
                   ELSE {}
     IN /\ complete' = marked \ fires
        /\ futures' = futures \ fires
        /\ pending' = pending \ fires
        /\ gated' = gated \ fires
        /\ Loop(t, "fire", fires, "return")
  /\ UNCHANGED <<callback, use_refs, queue_vars, begun, log>>

-----------------------------------------------------------------------------
(* Polling the submission gates.                                           *)

AfterPoll(t) ==
  CASE Top(t).op = "register" -> "finish"
    [] Top(t).op = "process"  -> "take_ready"
    [] Top(t).op = "wait"     -> "take_waited"
    [] Top(t).op = "lose"     -> "return"

\* The callbacks that the loss of their device ends, ungated ones too.  What is left
\* to map is aborted; OnSubmittedWorkDone reports success.
Attached == {i \in pending : callback[i].kind \in Gated \cup Mapping}

Ended(c) == [c EXCEPT !.outcome = IF c.kind = "work_done" THEN "success" ELSE "aborted"]

\* The HAL's answers to the queries of one poll, made one after the other while
\* the GPU goes on: `seen` is the completed submission at the time of each.
Answers == {seen \in [gated -> done .. latest] :
              \A i, j \in gated : i < j => seen[i] <= seen[j]}

\* Mutants: an off-by-one in the comparison of the gate, either way.
Blocks_OffByOne(seen, i) == callback[i].index > seen[i] + 1
Blocks_Equal(seen, i) == callback[i].index >= seen[i]

Blocks(seen, i) == callback[i].index > seen[i]

\* Mutant: every gate is queried.
Blocked_Never(seen, alive, erred, j) == FALSE

Blocked(seen, alive, erred, j) ==
  \E i \in (gated \cap alive) \ erred : i < j /\ Blocks(seen, i)

Resolved(seen, alive, erred) ==
  {j \in gated \cap alive :
     j \in erred \/ ~(Blocks(seen, j) \/ Blocked(seen, alive, erred, j))}

\* poll_submission_callbacks, under the map's lock.  Another thread may lose the
\* device meanwhile (`alive` are the entries visited before), a query may fail
\* (`erred`), and an incomplete gate blocks the later ones of its queue.
Poll(t) ==
  /\ At(t, "poll")
  /\ \E seen \in Answers, alive \in SUBSET Attached : \E erred \in SUBSET (gated \cap alive) :
       LET ends   == Attached \ alive
           passes == Resolved(seen, alive, erred)
       IN
       /\ \A i, j \in Attached : i < j /\ j \in alive => i \in alive
       /\ lost => alive = {}
       /\ ends # {} => lost \/ \E u \in Threads \ {t} : At(u, "lose")
       /\ \A j \in erred : ~Blocked(seen, alive, erred, j)
       /\ lost' = (lost \/ ends # {})
       /\ done' \in done .. latest
       /\ \A i \in gated : seen[i] <= done'
       /\ callback' = [i \in DOMAIN callback |->
            IF i \in ends THEN Ended(callback[i])
            ELSE IF i \in erred THEN [callback[i] EXCEPT !.outcome = "error"]
            ELSE callback[i]]
       /\ gated' = gated \ (ends \cup passes)
       /\ Loop(t, "complete", ends \cup passes, AfterPoll(t))
  /\ UNCHANGED <<registry_vars, pending, use_refs, latest, begun, log>>

\* complete_future, for each callback that was resolved, the map's lock released.
Complete(t) ==
  /\ At(t, "complete")
  /\ \E id \in Top(t).todo :
       /\ IsNext(Top(t), id)
       /\ complete' = complete \cup ({id} \cap futures)
       /\ Loop(t, "complete", Top(t).todo \ {id}, AfterPoll(t))
  /\ UNCHANGED <<callback, futures, pending, gated, use_refs, queue_vars, begun, log>>

-----------------------------------------------------------------------------
(* Loss of the device.                                                     *)

\* wgpuDeviceDestroy, the last release of the device, and a submission that finds
\* the HAL device lost; the device-lost callback is module Device.
BeginLose(t) ==
  /\ AppRuns(t) /\ use_refs > 0
  /\ Push(t, Frame("lose", "lose"))
  /\ UNCHANGED <<callback, registry_vars, pending, gated, use_refs, queue_vars,
                 begun, log>>

\* Device::lose
Lose(t) ==
  /\ At(t, "lose")
  /\ lost' = TRUE
  /\ Go(t, "abort", {})
  /\ UNCHANGED <<callback, registry_vars, pending, gated, use_refs, latest, done,
                 begun, log>>

\* abort_pending_device_callbacks, under the map's lock
Abort(t) ==
  /\ At(t, "abort")
  /\ callback' = [i \in DOMAIN callback |->
                    IF i \in Attached THEN Ended(callback[i]) ELSE callback[i]]
  /\ gated' = gated \ Attached
  /\ Loop(t, "complete", Attached, "return")
  /\ UNCHANGED <<registry_vars, pending, use_refs, queue_vars, begun, log>>

-----------------------------------------------------------------------------
(* ProcessEvents and WaitAny.                                              *)

BeginProcess(t) ==
  /\ AppRuns(t) /\ use_refs > 0
  /\ Push(t, Frame("process", "poll"))
  /\ UNCHANGED <<callback, registry_vars, pending, gated, use_refs, queue_vars,
                 begun, log>>

\* One round of WaitAny; a timed wait is a sequence of them.
BeginWait(t) ==
  /\ AppRuns(t) /\ use_refs > 0
  /\ \E list \in (SUBSET Returned) \ {{}} :
       Push(t, [Frame("wait", "poll") EXCEPT !.list = list])
  /\ UNCHANGED <<callback, registry_vars, pending, gated, use_refs, queue_vars,
                 begun, log>>

\* FutureRegistry::process_events
Processable == {i \in complete : callback[i].mode # "wait_any"}

TakeReady(t) ==
  /\ At(t, "take_ready")
  /\ futures' = futures \ Processable /\ complete' = complete \ Processable
  /\ Loop(t, "take", Processable, "return")
  /\ UNCHANGED <<callback, pending, gated, use_refs, queue_vars, begun, log>>

\* FutureRegistry::wait_any
TakeWaited(t) ==
  /\ At(t, "take_waited")
  /\ LET ready == complete \cap Top(t).list
     IN /\ futures' = futures \ ready /\ complete' = complete \ ready
        /\ Loop(t, "take", ready, "return")
  /\ UNCHANGED <<callback, pending, gated, use_refs, queue_vars, begun, log>>

\* Mutant: the callbacks taken stay in the map.
Take_Keeps(t) ==
  /\ At(t, "take")
  /\ LET fires == Top(t).todo \cap pending
     IN /\ pending' = pending /\ gated' = gated
        /\ Loop(t, "fire", fires, "return")
  /\ UNCHANGED <<callback, registry_vars, use_refs, queue_vars, begun, log>>

\* Of those ids, the callbacks that are still in the map are taken from it.
Take(t) ==
  /\ At(t, "take")
  /\ LET fires == Top(t).todo \cap pending
     IN /\ pending' = pending \ fires /\ gated' = gated \ fires
        /\ Loop(t, "fire", fires, "return")
  /\ UNCHANGED <<callback, registry_vars, use_refs, queue_vars, begun, log>>

-----------------------------------------------------------------------------
(* Delivery and cancellation.                                              *)

\* A map of a lost device has been aborted.
Shown(c) == IF c.kind \in Mapping /\ lost THEN [c EXCEPT !.outcome = "aborted"] ELSE c

\* Mutant: add_use_ref instead of try_add_use_ref.
Fire_AddsRef(t) ==
  /\ At(t, "fire")
  /\ \E id \in Top(t).todo :
       /\ IsNext(Top(t), id)
       /\ LET refused == FALSE
          IN /\ log' = Append(log, [id |-> id,
                                    how |-> IF refused THEN "cancel" ELSE Top(t).op])
             /\ use_refs' = IF callback[id].kind = "request" /\ ~refused
                            THEN use_refs + 1 ELSE use_refs
       /\ callback' = [callback EXCEPT ![id] = Shown(@)]
       /\ Go(t, "callback", Top(t).todo \ {id})
  /\ UNCHANGED <<registry_vars, pending, gated, queue_vars, begun>>

\* PendingCallback::fire.  A request hands a new adapter or device to the
\* application, and is cancelled if the instance is not in use any more.
Fire(t) ==
  /\ At(t, "fire")
  /\ \E id \in Top(t).todo :
       /\ IsNext(Top(t), id)
       /\ LET refused == callback[id].kind = "request" /\ use_refs = 0
          IN /\ log' = Append(log, [id |-> id,
                                    how |-> IF refused THEN "cancel" ELSE Top(t).op])
             /\ use_refs' = IF callback[id].kind = "request" /\ ~refused
                            THEN use_refs + 1 ELSE use_refs
       /\ callback' = [callback EXCEPT ![id] = Shown(@)]
       /\ Go(t, "callback", Top(t).todo \ {id})
  /\ UNCHANGED <<registry_vars, pending, gated, queue_vars, begun>>

\* The callback returns.
AfterCancel(t) == IF Top(t).op = "register" THEN AfterInsert(t) ELSE "return"

Return(t) ==
  /\ \/ At(t, "callback") /\ Loop(t, "fire", Top(t).todo, "return")
     \/ At(t, "cancelled") /\ Loop(t, "cancel_complete", Top(t).todo, AfterCancel(t))
  /\ UNCHANGED <<callback, registry_vars, pending, gated, use_refs, queue_vars,
                 begun, log>>

\* Mutant: the cancelled future is not completed.
CancelComplete_Skips(t) ==
  /\ At(t, "cancel_complete")
  /\ Go(t, "cancel", Top(t).todo)
  /\ UNCHANGED <<callback, registry_vars, pending, gated, use_refs, queue_vars,
                 begun, log>>

CancelComplete(t) ==
  /\ At(t, "cancel_complete")
  /\ \E id \in Top(t).todo :
       /\ IsNext(Top(t), id)
       /\ complete' = complete \cup ({id} \cap futures)
  /\ Go(t, "cancel", Top(t).todo)
  /\ UNCHANGED <<callback, futures, pending, gated, use_refs, queue_vars, begun, log>>

\* PendingCallback::cancel
Cancel(t) ==
  /\ At(t, "cancel")
  /\ \E id \in Top(t).todo :
       /\ IsNext(Top(t), id)
       /\ log' = Append(log, [id |-> id, how |-> "cancel"])
       /\ Go(t, "cancelled", Top(t).todo \ {id})
  /\ UNCHANGED <<callback, registry_vars, pending, gated, use_refs, queue_vars, begun>>

-----------------------------------------------------------------------------
(* References.                                                             *)

AddRef ==
  /\ 0 < use_refs /\ use_refs < MaxRefs
  /\ \E t \in Threads : AppRuns(t)
  /\ use_refs' = use_refs + 1
  /\ UNCHANGED <<callback, registry_vars, pending, gated, queue_vars, stack, begun, log>>

\* Mutant: cancels when one reference is left.
Release_Early(t) ==
  /\ AppRuns(t)
  /\ use_refs > Cardinality({u \in Threads \ {t} : \E f \in Frames(u) : Borrows(f)})
  /\ use_refs' = use_refs - 1
  /\ IF use_refs <= 2 THEN Push(t, Frame("release", "cancel_take")) ELSE UNCHANGED stack
  /\ UNCHANGED <<callback, registry_vars, pending, gated, queue_vars, begun, log>>

\* release_use_ref.  The application releases only a reference it owns, and none
\* that a call of another thread has borrowed; a callback may release the last
\* one.  The thread that takes the count to 0 cancels what is pending.
Release(t) ==
  /\ AppRuns(t)
  /\ use_refs > Cardinality({u \in Threads \ {t} : \E f \in Frames(u) : Borrows(f)})
  /\ use_refs' = use_refs - 1
  /\ IF use_refs = 1 THEN Push(t, Frame("release", "cancel_take")) ELSE UNCHANGED stack
  /\ UNCHANGED <<callback, registry_vars, pending, gated, queue_vars, begun, log>>

\* Mutant: the callbacks are dropped without being called.
CancelTake_Drops(t) ==
  /\ At(t, "cancel_take")
  /\ pending' = {} /\ gated' = {}
  /\ Pop(t)
  /\ UNCHANGED <<callback, registry_vars, use_refs, queue_vars, begun, log>>

\* cancel_callbacks takes the whole map.
CancelTake(t) ==
  /\ At(t, "cancel_take")
  /\ pending' = {} /\ gated' = {}
  /\ Loop(t, "cancel_complete", pending, "return")
  /\ UNCHANGED <<callback, registry_vars, use_refs, queue_vars, begun, log>>

-----------------------------------------------------------------------------
(* The queue and the specification.                                        *)

\* What the module Queue models: an index per submission, completed in order, and
\* none after the loss.
Submit ==
  /\ latest < MaxSubmits /\ ~lost
  /\ latest' = latest + 1
  /\ UNCHANGED <<callback, registry_vars, pending, gated, use_refs, done, lost,
                 stack, begun, log>>

GpuComplete ==
  /\ done < latest
  /\ done' = done + 1
  /\ UNCHANGED <<callback, registry_vars, pending, gated, use_refs, latest, lost,
                 stack, begun, log>>

Step(t) ==
  \/ Register(t) \/ Insert(t) \/ Poll(t) \/ Complete(t) \/ Finish(t)
  \/ TakeReady(t) \/ TakeWaited(t) \/ Take(t) \/ Fire(t) \/ Return(t)
  \/ CancelTake(t) \/ CancelComplete(t) \/ Cancel(t)
  \/ Lose(t) \/ Abort(t)

\* The application has released everything and its threads make no call.
Finished ==
  /\ use_refs = 0 /\ \A t \in Threads : stack[t] = <<>>
  /\ UNCHANGED vars

Next ==
  \/ \E t \in Threads :
       \/ BeginRegister(t) \/ BeginProcess(t) \/ BeginWait(t) \/ Release(t)
       \/ BeginLose(t) \/ Step(t)
  \/ AddRef \/ Submit \/ GpuComplete \/ Finished

Spec == Init /\ [][Next]_vars

\* Threads inside a call go on, callbacks return, the GPU completes its work,
\* and the application keeps calling ProcessEvents.
Fairness ==
  /\ \A t \in Threads : SF_vars(Step(t)) /\ SF_vars(BeginProcess(t))
  /\ WF_vars(GpuComplete)

FairSpec == Spec /\ Fairness

-----------------------------------------------------------------------------
(* Properties.                                                             *)

Settled == {log[k].id : k \in DOMAIN log}

\* A callback is called at most once: ProcessEvents, WaitAny, delivery inside the
\* registration and the cancellation may race for it.
DeliveredOnce == \A j, k \in DOMAIN log : log[j].id = log[k].id => j = k

\* When no call is under way: a callback not yet called is in the map and its
\* future in the registry, complete if its gate was passed, so that
\* ProcessEvents, WaitAny or the end of use will find it; and when the instance
\* is not in use, there is none left.
NothingStranded ==
  (\A t \in Threads : stack[t] = <<>>) =>
    \A id \in DOMAIN callback \ Settled :
      /\ use_refs > 0
      /\ id \in pending \cap futures
      /\ id \in gated \/ id \in complete

\* A callback that reports success reports completed work: when it is called, the
\* GPU has completed all that had been submitted before the call.  A loss of the
\* device ends OnSubmittedWorkDone with success for work that never completes
\* (block 113, C9), but MapAsync never.
GateHonored ==
  \A k \in DOMAIN log :
    LET c == callback[log[k].id] IN
    c.outcome = "success" /\ log[k].how # "cancel"
      => c.index <= done \/ (c.kind = "work_done" /\ lost)

\* Once its callback has been called, a future is observed complete, by a WaitAny
\* made in that callback too.
FutureObservable == Settled \cap futures \subseteq complete

\* An instance that is not in use is never in use again: no adapter or device is
\* handed out after the last handle was released.
NoResurrection == [][use_refs = 0 => use_refs' = 0]_vars

\* Callbacks that the outer calls of a thread have taken from the map and have
\* still to call: each of them waits for a callback, which has called back.
CollectedOutside(t) == UNION {stack[t][k].todo : k \in 1 .. Len(stack[t]) - 1}

\* ProcessEvents or a registration of thread t calls a callback.
Delivers(t, id) ==
  /\ At(t, "fire") /\ Top(t).op \in {"process", "register"}
  /\ log' = Append(log, [id |-> id, how |-> Top(t).op])

Before(i, id) ==
  /\ i < id /\ callback[i].mode = callback[id].mode
  /\ callback[i].kind \in Gated /\ callback[id].kind \in Gated

\* Block 96, Q21: a future registered after another for the same queue does not
\* fire before it.  In one thread, a callback that ProcessEvents or a registration
\* calls finds every earlier one of its mode called or cancelled, except those
\* that an outer call has collected.
CallbackOrder ==
  [][\A t \in Threads, i, id \in DOMAIN callback :
       Delivers(t, id) /\ Before(i, id) => i \in Settled \cup CollectedOutside(t)]_vars

\* Every callback ProcessEvents may deliver is delivered or cancelled.
EventuallySettled ==
  \A id \in 1 .. MaxFutures :
    id \in DOMAIN callback /\ callback[id].mode # "wait_any" ~> id \in Settled

-----------------------------------------------------------------------------
(* What the instance promises: the specification Futures.                  *)

Status(id) ==
  IF id \notin DOMAIN callback THEN "none"
  ELSE IF \E k \in DOMAIN log : log[k] = [id |-> id, how |-> "cancel"] THEN "cancelled"
  ELSE IF id \in Settled THEN "delivered"
  ELSE IF id \in futures \ complete THEN "pending"
  ELSE "ready"

Promise == INSTANCE Futures WITH
  Ids <- 1 .. MaxFutures,
  status <- [id \in 1 .. MaxFutures |-> Status(id)],
  in_use <- use_refs > 0

\* The registry, the map and their races implement it.
ImplementsFutures == Promise!FutureSafety
KeepsFutures == Promise!FutureSpec
=============================================================================
