------------------------------- MODULE Device -------------------------------
(***************************************************************************)
(* One device as its C handle shows it: loss (Device::lose and the         *)
(* device-lost future of ffi/mod.rs), error scopes and the uncaptured      *)
(* error callback (ErrorSink), and the calls that reach them from several  *)
(* threads: destroy, the last release, an error, a submit that observes    *)
(* the loss, ProcessEvents.                                                *)
(*                                                                         *)
(* Every thread has a stack of calls, since both callbacks run without any *)
(* lock and may call back into the library.  One action is one critical    *)
(* section of `lost`, `submission`, the error sink, the device-lost future *)
(* or the callback map; what a call does between two of them is local.     *)
(* The queue behind `submission` is module Queue, the callback map and the *)
(* instance's end of use module Callbacks, maps and work-done callbacks    *)
(* aborted by a loss module MapGate.                                       *)
(***************************************************************************)
EXTENDS Integers, Sequences, FiniteSets

CONSTANTS
  Threads,     \* application threads
  NoThread,    \* a mutex is free
  Kinds,       \* ErrorKind: the errors raised and the filters pushed
  Modes,       \* callback modes of the device-lost callback
  Ops,         \* calls the application makes
  CallbackOps, \* calls it makes from inside a callback
  MaxScopes,   \* bound: open error scopes of a thread
  MaxCalls,    \* bound: calls in a behaviour
  MaxDepth     \* bound: calls of a thread that are open at once

ASSUME DeviceAssumption ==
  /\ NoThread \notin Threads
  /\ "internal" \in Kinds /\ "none" \notin Kinds
  /\ Modes \subseteq {"spontaneous", "process", "wait_any"}
  /\ Ops \subseteq {"push", "pop", "error", "destroy", "release", "add_ref",
                    "submit", "process", "get_future"}
  /\ CallbackOps \subseteq Ops
  /\ MaxScopes \in Nat /\ MaxCalls \in Nat /\ MaxDepth \in Nat \ {0}

VARIABLES
  reason,      \* DeviceLostState::reason
  lost_lock,   \* holder of the `lost` mutex, kept over mark_lost
  submission,  \* holder of the queue's `submission` mutex
  queue_lost,  \* QueueInner::lost
  future_lock, \* holder of the device_lost_future mutex
  installed,   \* ErrorSink::uncaptured_error_callback is Some
  scopes,      \* ErrorSink::scopes, per thread, innermost scope last
  active,      \* ErrorSink::active_callbacks
  held,        \* external_refs, by the thread that owns the reference
  lost_entry,  \* the PendingCallback::DeviceLost is in the map
  lost_mode,   \* its callback mode
  completed,   \* the device-lost future is complete
  stack,       \* per thread: its open calls, innermost last
  calls,       \* calls made
  log,         \* history, per thread: scopes pushed, errors routed, pops
  fired,       \* history: invocations of the device-lost callback
  cleared,     \* history: threads that have cleared the error callback
  ended        \* history: a destroy or a last release has returned

loss_vars  == <<reason, lost_lock, submission, queue_lost>>
lost_vars  == <<future_lock, lost_entry, lost_mode, completed, fired, ended>>
sink_vars  == <<installed, scopes, active, log, cleared>>
vars == <<loss_vars, lost_vars, sink_vars, held, stack, calls>>

-----------------------------------------------------------------------------
(* Calls and their stack                                                   *)

UserCode == {"error_cb", "lost_cb", "null_cb"}

Top(t)  == stack[t][Len(stack[t])]
At(t, label) == stack[t] # <<>> /\ Top(t).at = label
Under(t) == SubSeq(stack[t], 1, Len(stack[t]) - 1)

Frame(label, arg) == [at |-> label, arg |-> arg]

Goto(t, label) ==
  stack' = [stack EXCEPT ![t] = Append(Under(t), Frame(label, Top(t).arg))]
Return(t) == stack' = [stack EXCEPT ![t] = Under(t)]
\* Goes on at `label` after a nested call.
CallThen(t, frame, label) ==
  stack' = [stack EXCEPT ![t] =
              Append(Append(Under(t), Frame(label, Top(t).arg)), frame)]
ReturnInto(t, frame) == stack' = [stack EXCEPT ![t] = Append(Under(t), frame)]

\* external_refs # 0
Alive == \E t \in Threads : held[t] > 0

\* A callback is handed a device that lives as long as the callback runs, also when
\* no reference is left.
HasDevice(t) == held[t] > 0 \/ At(t, "error_cb") \/ At(t, "lost_cb")

\* The application makes a call: from idle, or from a callback it is in.
MayCall(t, op) ==
  /\ op \in Ops
  /\ calls < MaxCalls
  /\ Len(stack[t]) < MaxDepth
  /\ stack[t] # <<>> => Top(t).at \in UserCode /\ op \in CallbackOps

Enter(t, op, frame) ==
  /\ MayCall(t, op)
  /\ stack' = [stack EXCEPT ![t] = Append(@, frame)]
  /\ calls' = calls + 1

\* lost.lock() of is_lost and lost_reason waits while lose holds it.
ReadsLost == lost_lock = NoThread
IsLost == reason # "none"

-----------------------------------------------------------------------------
(* Error scopes and the uncaptured error callback                          *)

Event(what, kind, n) == [what |-> what, kind |-> kind, n |-> n]
Note(t, event) == log' = [log EXCEPT ![t] = Append(@, event)]

\* wgpuDevicePushErrorScope
PushErrorScope(t, filter) ==
  /\ MayCall(t, "push") /\ (Alive \/ HasDevice(t))
  /\ Len(scopes[t]) < MaxScopes
  /\ scopes' = [scopes EXCEPT ![t] = Append(@, [filter |-> filter, error |-> 0])]
  /\ Note(t, Event("push", filter, 0))
  /\ calls' = calls + 1
  /\ UNCHANGED <<loss_vars, lost_vars, installed, active, cleared, held, stack>>

\* wgpuDevicePopErrorScope: a lost device answers without popping.
PopErrorScope(t) ==
  /\ At(t, "pop_is_lost") /\ ReadsLost
  /\ IF IsLost THEN Return(t) ELSE Goto(t, "pop")
  /\ UNCHANGED <<loss_vars, lost_vars, sink_vars, held, calls>>

PopScope(t) ==
  /\ At(t, "pop")
  /\ IF scopes[t] = <<>>                     \* PopErrorScopeError::EmptyStack
       THEN UNCHANGED <<scopes, log>>
       ELSE LET n == Len(scopes[t]) IN
            /\ Note(t, Event("pop", scopes[t][n].filter, scopes[t][n].error))
            /\ scopes' = [scopes EXCEPT ![t] = SubSeq(@, 1, n - 1)]
  /\ Return(t)
  /\ UNCHANGED <<loss_vars, lost_vars, installed, active, cleared, held, calls>>

\* dispatch_error: the loss is tested before the sink is locked.
DispatchError(t) ==
  /\ At(t, "is_lost") /\ ReadsLost
  /\ IF IsLost THEN Return(t) ELSE Goto(t, "route")
  /\ UNCHANGED <<loss_vars, lost_vars, sink_vars, held, calls>>

\* Mutant: the outermost matching scope.
MatchingScope_Outermost(t, kind) ==
  LET matching == {i \in DOMAIN scopes[t] : scopes[t][i].filter = kind}
  IN  IF matching = {} THEN 0
      ELSE CHOOSE i \in matching : \A j \in matching : i <= j

\* ErrorFilter::matches, innermost scope first; 0 when none matches
MatchingScope(t, kind) ==
  LET matching == {i \in DOMAIN scopes[t] : scopes[t][i].filter = kind}
  IN  IF matching = {} THEN 0
      ELSE CHOOSE i \in matching : \A j \in matching : j <= i

\* dispatch_error under the sink's lock: a matching scope keeps its first
\* error; without one the callback is cloned and counted as active.
RouteError(t) ==
  LET kind == Top(t).arg
      scope == MatchingScope(t, kind)
      n == Len(log[t]) + 1
  IN
  /\ At(t, "route")
  /\ Note(t, Event("error", kind, IF scope = 0 THEN 0 ELSE 1))
  /\ IF scope # 0
       THEN /\ scopes' = [scopes EXCEPT ![t][scope].error = IF @ = 0 THEN n ELSE @]
            /\ Return(t)
            /\ UNCHANGED active
       ELSE /\ IF installed
                 THEN /\ active' = [active EXCEPT ![t] = @ + 1]
                      /\ Goto(t, "enter_cb")
                 ELSE Return(t) /\ UNCHANGED active
            /\ UNCHANGED scopes
  /\ UNCHANGED <<loss_vars, lost_vars, installed, cleared, held, calls>>

\* The closure installed by wgpuAdapterRequestDevice: the application's
\* callback runs only while a device reference exists.
EnterErrorCallback(t) ==
  /\ At(t, "enter_cb")
  /\ Goto(t, IF Alive THEN "error_cb" ELSE "error_done")
  /\ UNCHANGED <<loss_vars, lost_vars, sink_vars, held, calls>>

\* The application's callback returns.
LeaveErrorCallback(t) ==
  /\ At(t, "error_cb")
  /\ Goto(t, "error_done")
  /\ UNCHANGED <<loss_vars, lost_vars, sink_vars, held, calls>>

\* Drop of ActiveCallback
ErrorDone(t) ==
  /\ At(t, "error_done")
  /\ active' = [active EXCEPT ![t] = @ - 1]
  /\ Return(t)
  /\ UNCHANGED <<loss_vars, lost_vars, installed, scopes, log, cleared, held, calls>>

\* Mutant: the clear does not wait for callbacks that are running.
OthersIdle_Unwaited(t) == ~installed

\* clear_uncaptured_error_callback waits on callbacks_idle for this.
OthersIdle(t) == \A u \in Threads \ {t} : active[u] = 0

-----------------------------------------------------------------------------
(* Loss                                                                    *)

\* Device::lose(Destroyed) first waits for the queue; the flush in
\* wait_idle takes `submission`, and a failure is dispatched as an error.
WaitIdle(t) ==
  /\ At(t, "wait_idle")
  /\ submission = NoThread
  /\ \/ Goto(t, "lose")
     \/ CallThen(t, Frame("is_lost", "internal"), "lose")
  /\ UNCHANGED <<loss_vars, lost_vars, sink_vars, held, calls>>

\* Mutant: a late lose leaves the future to the thread that came first.
TakeLost_LateReturns(t) ==
  /\ At(t, "lose") /\ lost_lock = NoThread
  /\ IF IsLost
       THEN /\ IF Top(t).arg = "release" THEN Goto(t, "clear") ELSE Return(t)
            /\ ended' = TRUE
            /\ UNCHANGED lost_lock
       ELSE Goto(t, "mark_lost") /\ lost_lock' = t /\ UNCHANGED ended
  /\ UNCHANGED <<reason, submission, queue_lost, future_lock, lost_entry, lost_mode,
                 completed, fired, sink_vars, held, calls>>

\* Device::lose under `lost`; one that comes late finds the reason.
TakeLost(t) ==
  /\ At(t, "lose") /\ lost_lock = NoThread
  /\ IF IsLost
       THEN Goto(t, "future") /\ UNCHANGED lost_lock
       ELSE Goto(t, "mark_lost") /\ lost_lock' = t
  /\ UNCHANGED <<reason, submission, queue_lost, lost_vars, sink_vars, held, calls>>

\* Queue::mark_lost takes `submission` while lose holds `lost`.  What
\* abort_pending_device_callbacks then does is in module MapGate.
MarkLost(t) ==
  /\ At(t, "mark_lost") /\ submission = NoThread
  /\ queue_lost' = TRUE
  /\ reason' = "destroyed"
  /\ lost_lock' = NoThread
  /\ Goto(t, "future")
  /\ UNCHANGED <<submission, lost_vars, sink_vars, held, calls>>

\* schedule_device_lost reads device_lost_future.
ReadFuture(t) ==
  /\ At(t, "future") /\ future_lock = NoThread
  /\ Goto(t, "complete")
  /\ UNCHANGED <<loss_vars, lost_vars, sink_vars, held, calls>>

\* What the call that completed the future does next: the last release
\* clears the error callback, a submit reports its error, if any.
AfterComplete(t) ==
  LET arg == Top(t).arg IN
  CASE arg = "release" -> Append(Under(t), Frame("clear", arg))
    [] arg \in Kinds   -> Append(Under(t), Frame("is_lost", arg))
    [] OTHER           -> Under(t)

\* complete_device_lost: the future completes even if the callback is gone;
\* a spontaneous callback leaves the map under the same lock and is fired.
CompleteDeviceLost(t) ==
  LET fires == lost_entry /\ lost_mode = "spontaneous" IN
  /\ At(t, "complete")
  /\ completed' = TRUE
  /\ lost_entry' = (lost_entry /\ ~fires)
  /\ stack' = [stack EXCEPT ![t] =
                 IF fires THEN Append(AfterComplete(t), Frame("fire", Top(t).arg))
                          ELSE AfterComplete(t)]
  /\ ended' = (ended \/ (Top(t).arg = "destroy" /\ ~fires))
  /\ UNCHANGED <<loss_vars, future_lock, lost_mode, fired, sink_vars, held, calls>>

\* PendingCallback::fire of DeviceLost: with a device to show, the error
\* callback is cleared before the application is told; otherwise it is shown null.
FireLost(t) ==
  /\ At(t, "fire")
  /\ IF Alive
       THEN /\ installed' = FALSE
            /\ Goto(t, "fire_wait")
            /\ UNCHANGED fired
       ELSE /\ Goto(t, "null_cb")
            /\ fired' = fired + 1
            /\ UNCHANGED installed
  /\ UNCHANGED <<loss_vars, future_lock, lost_entry, lost_mode, completed, ended,
                 scopes, active, log, cleared, held, calls>>

FireWaited(t) ==
  /\ At(t, "fire_wait") /\ OthersIdle(t)
  /\ cleared' = cleared \cup {t}
  /\ fired' = fired + 1
  /\ Goto(t, "lost_cb")
  /\ UNCHANGED <<loss_vars, future_lock, lost_entry, lost_mode, completed, ended,
                 installed, scopes, active, log, held, calls>>

\* The application's device-lost callback returns.
LeaveLostCallback(t) ==
  /\ At(t, "lost_cb") \/ At(t, "null_cb")
  /\ Return(t)
  /\ ended' = (ended \/ Top(t).arg = "destroy")
  /\ UNCHANGED <<loss_vars, future_lock, lost_entry, lost_mode, completed, fired,
                 sink_vars, held, calls>>

\* clear_uncaptured_error_callback of the last release.  Drop of the
\* WGPUDeviceImpl repeats both steps and finds nothing left to do.
ClearErrorCallback(t) ==
  /\ At(t, "clear")
  /\ installed' = FALSE
  /\ Goto(t, "clear_wait")
  /\ UNCHANGED <<loss_vars, lost_vars, scopes, active, log, cleared, held, calls>>

ClearWaited(t) ==
  /\ At(t, "clear_wait") /\ OthersIdle(t)
  /\ cleared' = cleared \cup {t}
  /\ ended' = TRUE
  /\ Return(t)
  /\ UNCHANGED <<loss_vars, future_lock, lost_entry, lost_mode, completed, fired,
                 installed, scopes, active, log, held, calls>>

\* wgpuDeviceGetLostFuture of a device whose future wgpuAdapterRequestDevice
\* has registered: is_lost is asked under the future's lock.
GetLostFuture(t) ==
  /\ At(t, "get_future") /\ future_lock = NoThread
  /\ future_lock' = t
  /\ Goto(t, "get_is_lost")
  /\ UNCHANGED <<loss_vars, lost_entry, lost_mode, completed, fired, ended,
                 sink_vars, held, calls>>

GotLostFuture(t) ==
  /\ At(t, "get_is_lost") /\ ReadsLost
  /\ future_lock' = NoThread
  /\ Return(t)
  /\ UNCHANGED <<loss_vars, lost_entry, lost_mode, completed, fired, ended,
                 sink_vars, held, calls>>

-----------------------------------------------------------------------------
(* Calls that meet a loss                                                  *)

\* wgpuQueueSubmit: the device's loss, then the queue's under `submission`
SubmitTest(t) ==
  /\ At(t, "submit") /\ ReadsLost
  /\ Goto(t, IF IsLost THEN "observe" ELSE "take_submission")
  /\ UNCHANGED <<loss_vars, lost_vars, sink_vars, held, calls>>

TakeSubmission(t) ==
  /\ At(t, "take_submission") /\ submission = NoThread
  /\ IF queue_lost
       THEN Goto(t, "observe") /\ UNCHANGED submission
       ELSE Goto(t, "submitting") /\ submission' = t
  /\ UNCHANGED <<reason, lost_lock, queue_lost, lost_vars, sink_vars, held, calls>>

\* Mutant: the loss of the device is asked for under `submission`.
SubmitDone_TestsLoss(t) ==
  /\ At(t, "submitting") /\ ReadsLost
  /\ submission' = NoThread
  /\ \E error \in {"none", "internal"} : ReturnInto(t, Frame("observe", error))
  /\ UNCHANGED <<reason, lost_lock, queue_lost, lost_vars, sink_vars, held, calls>>

\* The queue's work is done; an error is kept for after the observation.
SubmitDone(t) ==
  /\ At(t, "submitting")
  /\ submission' = NoThread
  /\ \E error \in {"none", "internal"} : ReturnInto(t, Frame("observe", error))
  /\ UNCHANGED <<reason, lost_lock, queue_lost, lost_vars, sink_vars, held, calls>>

\* observe_device_loss: the map entry it completes may be gone meanwhile.
ObserveLoss(t) ==
  /\ At(t, "observe") /\ ReadsLost
  /\ IF IsLost THEN Goto(t, "complete")
     ELSE stack' = [stack EXCEPT ![t] = AfterComplete(t)]
  /\ UNCHANGED <<loss_vars, lost_vars, sink_vars, held, calls>>

\* wgpuInstanceProcessEvents takes the completed callback from the map.
ProcessEvents(t) ==
  /\ lost_entry /\ completed /\ lost_mode # "wait_any"
  /\ Enter(t, "process", Frame("fire", "process"))
  /\ lost_entry' = FALSE
  /\ UNCHANGED <<loss_vars, future_lock, lost_mode, completed, fired, ended,
                 sink_vars, held>>

-----------------------------------------------------------------------------
(* The application                                                         *)

\* wgpuDeviceRelease: the last reference destroys the device.
Release(t) ==
  /\ held[t] > 0
  /\ MayCall(t, "release")
  /\ held' = [held EXCEPT ![t] = @ - 1]
  /\ stack' = IF \A u \in Threads : held'[u] = 0
                THEN [stack EXCEPT ![t] = Append(@, Frame("wait_idle", "release"))]
                ELSE stack
  /\ calls' = calls + 1
  /\ UNCHANGED <<loss_vars, lost_vars, sink_vars>>

\* wgpuDeviceAddRef, for another thread to own
AddRef(t, u) ==
  /\ HasDevice(t) /\ Alive /\ held[u] = 0
  /\ MayCall(t, "add_ref")
  /\ held' = [held EXCEPT ![u] = @ + 1]
  /\ calls' = calls + 1
  /\ UNCHANGED <<loss_vars, lost_vars, sink_vars, stack>>

\* Calls that begin with a test; an error or a submit needs no device handle.
Begin(t) ==
  /\ \/ (Alive \/ HasDevice(t)) /\ Enter(t, "pop", Frame("pop_is_lost", "none"))
     \/ \E kind \in Kinds : Enter(t, "error", Frame("is_lost", kind))
     \/ HasDevice(t) /\ Enter(t, "destroy", Frame("wait_idle", "destroy"))
     \/ Enter(t, "submit", Frame("submit", "none"))
     \/ (Alive \/ HasDevice(t)) /\ Enter(t, "get_future", Frame("get_future", "none"))
  /\ UNCHANGED <<loss_vars, lost_vars, sink_vars, held>>

Step(t) ==
  \/ PopErrorScope(t) \/ PopScope(t)
  \/ DispatchError(t) \/ RouteError(t)
  \/ EnterErrorCallback(t) \/ LeaveErrorCallback(t) \/ ErrorDone(t)
  \/ WaitIdle(t) \/ TakeLost(t) \/ MarkLost(t)
  \/ ReadFuture(t) \/ CompleteDeviceLost(t)
  \/ FireLost(t) \/ FireWaited(t) \/ LeaveLostCallback(t)
  \/ ClearErrorCallback(t) \/ ClearWaited(t)
  \/ GetLostFuture(t) \/ GotLostFuture(t)
  \/ SubmitTest(t) \/ TakeSubmission(t) \/ SubmitDone(t) \/ ObserveLoss(t)

Init ==
  /\ reason = "none" /\ queue_lost = FALSE
  /\ lost_lock = NoThread /\ submission = NoThread /\ future_lock = NoThread
  /\ installed = TRUE
  /\ scopes = [t \in Threads |-> <<>>]
  /\ active = [t \in Threads |-> 0]
  /\ \E t \in Threads : held = [u \in Threads |-> IF u = t THEN 1 ELSE 0]
  /\ lost_entry = TRUE /\ lost_mode \in Modes /\ completed = FALSE
  /\ stack = [t \in Threads |-> <<>>]
  /\ calls = 0
  /\ log = [t \in Threads |-> <<>>]
  /\ fired = 0 /\ cleared = {} /\ ended = FALSE

\* Two threads that clear the error callback from inside it, by a release or before
\* a device-lost callback, wait for each other for ever: only the calling thread's
\* own callbacks are excepted from the wait.
ClearsInside(t) == (At(t, "clear_wait") \/ At(t, "fire_wait")) /\ active[t] > 0

Crossed == \E t, u \in Threads : t # u /\ ClearsInside(t) /\ ClearsInside(u)

\* No call is open, or two are crossed: the behaviour may stop here, and only here.
Quiet ==
  /\ (\A t \in Threads : stack[t] = <<>>) \/ Crossed
  /\ UNCHANGED vars

Next ==
  \/ \E t \in Threads :
       \/ Step(t)
       \/ Begin(t) \/ Release(t) \/ ProcessEvents(t)
       \/ \E filter \in Kinds : PushErrorScope(t, filter)
       \/ \E u \in Threads : AddRef(t, u)
  \/ Quiet

Spec == Init /\ [][Next]_vars

-----------------------------------------------------------------------------
(* Properties                                                              *)

\* Once a clear_uncaptured_error_callback has returned, that of the last
\* release or that before the device-lost callback is told of the device, no
\* other thread is in the application's error callback or ever enters it; a
\* thread inside its own callback is not waited for (device.rs:284).
ErrorCallbackSilenced ==
  cleared # {} =>
    \A t \in Threads \ cleared, i \in 1..MaxDepth :
      i \in DOMAIN stack[t] => stack[t][i].at # "error_cb"

\* The device-lost future is complete when a destroy or the last release
\* returns, whichever thread lost the device and whoever observed it first; a
\* spontaneous callback has then left the map, and no interleaving of
\* destroy, release, submit and ProcessEvents calls it twice or before the
\* device is lost (ffi/mod.rs:1026, :762, :792).
LossSettled ==
  /\ ended => completed /\ (lost_mode = "spontaneous" => ~lost_entry)
  /\ fired <= (IF lost_entry THEN 0 ELSE 1)
  /\ completed => IsLost

\* Reference for the scopes, from the history of thread t: an error belongs
\* to the innermost scope of its kind that is open when it is routed, and a
\* scope reports the first error that belongs to it.
ClosedAt(t, q) ==
  LET L == log[t]
      Between(what, p) == Cardinality({i \in q..p : L[i].what = what})
      ends == {p \in DOMAIN L : p > q /\ Between("push", p) = Between("pop", p)}
  IN  IF ends = {} THEN Len(L) + 1 ELSE CHOOSE p \in ends : \A r \in ends : p <= r

Belongs(t, e, q) ==
  LET Open(s) == /\ log[t][s].what = "push" /\ log[t][s].kind = log[t][e].kind
                 /\ s < e /\ e < ClosedAt(t, s)
  IN  Open(q) /\ \A s \in q + 1 .. e : ~Open(s)

\* Every error an open scope of its thread matches is kept from the
\* callback, and a pop returns the first error of the scope it closes, also
\* when errors of other kinds and inner scopes came in between
\* (device.rs:312, :331).
ScopesTrue ==
  \A t \in Threads : \A i \in DOMAIN log[t] :
    CASE log[t][i].what = "error" ->
           (log[t][i].n = 1) <=> \E q \in 1 .. i - 1 : Belongs(t, i, q)
      [] log[t][i].what = "pop" ->
           LET q == CHOOSE q \in 1 .. i - 1 : log[t][q].what = "push" /\ ClosedAt(t, q) = i
               mine == {e \in q .. i : log[t][e].what = "error" /\ Belongs(t, e, q)}
           IN  IF mine = {} THEN log[t][i].n = 0
               ELSE log[t][i].n \in mine /\ \A e \in mine : log[t][i].n <= e
      [] OTHER -> TRUE

\* While a call is open some call can go on, unless two threads clear the error
\* callback from inside it: no other cycle among the locks (lose takes `submission`
\* under `lost`, GetLostFuture asks for `lost` under the future's lock), the wait on
\* callbacks_idle and the callbacks of two threads.  A call has finitely many steps,
\* so every call returns that no crossed one keeps waiting (device.rs:258, :284).
NoDeadlock ==
  (\E t \in Threads : stack[t] # <<>>) /\ ~Crossed => ENABLED (\E t \in Threads : Step(t))


=============================================================================
