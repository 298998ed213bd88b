---------------------------- MODULE DeviceProofs ----------------------------
(***************************************************************************)
(* Device for any number of threads, kinds of errors and nested calls: the *)
(* loss is settled when a destroy or the last release returns, a cleared   *)
(* error callback is silent, and error scopes report what their reference  *)
(* says.  First the types and what a step does to a thread's stack; then   *)
(* one invariant for each, on top of the types.                            *)
(***************************************************************************)
EXTENDS Device, FiniteSetTheorems, SequenceTheorems, TLAPS

USE DEF loss_vars, lost_vars, sink_vars

-----------------------------------------------------------------------------
(* Types                                                                   *)

Labels ==
  {"pop_is_lost", "pop", "is_lost", "route", "enter_cb", "error_cb", "error_done",
   "wait_idle", "lose", "mark_lost", "future", "complete", "fire", "fire_wait",
   "lost_cb", "null_cb", "clear", "clear_wait", "get_future", "get_is_lost", "submit",
   "take_submission", "submitting", "observe"}
Args   == Kinds \cup {"none", "destroy", "release", "process"}
Frames == [at : Labels, arg : Args]
Scopes == [filter : Kinds, error : Nat]
Events == [what : {"push", "pop", "error"}, kind : Kinds, n : Nat]

StackType == stack \in [Threads -> Seq(Frames)]
RestType ==
  /\ reason \in {"none", "destroyed"}
  /\ lost_lock \in Threads \cup {NoThread}
  /\ submission \in Threads \cup {NoThread}
  /\ future_lock \in Threads \cup {NoThread}
  /\ queue_lost \in BOOLEAN /\ installed \in BOOLEAN
  /\ lost_entry \in BOOLEAN /\ completed \in BOOLEAN /\ ended \in BOOLEAN
  /\ lost_mode \in Modes
  /\ held \in [Threads -> Nat]
  /\ active \in [Threads -> Int]
  /\ calls \in Nat /\ fired \in Nat
  /\ cleared \subseteq Threads
SinkType ==
  /\ scopes \in [Threads -> Seq(Scopes)]
  /\ log \in [Threads -> Seq(Events)]
TypeOK == StackType /\ RestType /\ SinkType

-----------------------------------------------------------------------------
(* Stacks                                                                  *)

\* What thread t's stack is after a step: the frames below n stay, then come
\* those of `top`.
Becomes(t, n, top) ==
  /\ \A u \in Threads : u # t => stack'[u] = stack[u]
  /\ stack'[t] \in Seq(Frames)
  /\ n \in Nat /\ n <= Len(stack[t]) + 1 /\ n > 0
  /\ DOMAIN stack'[t] = 1 .. n - 1 + Len(top)
  /\ \A k \in 1 .. n - 1 : stack'[t][k] = stack[t][k]
  /\ \A k \in 1 .. Len(top) : stack'[t][n - 1 + k] = top[k]

LEMMA FrameTyped ==
  ASSUME NEW label \in Labels, NEW arg \in Args
  PROVE  /\ Frame(label, arg) \in Frames
         /\ Frame(label, arg).at = label /\ Frame(label, arg).arg = arg
  BY DEF Frame, Frames

LEMMA TopFacts ==
  ASSUME StackType, NEW t \in Threads, stack[t] # <<>>
  PROVE  /\ stack[t] \in Seq(Frames) /\ Len(stack[t]) \in Nat \ {0}
         /\ DOMAIN stack[t] = 1 .. Len(stack[t]) /\ Len(stack[t]) \in DOMAIN stack[t]
         /\ Top(t) \in Frames /\ Top(t).at \in Labels /\ Top(t).arg \in Args
         /\ Top(t) = stack[t][Len(stack[t])]
         /\ Under(t) \in Seq(Frames) /\ Len(Under(t)) = Len(stack[t]) - 1
         /\ DOMAIN Under(t) = 1 .. Len(stack[t]) - 1
         /\ \A k \in 1 .. Len(stack[t]) - 1 : Under(t)[k] = stack[t][k]
  <1>1. stack[t] \in Seq(Frames) /\ Len(stack[t]) \in Nat \ {0}
        /\ DOMAIN stack[t] = 1 .. Len(stack[t]) /\ Len(stack[t]) \in DOMAIN stack[t]
    BY DEF StackType
  <1>2. Top(t) \in Frames /\ Top(t) = stack[t][Len(stack[t])]
    BY <1>1 DEF Top
  <1>3. Top(t).at \in Labels /\ Top(t).arg \in Args
    BY <1>2 DEF Frames
  <1>4. /\ Under(t) \in Seq(Frames) /\ Len(Under(t)) = Len(stack[t]) - 1
        /\ DOMAIN Under(t) = 1 .. Len(stack[t]) - 1
        /\ \A k \in 1 .. Len(stack[t]) - 1 : Under(t)[k] = stack[t][k]
    BY <1>1 DEF Under
  <1>. QED
    BY <1>1, <1>2, <1>3, <1>4

LEMMA SetTop ==
  ASSUME StackType, NEW t \in Threads, stack[t] # <<>>, NEW f \in Frames,
         stack' = [stack EXCEPT ![t] = Append(Under(t), f)]
  PROVE  StackType' /\ Becomes(t, Len(stack[t]), <<f>>)
  <1>1. Append(Under(t), f) \in Seq(Frames)
    BY TopFacts
  <1>2. /\ DOMAIN Append(Under(t), f) = 1 .. Len(stack[t])
        /\ \A k \in 1 .. Len(stack[t]) - 1 : Append(Under(t), f)[k] = stack[t][k]
        /\ Append(Under(t), f)[Len(stack[t])] = f
    BY TopFacts
  <1>3. stack'[t] = Append(Under(t), f) /\ \A u \in Threads : u # t => stack'[u] = stack[u]
    BY DEF StackType
  <1>4. StackType'
    BY <1>1 DEF StackType
  <1>. QED
    BY <1>1, <1>2, <1>3, <1>4, TopFacts DEF Becomes

LEMMA GotoFacts ==
  ASSUME StackType, NEW t \in Threads, stack[t] # <<>>, NEW label \in Labels, Goto(t, label)
  PROVE  StackType' /\ Becomes(t, Len(stack[t]), <<Frame(label, Top(t).arg)>>)
  <1>1. Frame(label, Top(t).arg) \in Frames
    BY TopFacts, FrameTyped
  <1>. QED
    BY <1>1, SetTop DEF Goto

LEMMA SetUnder ==
  ASSUME StackType, NEW t \in Threads, stack[t] # <<>>,
         stack' = [stack EXCEPT ![t] = Under(t)]
  PROVE  StackType' /\ Becomes(t, Len(stack[t]), <<>>)
  <1>1. stack'[t] = Under(t) /\ \A u \in Threads : u # t => stack'[u] = stack[u]
    BY DEF StackType
  <1>2. StackType'
    BY TopFacts DEF StackType
  <1>. QED
    BY <1>1, <1>2, TopFacts DEF Becomes

LEMMA SetTwo ==
  ASSUME StackType, NEW t \in Threads, stack[t] # <<>>, NEW f \in Frames, NEW g \in Frames,
         stack' = [stack EXCEPT ![t] = Append(Append(Under(t), f), g)]
  PROVE  StackType' /\ Becomes(t, Len(stack[t]), <<f, g>>)
  <1> DEFINE one == Append(Under(t), f)
  <1>1. /\ one \in Seq(Frames) /\ Len(one) = Len(stack[t])
        /\ \A k \in 1 .. Len(stack[t]) - 1 : one[k] = stack[t][k]
        /\ one[Len(stack[t])] = f
    BY TopFacts
  <1>. HIDE DEF one
  <1>2. /\ Append(one, g) \in Seq(Frames) /\ DOMAIN Append(one, g) = 1 .. Len(stack[t]) + 1
        /\ \A k \in 1 .. Len(stack[t]) : Append(one, g)[k] = one[k]
        /\ Append(one, g)[Len(stack[t]) + 1] = g
    BY <1>1, TopFacts
  <1>3. stack'[t] = Append(one, g) /\ \A u \in Threads : u # t => stack'[u] = stack[u]
    BY DEF StackType, one
  <1>4. StackType'
    BY <1>2 DEF StackType, one
  <1>5. Len(<<f, g>>) = 2 /\ <<f, g>>[1] = f /\ <<f, g>>[2] = g
    OBVIOUS
  <1>6. \A k \in 1 .. 2 : stack'[t][Len(stack[t]) - 1 + k] = <<f, g>>[k]
    BY <1>1, <1>2, <1>3, <1>5, TopFacts
  <1>7. \A k \in 1 .. Len(stack[t]) - 1 : stack'[t][k] = stack[t][k]
    BY <1>1, <1>2, <1>3, TopFacts
  <1>. QED
    BY <1>2, <1>3, <1>4, <1>5, <1>6, <1>7, TopFacts DEF Becomes

LEMMA SetOver ==
  ASSUME StackType, NEW t \in Threads, NEW f \in Frames,
         stack' = [stack EXCEPT ![t] = Append(@, f)]
  PROVE  StackType' /\ Becomes(t, Len(stack[t]) + 1, <<f>>)
  <1>1. /\ stack[t] \in Seq(Frames) /\ Len(stack[t]) \in Nat
        /\ Append(stack[t], f) \in Seq(Frames)
        /\ DOMAIN Append(stack[t], f) = 1 .. Len(stack[t]) + 1
        /\ \A k \in 1 .. Len(stack[t]) : Append(stack[t], f)[k] = stack[t][k]
        /\ Append(stack[t], f)[Len(stack[t]) + 1] = f
    BY DEF StackType
  <1>2. stack'[t] = Append(stack[t], f) /\ \A u \in Threads : u # t => stack'[u] = stack[u]
    BY DEF StackType
  <1>3. StackType'
    BY <1>1 DEF StackType
  <1>. QED
    BY <1>1, <1>2, <1>3 DEF Becomes

-----------------------------------------------------------------------------
(* What each step does to the stack                                        *)

Here(t, top)  == StackType' /\ stack[t] # <<>> /\ Becomes(t, Len(stack[t]), top)
To(t, label)  == Here(t, <<Frame(label, Top(t).arg)>>)
Over(t, f)    == StackType' /\ Becomes(t, Len(stack[t]) + 1, <<f>>)

\* The labels, one by one, for the steps that name them.
LEMMA LabelFacts ==
  /\ \A l \in {"pop", "route", "enter_cb", "error_cb", "error_done", "lose", "mark_lost",
               "future", "complete", "fire", "fire_wait", "lost_cb", "null_cb", "clear",
               "clear_wait", "get_is_lost", "take_submission", "submitting", "observe", "is_lost",
               "wait_idle", "pop_is_lost", "submit", "get_future"} : l \in Labels
  /\ \A a \in {"none", "destroy", "release", "process"} : a \in Args
  /\ "internal" \in Args
  BY DeviceAssumption DEF Labels, Args

LEMMA GoesTo ==
  ASSUME StackType, NEW t \in Threads, stack[t] # <<>>, NEW label \in Labels, Goto(t, label)
  PROVE  To(t, label)
  BY GotoFacts DEF To, Here

LEMMA GoesBack ==
  ASSUME StackType, NEW t \in Threads, stack[t] # <<>>, Return(t)
  PROVE  Here(t, <<>>)
  BY SetUnder DEF Return, Here

LEMMA Enters ==
  ASSUME StackType, NEW t \in Threads, NEW op, NEW f \in Frames, Enter(t, op, f)
  PROVE  Over(t, f)
  BY SetOver DEF Enter, Over

LEMMA PopErrorScopeShape ==
  ASSUME StackType, NEW t \in Threads, PopErrorScope(t)
  PROVE  To(t, "pop") \/ Here(t, <<>>)
  BY GoesTo, GoesBack, LabelFacts DEF PopErrorScope, At

LEMMA PopScopeShape ==
  ASSUME StackType, NEW t \in Threads, PopScope(t)
  PROVE  Here(t, <<>>)
  BY GoesTo, GoesBack, LabelFacts DEF PopScope, At

LEMMA DispatchErrorShape ==
  ASSUME StackType, NEW t \in Threads, DispatchError(t)
  PROVE  To(t, "route") \/ Here(t, <<>>)
  BY GoesTo, GoesBack, LabelFacts DEF DispatchError, At

LEMMA RouteErrorShape ==
  ASSUME StackType, NEW t \in Threads, RouteError(t)
  PROVE  To(t, "enter_cb") \/ Here(t, <<>>)
  BY GoesTo, GoesBack, LabelFacts DEF RouteError, At

LEMMA EnterErrorCallbackShape ==
  ASSUME StackType, NEW t \in Threads, EnterErrorCallback(t)
  PROVE  To(t, "error_cb") \/ To(t, "error_done")
  BY GoesTo, GoesBack, LabelFacts DEF EnterErrorCallback, At

LEMMA LeaveErrorCallbackShape ==
  ASSUME StackType, NEW t \in Threads, LeaveErrorCallback(t)
  PROVE  To(t, "error_done")
  BY GoesTo, GoesBack, LabelFacts DEF LeaveErrorCallback, At

LEMMA ErrorDoneShape ==
  ASSUME StackType, NEW t \in Threads, ErrorDone(t)
  PROVE  Here(t, <<>>)
  BY GoesTo, GoesBack, LabelFacts DEF ErrorDone, At

LEMMA TakeLostShape ==
  ASSUME StackType, NEW t \in Threads, TakeLost(t)
  PROVE  To(t, "future") \/ To(t, "mark_lost")
  BY GoesTo, GoesBack, LabelFacts DEF TakeLost, At

LEMMA MarkLostShape ==
  ASSUME StackType, NEW t \in Threads, MarkLost(t)
  PROVE  To(t, "future")
  BY GoesTo, GoesBack, LabelFacts DEF MarkLost, At

LEMMA ReadFutureShape ==
  ASSUME StackType, NEW t \in Threads, ReadFuture(t)
  PROVE  To(t, "complete")
  BY GoesTo, GoesBack, LabelFacts DEF ReadFuture, At

LEMMA FireLostShape ==
  ASSUME StackType, NEW t \in Threads, FireLost(t)
  PROVE  To(t, "fire_wait") \/ To(t, "null_cb")
  BY GoesTo, GoesBack, LabelFacts DEF FireLost, At

LEMMA FireWaitedShape ==
  ASSUME StackType, NEW t \in Threads, FireWaited(t)
  PROVE  To(t, "lost_cb")
  BY GoesTo, GoesBack, LabelFacts DEF FireWaited, At

LEMMA LeaveLostCallbackShape ==
  ASSUME StackType, NEW t \in Threads, LeaveLostCallback(t)
  PROVE  Here(t, <<>>)
  BY GoesTo, GoesBack, LabelFacts DEF LeaveLostCallback, At

LEMMA ClearErrorCallbackShape ==
  ASSUME StackType, NEW t \in Threads, ClearErrorCallback(t)
  PROVE  To(t, "clear_wait")
  BY GoesTo, GoesBack, LabelFacts DEF ClearErrorCallback, At

LEMMA ClearWaitedShape ==
  ASSUME StackType, NEW t \in Threads, ClearWaited(t)
  PROVE  Here(t, <<>>)
  BY GoesTo, GoesBack, LabelFacts DEF ClearWaited, At

LEMMA GetLostFutureShape ==
  ASSUME StackType, NEW t \in Threads, GetLostFuture(t)
  PROVE  To(t, "get_is_lost")
  BY GoesTo, GoesBack, LabelFacts DEF GetLostFuture, At

LEMMA GotLostFutureShape ==
  ASSUME StackType, NEW t \in Threads, GotLostFuture(t)
  PROVE  Here(t, <<>>)
  BY GoesTo, GoesBack, LabelFacts DEF GotLostFuture, At

LEMMA SubmitTestShape ==
  ASSUME StackType, NEW t \in Threads, SubmitTest(t)
  PROVE  To(t, "observe") \/ To(t, "take_submission")
  BY GoesTo, GoesBack, LabelFacts DEF SubmitTest, At

LEMMA TakeSubmissionShape ==
  ASSUME StackType, NEW t \in Threads, TakeSubmission(t)
  PROVE  To(t, "observe") \/ To(t, "submitting")
  BY GoesTo, GoesBack, LabelFacts DEF TakeSubmission, At

LEMMA WaitIdleShape ==
  ASSUME StackType, NEW t \in Threads, WaitIdle(t)
  PROVE  \/ To(t, "lose")
         \/ Here(t, <<Frame("lose", Top(t).arg), Frame("is_lost", "internal")>>)
  <1>1. /\ stack[t] # <<>>
        /\ Frame("lose", Top(t).arg) \in Frames /\ Frame("is_lost", "internal") \in Frames
    BY LabelFacts, FrameTyped, TopFacts DEF WaitIdle, At
  <1>2. CASE Goto(t, "lose")
    BY <1>1, <1>2, GoesTo, LabelFacts
  <1>3. CASE CallThen(t, Frame("is_lost", "internal"), "lose")
    BY <1>1, <1>3, SetTwo DEF CallThen, Here
  <1>. QED
    BY <1>2, <1>3 DEF WaitIdle

LEMMA CompleteShape ==
  ASSUME StackType, NEW t \in Threads, stack[t] # <<>>, NEW g \in Frames
  PROVE  /\ stack' = [stack EXCEPT ![t] = AfterComplete(t)] =>
              \/ Here(t, <<Frame("clear", Top(t).arg)>>) /\ Top(t).arg = "release"
              \/ Here(t, <<Frame("is_lost", Top(t).arg)>>) /\ Top(t).arg \in Kinds
              \/ Here(t, <<>>)
         /\ stack' = [stack EXCEPT ![t] = Append(AfterComplete(t), g)] =>
              \/ Here(t, <<Frame("clear", Top(t).arg), g>>) /\ Top(t).arg = "release"
              \/ Here(t, <<Frame("is_lost", Top(t).arg), g>>) /\ Top(t).arg \in Kinds
              \/ Here(t, <<g>>)
  <1>1. /\ Frame("clear", Top(t).arg) \in Frames /\ Frame("is_lost", Top(t).arg) \in Frames
    BY LabelFacts, FrameTyped, TopFacts
  <1>2. \/ /\ Top(t).arg = "release"
           /\ AfterComplete(t) = Append(Under(t), Frame("clear", Top(t).arg))
        \/ /\ Top(t).arg \in Kinds
           /\ AfterComplete(t) = Append(Under(t), Frame("is_lost", Top(t).arg))
        \/ AfterComplete(t) = Under(t)
    BY DEF AfterComplete
  <1>3. CASE AfterComplete(t) = Append(Under(t), Frame("clear", Top(t).arg)) /\ Top(t).arg = "release"
    BY <1>1, <1>3, SetTop, SetTwo DEF Here
  <1>4. CASE AfterComplete(t) = Append(Under(t), Frame("is_lost", Top(t).arg)) /\ Top(t).arg \in Kinds
    BY <1>1, <1>4, SetTop, SetTwo DEF Here
  <1>5. CASE AfterComplete(t) = Under(t)
    BY <1>5, SetTop, SetUnder DEF Here
  <1>. QED
    BY <1>2, <1>3, <1>4, <1>5

Fires == lost_entry /\ lost_mode = "spontaneous"

LEMMA CompleteDeviceLostShape ==
  ASSUME StackType, NEW t \in Threads, CompleteDeviceLost(t),
         NEW g, g = Frame("fire", Top(t).arg)
  PROVE  /\ Fires =>
              \/ Here(t, <<Frame("clear", Top(t).arg), g>>)
              \/ Here(t, <<Frame("is_lost", Top(t).arg), g>>) /\ Top(t).arg \in Kinds
              \/ Here(t, <<g>>)
         /\ ~Fires =>
              \/ Here(t, <<Frame("clear", Top(t).arg)>>)
              \/ Here(t, <<Frame("is_lost", Top(t).arg)>>) /\ Top(t).arg \in Kinds
              \/ Here(t, <<>>)
  <1>1. stack[t] # <<>>
    BY DEF CompleteDeviceLost, At
  <1>2. g \in Frames
    BY <1>1, LabelFacts, FrameTyped, TopFacts
  <1>3. /\ Fires => stack' = [stack EXCEPT ![t] = Append(AfterComplete(t), g)]
        /\ ~Fires => stack' = [stack EXCEPT ![t] = AfterComplete(t)]
    BY DEF CompleteDeviceLost, Fires
  <1>. QED
    BY <1>1, <1>2, <1>3, CompleteShape

LEMMA ObserveLossShape ==
  ASSUME StackType, NEW t \in Threads, ObserveLoss(t)
  PROVE  \/ To(t, "complete") /\ IsLost
         \/ Here(t, <<Frame("clear", Top(t).arg)>>) /\ Top(t).arg = "release"
         \/ Here(t, <<Frame("is_lost", Top(t).arg)>>) /\ Top(t).arg \in Kinds
         \/ Here(t, <<>>)
  <1>1. stack[t] # <<>>
    BY DEF ObserveLoss, At
  <1>2. CASE IsLost
    BY <1>1, <1>2, GoesTo, LabelFacts DEF ObserveLoss
  <1>3. CASE ~IsLost
    <2>1. Top(t) \in Frames
      BY <1>1, TopFacts
    <2>. QED
      BY <1>1, <1>3, <2>1, CompleteShape DEF ObserveLoss
  <1>. QED
    BY <1>2, <1>3

LEMMA SubmitDoneShape ==
  ASSUME StackType, NEW t \in Threads, SubmitDone(t)
  PROVE  \E error \in {"none", "internal"} : Here(t, <<Frame("observe", error)>>)
  <1>1. PICK error \in {"none", "internal"} : ReturnInto(t, Frame("observe", error))
    BY DEF SubmitDone
  <1>2. Frame("observe", error) \in Frames
    BY LabelFacts, FrameTyped
  <1>3. stack[t] # <<>>
    BY DEF SubmitDone, At
  <1>. QED
    BY <1>1, <1>2, <1>3, SetTop DEF ReturnInto, Here

LEMMA ProcessEventsShape ==
  ASSUME StackType, NEW t \in Threads, ProcessEvents(t)
  PROVE  Over(t, Frame("fire", "process"))
  BY Enters, LabelFacts, FrameTyped DEF ProcessEvents

LEMMA ReleaseShape ==
  ASSUME StackType, NEW t \in Threads, Release(t)
  PROVE  Over(t, Frame("wait_idle", "release")) \/ stack' = stack
  BY SetOver, LabelFacts, FrameTyped DEF Release, Over

LEMMA BeginShape ==
  ASSUME StackType, NEW t \in Threads, Begin(t)
  PROVE  \/ Over(t, Frame("pop_is_lost", "none"))
         \/ \E kind \in Kinds : Over(t, Frame("is_lost", kind))
         \/ Over(t, Frame("wait_idle", "destroy"))
         \/ Over(t, Frame("submit", "none"))
         \/ Over(t, Frame("get_future", "none"))
  <1>1. \A kind \in Kinds : Frame("is_lost", kind) \in Frames
    BY LabelFacts, FrameTyped DEF Args
  <1>2. /\ Frame("pop_is_lost", "none") \in Frames /\ Frame("wait_idle", "destroy") \in Frames
        /\ Frame("submit", "none") \in Frames /\ Frame("get_future", "none") \in Frames
    BY LabelFacts, FrameTyped
  <1>. QED
    BY <1>1, <1>2, Enters DEF Begin

-----------------------------------------------------------------------------
(* What a label says of the device                                         *)

Spontaneous == lost_mode = "spontaneous"

\* The frames that may be open: an error on its way has a kind, a future is
\* completed after the loss, the callback fires once the future is complete and its
\* entry gone, and a clear waits after it has taken the callback out.
Sound ==
  {f \in Frames :
     /\ f.at \in {"is_lost", "route"} => f.arg \in Kinds
     /\ f.at \in {"submit", "take_submission", "submitting", "observe"} =>
          f.arg \in {"none", "internal"}
     /\ f.at \in {"future", "complete"} => IsLost
     /\ f.at \in {"fire", "fire_wait", "lost_cb", "null_cb"} => completed /\ ~lost_entry
     /\ f.at \in {"clear", "clear_wait"} => completed /\ ~Fires
     /\ f.at \in {"fire_wait", "clear_wait"} => ~installed}
FrameInv == \A u \in Threads : \A k \in DOMAIN stack[u] : stack[u][k] \in Sound

\* A frame after a step is an old one below n, or one of the new.
LEMMA Frames2 ==
  ASSUME StackType, NEW t \in Threads, NEW n, NEW top, Becomes(t, n, top), Len(top) \in Nat
  PROVE  \A u \in Threads : \A k \in DOMAIN stack'[u] :
           \/ /\ k \in DOMAIN stack[u] /\ stack'[u][k] = stack[u][k]
              /\ u = t => k < n
           \/ /\ u = t /\ k - n + 1 \in 1 .. Len(top) /\ k = n - 1 + (k - n + 1)
              /\ stack'[u][k] = top[k - n + 1]
  <1>1. SUFFICES ASSUME NEW u \in Threads, NEW k \in DOMAIN stack'[u]
                 PROVE  \/ /\ k \in DOMAIN stack[u] /\ stack'[u][k] = stack[u][k]
                           /\ u = t => k < n
                        \/ /\ u = t /\ k - n + 1 \in 1 .. Len(top) /\ k = n - 1 + (k - n + 1)
                           /\ stack'[u][k] = top[k - n + 1]
    OBVIOUS
  <1>2. CASE u # t
    BY <1>2 DEF Becomes
  <1>3. CASE u = t
    <2>1. /\ n \in Nat /\ n > 0 /\ n <= Len(stack[t]) + 1
          /\ k \in 1 .. n - 1 + Len(top) /\ DOMAIN stack[t] = 1 .. Len(stack[t])
          /\ Len(stack[t]) \in Nat
      BY <1>3 DEF Becomes, StackType
    <2>2. CASE k <= n - 1
      BY <1>3, <2>1, <2>2 DEF Becomes
    <2>3. CASE ~(k <= n - 1)
      <3>1. k - n + 1 \in 1 .. Len(top) /\ k = n - 1 + (k - n + 1)
        BY <2>1, <2>3
      <3>2. stack'[t][n - 1 + (k - n + 1)] = top[k - n + 1]
        BY <3>1 DEF Becomes
      <3>. QED
        BY <1>3, <3>1, <3>2
    <2>. QED
      BY <2>2, <2>3
  <1>. QED
    BY <1>2, <1>3

LEMMA Lift ==
  ASSUME StackType, NEW t \in Threads, NEW n, NEW top, Becomes(t, n, top), Len(top) \in Nat,
         FrameInv, Sound \subseteq Sound', \A k \in 1 .. Len(top) : top[k] \in Sound'
  PROVE  FrameInv'
  BY Frames2 DEF FrameInv

LEMMA LiftOne ==
  ASSUME StackType, NEW t \in Threads, FrameInv, Sound \subseteq Sound', NEW f,
         Here(t, <<f>>) \/ Over(t, f), f \in Sound'
  PROVE  FrameInv'
  <1>1. Len(<<f>>) \in Nat /\ \A k \in 1 .. Len(<<f>>) : <<f>>[k] \in Sound'
    OBVIOUS
  <1>. QED
    BY <1>1, Lift DEF Here, Over

LEMMA LiftNone ==
  ASSUME StackType, NEW t \in Threads, FrameInv, Sound \subseteq Sound', Here(t, <<>>)
  PROVE  FrameInv'
  <1>1. Len(<<>>) \in Nat /\ \A k \in 1 .. Len(<<>>) : <<>>[k] \in Sound'
    OBVIOUS
  <1>. QED
    BY <1>1, Lift DEF Here

LEMMA LiftTwo ==
  ASSUME StackType, NEW t \in Threads, FrameInv, Sound \subseteq Sound', NEW f, NEW g,
         Here(t, <<f, g>>), f \in Sound', g \in Sound'
  PROVE  FrameInv'
  <1>1. Len(<<f, g>>) \in Nat /\ \A k \in 1 .. Len(<<f, g>>) : <<f, g>>[k] \in Sound'
    OBVIOUS
  <1>. QED
    BY <1>1, Lift DEF Here

\* The loss, the completed future, the fired callback and the cleared error
\* callback stay so.
Onward ==
  /\ reason # "none" => reason' # "none"
  /\ completed => completed'
  /\ lost_entry' => lost_entry
  /\ installed' => installed
  /\ lost_mode' = lost_mode

LEMMA OnwardSound ==
  ASSUME Onward, RestType
  PROVE  Sound \subseteq Sound'
  BY DEF Onward, RestType, Sound, IsLost, Fires

LEMMA StepOnward ==
  ASSUME RestType, [Next]_vars
  PROVE  Onward
  <1>1. ASSUME NEW t \in Threads, Step(t) PROVE Onward
    <2>1. CASE \/ PopErrorScope(t) \/ PopScope(t) \/ DispatchError(t) \/ RouteError(t)
               \/ EnterErrorCallback(t) \/ LeaveErrorCallback(t) \/ ErrorDone(t)
               \/ WaitIdle(t) \/ TakeLost(t)
      BY <2>1 DEF Onward, PopErrorScope, PopScope, DispatchError, RouteError,
        EnterErrorCallback, LeaveErrorCallback, ErrorDone, WaitIdle, TakeLost
    <2>2. CASE MarkLost(t) \/ ReadFuture(t)
      BY <2>2 DEF Onward, MarkLost, ReadFuture
    <2>5. CASE CompleteDeviceLost(t)
      <3>1. completed' = TRUE /\ (lost_entry' => lost_entry)
            /\ UNCHANGED <<reason, installed, lost_mode>>
        BY <2>5 DEF CompleteDeviceLost
      <3>. QED
        BY <3>1 DEF Onward
    <2>3. CASE \/ FireLost(t) \/ FireWaited(t) \/ LeaveLostCallback(t)
               \/ ClearErrorCallback(t) \/ ClearWaited(t)
      BY <2>3 DEF Onward, FireLost, FireWaited, LeaveLostCallback, ClearErrorCallback, ClearWaited
    <2>4. CASE \/ GetLostFuture(t) \/ GotLostFuture(t) \/ SubmitTest(t)
               \/ TakeSubmission(t) \/ SubmitDone(t) \/ ObserveLoss(t)
      BY <2>4 DEF Onward, GetLostFuture, GotLostFuture, SubmitTest, TakeSubmission,
        SubmitDone, ObserveLoss
    <2>. QED
      BY <1>1, <2>1, <2>2, <2>3, <2>4, <2>5 DEF Step
  <1>2. ASSUME NEW t \in Threads, ProcessEvents(t) PROVE Onward
    BY <1>2 DEF Onward, ProcessEvents
  <1>4. ASSUME NEW t \in Threads, Begin(t) \/ Release(t) PROVE Onward
    BY <1>4 DEF Onward, Begin, Release
  <1>5. ASSUME NEW t \in Threads, NEW filter \in Kinds, PushErrorScope(t, filter) PROVE Onward
    BY <1>5 DEF Onward, PushErrorScope
  <1>6. ASSUME NEW t \in Threads, NEW u \in Threads, AddRef(t, u) PROVE Onward
    BY <1>6 DEF Onward, AddRef
  <1>3. CASE UNCHANGED vars
    BY <1>3 DEF Onward, vars
  <1>. QED
    BY <1>1, <1>2, <1>3, <1>4, <1>5, <1>6 DEF Next, Quiet

-----------------------------------------------------------------------------
(* Every step keeps FrameInv                                               *)

\* The frame a step starts from.
LEMMA TopSound ==
  ASSUME StackType, FrameInv, NEW t \in Threads, stack[t] # <<>>
  PROVE  Top(t) \in Sound /\ Top(t) \in Frames /\ Top(t).arg \in Args
  BY TopFacts DEF FrameInv

\* A frame of most labels says nothing.
Silent == {"pop_is_lost", "pop", "enter_cb", "error_cb", "error_done", "wait_idle",
           "lose", "mark_lost", "get_future", "get_is_lost"}
LEMMA SilentSound ==
  ASSUME NEW label \in Silent, NEW arg \in Args
  PROVE  Frame(label, arg) \in Sound'
  <1>1. label \in Labels
    BY DEF Silent, Labels
  <1>2. Frame(label, arg) \in Frames /\ Frame(label, arg).at = label
    BY <1>1, FrameTyped
  <1>. QED
    BY <1>2 DEF Silent, Sound

LEMMA LoudSound ==
  ASSUME NEW arg \in Args
  PROVE  /\ arg \in Kinds =>
              Frame("is_lost", arg) \in Sound' /\ Frame("route", arg) \in Sound'
         /\ arg \in {"none", "internal"} =>
              \A l \in {"submit", "take_submission", "submitting", "observe"} :
                Frame(l, arg) \in Sound'
         /\ IsLost' => Frame("future", arg) \in Sound' /\ Frame("complete", arg) \in Sound'
         /\ completed' /\ ~lost_entry' =>
              /\ Frame("fire", arg) \in Sound' /\ Frame("lost_cb", arg) \in Sound'
              /\ Frame("null_cb", arg) \in Sound'
              /\ ~installed' => Frame("fire_wait", arg) \in Sound'
         /\ completed' /\ ~Fires' =>
              /\ Frame("clear", arg) \in Sound'
              /\ ~installed' => Frame("clear_wait", arg) \in Sound'
  <1>1. \A l \in {"is_lost", "route", "submit", "take_submission", "submitting", "observe",
                  "future", "complete", "fire", "lost_cb", "null_cb", "fire_wait", "clear",
                  "clear_wait"} :
          Frame(l, arg) \in Frames /\ Frame(l, arg).at = l /\ Frame(l, arg).arg = arg
    BY FrameTyped, LabelFacts
  <1>. QED
    BY <1>1 DEF Sound

Moving(t) == StackType /\ RestType /\ FrameInv /\ Sound \subseteq Sound' /\ stack[t] # <<>>

LEMMA PopErrorScopeFrames ==
  ASSUME NEW t \in Threads, Moving(t), PopErrorScope(t)
  PROVE  FrameInv'
  <1>1. \A l \in {"pop"} : Frame(l, Top(t).arg) \in Sound'
    BY TopSound, SilentSound DEF Moving, Silent
  <1>. QED
    BY <1>1, PopErrorScopeShape, LiftOne, LiftNone DEF Moving, To

LEMMA PopScopeFrames ==
  ASSUME NEW t \in Threads, Moving(t), PopScope(t)
  PROVE  FrameInv'
  BY PopScopeShape, LiftNone DEF Moving

LEMMA EnterErrorCallbackFrames ==
  ASSUME NEW t \in Threads, Moving(t), EnterErrorCallback(t)
  PROVE  FrameInv'
  <1>1. \A l \in {"error_cb", "error_done"} : Frame(l, Top(t).arg) \in Sound'
    BY TopSound, SilentSound DEF Moving, Silent
  <1>. QED
    BY <1>1, EnterErrorCallbackShape, LiftOne, LiftNone DEF Moving, To

LEMMA LeaveErrorCallbackFrames ==
  ASSUME NEW t \in Threads, Moving(t), LeaveErrorCallback(t)
  PROVE  FrameInv'
  <1>1. \A l \in {"error_done"} : Frame(l, Top(t).arg) \in Sound'
    BY TopSound, SilentSound DEF Moving, Silent
  <1>. QED
    BY <1>1, LeaveErrorCallbackShape, LiftOne, LiftNone DEF Moving, To

LEMMA ErrorDoneFrames ==
  ASSUME NEW t \in Threads, Moving(t), ErrorDone(t)
  PROVE  FrameInv'
  BY ErrorDoneShape, LiftNone DEF Moving

LEMMA RouteErrorFrames ==
  ASSUME NEW t \in Threads, Moving(t), RouteError(t)
  PROVE  FrameInv'
  <1>1. \A l \in {"enter_cb"} : Frame(l, Top(t).arg) \in Sound'
    BY TopSound, SilentSound DEF Moving, Silent
  <1>. QED
    BY <1>1, RouteErrorShape, LiftOne, LiftNone DEF Moving, To

LEMMA LeaveLostCallbackFrames ==
  ASSUME NEW t \in Threads, Moving(t), LeaveLostCallback(t)
  PROVE  FrameInv'
  BY LeaveLostCallbackShape, LiftNone DEF Moving

LEMMA ClearWaitedFrames ==
  ASSUME NEW t \in Threads, Moving(t), ClearWaited(t)
  PROVE  FrameInv'
  BY ClearWaitedShape, LiftNone DEF Moving

LEMMA GetLostFutureFrames ==
  ASSUME NEW t \in Threads, Moving(t), GetLostFuture(t)
  PROVE  FrameInv'
  <1>1. \A l \in {"get_is_lost"} : Frame(l, Top(t).arg) \in Sound'
    BY TopSound, SilentSound DEF Moving, Silent
  <1>. QED
    BY <1>1, GetLostFutureShape, LiftOne, LiftNone DEF Moving, To

LEMMA GotLostFutureFrames ==
  ASSUME NEW t \in Threads, Moving(t), GotLostFuture(t)
  PROVE  FrameInv'
  BY GotLostFutureShape, LiftNone DEF Moving

LEMMA DispatchErrorFrames ==
  ASSUME NEW t \in Threads, Moving(t), DispatchError(t)
  PROVE  FrameInv'
  <1>1. Top(t).arg \in Kinds
    BY TopSound DEF Moving, DispatchError, At, Sound
  <1>2. Frame("route", Top(t).arg) \in Sound'
    BY <1>1, TopSound, LoudSound, SilentSound DEF Moving, Silent
  <1>. QED
    BY <1>1, <1>2, DispatchErrorShape, LiftOne, LiftNone DEF Moving, To

LEMMA ReadFutureFrames ==
  ASSUME NEW t \in Threads, Moving(t), ReadFuture(t)
  PROVE  FrameInv'
  <1>1. IsLost'
    BY TopSound DEF Moving, ReadFuture, At, Sound, IsLost
  <1>2. Frame("complete", Top(t).arg) \in Sound'
    BY <1>1, TopSound, LoudSound, SilentSound DEF Moving, Silent
  <1>. QED
    BY <1>1, <1>2, ReadFutureShape, LiftOne, LiftNone DEF Moving, To

LEMMA FireWaitedFrames ==
  ASSUME NEW t \in Threads, Moving(t), FireWaited(t)
  PROVE  FrameInv'
  <1>1. completed' /\ ~lost_entry'
    BY TopSound DEF Moving, FireWaited, At, Sound
  <1>2. Frame("lost_cb", Top(t).arg) \in Sound'
    BY <1>1, TopSound, LoudSound, SilentSound DEF Moving, Silent
  <1>. QED
    BY <1>1, <1>2, FireWaitedShape, LiftOne, LiftNone DEF Moving, To

LEMMA ClearErrorCallbackFrames ==
  ASSUME NEW t \in Threads, Moving(t), ClearErrorCallback(t)
  PROVE  FrameInv'
  <1>1. completed' /\ ~Fires' /\ ~installed'
    BY TopSound DEF Moving, ClearErrorCallback, At, Sound, Fires
  <1>2. Frame("clear_wait", Top(t).arg) \in Sound'
    BY <1>1, TopSound, LoudSound, SilentSound DEF Moving, Silent
  <1>. QED
    BY <1>1, <1>2, ClearErrorCallbackShape, LiftOne, LiftNone DEF Moving, To

LEMMA MarkLostFrames ==
  ASSUME NEW t \in Threads, Moving(t), MarkLost(t)
  PROVE  FrameInv'
  <1>1. IsLost'
    BY TopSound DEF Moving, MarkLost, At, Sound, IsLost
  <1>2. Frame("future", Top(t).arg) \in Sound'
    BY <1>1, TopSound, LoudSound, SilentSound DEF Moving, Silent
  <1>. QED
    BY <1>1, <1>2, MarkLostShape, LiftOne, LiftNone DEF Moving, To

LEMMA SubmitTestFrames ==
  ASSUME NEW t \in Threads, Moving(t), SubmitTest(t)
  PROVE  FrameInv'
  <1>1. Top(t).arg \in {"none", "internal"}
    BY TopSound DEF Moving, SubmitTest, At, Sound
  <1>2. Frame("observe", Top(t).arg) \in Sound' /\ Frame("take_submission", Top(t).arg) \in Sound'
    BY <1>1, TopSound, LoudSound, SilentSound DEF Moving, Silent
  <1>. QED
    BY <1>1, <1>2, SubmitTestShape, LiftOne, LiftNone DEF Moving, To

LEMMA TakeSubmissionFrames ==
  ASSUME NEW t \in Threads, Moving(t), TakeSubmission(t)
  PROVE  FrameInv'
  <1>1. Top(t).arg \in {"none", "internal"}
    BY TopSound DEF Moving, TakeSubmission, At, Sound
  <1>2. Frame("observe", Top(t).arg) \in Sound' /\ Frame("submitting", Top(t).arg) \in Sound'
    BY <1>1, TopSound, LoudSound, SilentSound DEF Moving, Silent
  <1>. QED
    BY <1>1, <1>2, TakeSubmissionShape, LiftOne, LiftNone DEF Moving, To

LEMMA TakeLostFrames ==
  ASSUME NEW t \in Threads, Moving(t), TakeLost(t)
  PROVE  FrameInv'
  <1>1. CASE IsLost
    <2>1. IsLost' /\ Goto(t, "future")
      BY <1>1 DEF TakeLost, IsLost
    <2>2. Frame("future", Top(t).arg) \in Sound' /\ To(t, "future")
      BY <2>1, TopSound, LoudSound, GoesTo, LabelFacts DEF Moving
    <2>. QED
      BY <2>2, LiftOne DEF Moving, To
  <1>2. CASE ~IsLost
    <2>1. Goto(t, "mark_lost")
      BY <1>2 DEF TakeLost
    <2>2. Frame("mark_lost", Top(t).arg) \in Sound' /\ To(t, "mark_lost")
      BY <2>1, TopSound, SilentSound, GoesTo, LabelFacts DEF Moving, Silent
    <2>. QED
      BY <2>2, LiftOne DEF Moving, To
  <1>. QED
    BY <1>1, <1>2

LEMMA FireLostFrames ==
  ASSUME NEW t \in Threads, Moving(t), FireLost(t)
  PROVE  FrameInv'
  <1>1. completed' /\ ~lost_entry'
    BY TopSound DEF Moving, FireLost, At, Sound
  <1>2. Frame("null_cb", Top(t).arg) \in Sound'
    BY <1>1, TopSound, LoudSound DEF Moving
  <1>3. CASE Alive
    <2>1. ~installed' /\ Goto(t, "fire_wait")
      BY <1>3 DEF FireLost
    <2>2. Frame("fire_wait", Top(t).arg) \in Sound' /\ To(t, "fire_wait")
      BY <1>1, <2>1, TopSound, LoudSound, GoesTo, LabelFacts DEF Moving
    <2>. QED
      BY <2>2, LiftOne DEF Moving, To
  <1>4. CASE ~Alive
    <2>1. To(t, "null_cb")
      BY <1>4, GoesTo, LabelFacts DEF FireLost, Moving
    <2>. QED
      BY <1>2, <2>1, LiftOne DEF Moving, To
  <1>. QED
    BY <1>3, <1>4

LEMMA WaitIdleFrames ==
  ASSUME NEW t \in Threads, Moving(t), WaitIdle(t)
  PROVE  FrameInv'
  <1>1. Frame("lose", Top(t).arg) \in Sound' /\ Frame("is_lost", "internal") \in Sound'
    BY TopSound, SilentSound, LoudSound, LabelFacts, DeviceAssumption DEF Moving, Silent
  <1>. QED
    BY <1>1, WaitIdleShape, LiftOne, LiftTwo DEF Moving, To

LEMMA CompleteDeviceLostFrames ==
  ASSUME NEW t \in Threads, Moving(t), CompleteDeviceLost(t)
  PROVE  FrameInv'
  <1> DEFINE g == Frame("fire", Top(t).arg)
  <1>1. completed' /\ ~Fires' /\ (Fires => ~lost_entry')
    BY DEF CompleteDeviceLost, Fires
  <1>2. /\ Frame("clear", Top(t).arg) \in Sound'
        /\ Top(t).arg \in Kinds => Frame("is_lost", Top(t).arg) \in Sound'
        /\ Fires => g \in Sound'
    BY <1>1, TopSound, LoudSound DEF Moving
  <1>. HIDE DEF g
  <1>3. CASE Fires
    <2>1. \/ Here(t, <<Frame("clear", Top(t).arg), g>>)
          \/ Here(t, <<Frame("is_lost", Top(t).arg), g>>) /\ Top(t).arg \in Kinds
          \/ Here(t, <<g>>)
      BY <1>3, CompleteDeviceLostShape DEF Moving, g
    <2>. QED
      BY <1>2, <1>3, <2>1, LiftOne, LiftTwo DEF Moving
  <1>4. CASE ~Fires
    <2>1. \/ Here(t, <<Frame("clear", Top(t).arg)>>)
          \/ Here(t, <<Frame("is_lost", Top(t).arg)>>) /\ Top(t).arg \in Kinds
          \/ Here(t, <<>>)
      BY <1>4, CompleteDeviceLostShape DEF Moving
    <2>. QED
      BY <1>2, <1>4, <2>1, LiftOne, LiftNone DEF Moving
  <1>. QED
    BY <1>3, <1>4

LEMMA ObserveLossFrames ==
  ASSUME NEW t \in Threads, Moving(t), ObserveLoss(t)
  PROVE  FrameInv'
  <1>1. Top(t).arg \in {"none", "internal"}
    BY TopSound DEF Moving, ObserveLoss, At, Sound
  <1>2. Top(t).arg # "release"
    BY <1>1
  <1>3. (IsLost => IsLost')
    BY DEF ObserveLoss, IsLost
  <1>4. /\ IsLost => Frame("complete", Top(t).arg) \in Sound'
        /\ Top(t).arg \in Kinds => Frame("is_lost", Top(t).arg) \in Sound'
    BY <1>3, TopSound, LoudSound DEF Moving
  <1>. QED
    BY <1>2, <1>4, ObserveLossShape, LiftOne, LiftNone DEF Moving, To

LEMMA SubmitDoneFrames ==
  ASSUME NEW t \in Threads, Moving(t), SubmitDone(t)
  PROVE  FrameInv'
  <1>1. \A error \in {"none", "internal"} : Frame("observe", error) \in Sound'
    BY LoudSound, LabelFacts
  <1>. QED
    BY <1>1, SubmitDoneShape, LiftOne DEF Moving

LEMMA CallFrames ==
  ASSUME NEW t \in Threads, StackType, RestType, FrameInv, Sound \subseteq Sound',
         Begin(t) \/ Release(t) \/ ProcessEvents(t)
  PROVE  FrameInv'
  <1>1. /\ Frame("pop_is_lost", "none") \in Sound' /\ Frame("wait_idle", "destroy") \in Sound'
        /\ Frame("wait_idle", "release") \in Sound' /\ Frame("get_future", "none") \in Sound'
    BY SilentSound, LabelFacts DEF Silent
  <1>2. /\ Frame("submit", "none") \in Sound'
        /\ \A kind \in Kinds : Frame("is_lost", kind) \in Sound'
    BY LoudSound, LabelFacts DEF Args
  <1>3. CASE Begin(t)
    BY <1>1, <1>2, <1>3, BeginShape, LiftOne
  <1>4. CASE Release(t)
    BY <1>1, <1>4, ReleaseShape, LiftOne DEF FrameInv
  <1>5. CASE ProcessEvents(t)
    <2>1. completed' /\ ~lost_entry'
      BY <1>5 DEF ProcessEvents
    <2>2. Frame("fire", "process") \in Sound'
      BY <2>1, LoudSound, LabelFacts
    <2>. QED
      BY <1>5, <2>2, ProcessEventsShape, LiftOne
  <1>. QED
    BY <1>3, <1>4, <1>5

LEMMA SameFrames ==
  ASSUME FrameInv, Sound \subseteq Sound', stack' = stack
  PROVE  FrameInv'
  BY DEF FrameInv

LEMMA StepMoves ==
  ASSUME NEW t \in Threads, Step(t)
  PROVE  stack[t] # <<>>
  <1>1. CASE \/ PopErrorScope(t) \/ PopScope(t) \/ DispatchError(t) \/ RouteError(t)
             \/ EnterErrorCallback(t) \/ LeaveErrorCallback(t) \/ ErrorDone(t)
             \/ WaitIdle(t) \/ TakeLost(t) \/ MarkLost(t) \/ ReadFuture(t)
    BY <1>1 DEF PopErrorScope, PopScope, DispatchError, RouteError, EnterErrorCallback,
      LeaveErrorCallback, ErrorDone, WaitIdle, TakeLost, MarkLost, ReadFuture, At
  <1>2. CASE \/ CompleteDeviceLost(t) \/ FireLost(t) \/ FireWaited(t) \/ LeaveLostCallback(t)
             \/ ClearErrorCallback(t) \/ ClearWaited(t) \/ GetLostFuture(t)
             \/ GotLostFuture(t) \/ SubmitTest(t) \/ TakeSubmission(t) \/ SubmitDone(t)
             \/ ObserveLoss(t)
    BY <1>2 DEF CompleteDeviceLost, FireLost, FireWaited, LeaveLostCallback,
      ClearErrorCallback, ClearWaited, GetLostFuture, GotLostFuture, SubmitTest,
      TakeSubmission, SubmitDone, ObserveLoss, At
  <1>. QED
    BY <1>1, <1>2 DEF Step

LEMMA FrameStep ==
  ASSUME StackType, RestType, FrameInv, [Next]_vars
  PROVE  FrameInv'
  <1>1. Sound \subseteq Sound'
    BY StepOnward, OnwardSound
  <1>2. ASSUME NEW t \in Threads, Step(t) PROVE FrameInv'
    <2>1. Moving(t)
      BY <1>1, <1>2, StepMoves DEF Moving
    <2>. QED
      BY <1>2, <2>1, PopErrorScopeFrames, PopScopeFrames, DispatchErrorFrames,
        RouteErrorFrames, EnterErrorCallbackFrames, LeaveErrorCallbackFrames,
        ErrorDoneFrames, WaitIdleFrames, TakeLostFrames, MarkLostFrames,
        ReadFutureFrames, CompleteDeviceLostFrames, FireLostFrames, FireWaitedFrames,
        LeaveLostCallbackFrames, ClearErrorCallbackFrames, ClearWaitedFrames,
        GetLostFutureFrames, GotLostFutureFrames, SubmitTestFrames,
        TakeSubmissionFrames, SubmitDoneFrames, ObserveLossFrames DEF Step
  <1>3. ASSUME NEW t \in Threads, Begin(t) \/ Release(t) \/ ProcessEvents(t) PROVE FrameInv'
    BY <1>1, <1>3, CallFrames
  <1>4. ASSUME NEW t \in Threads, NEW filter \in Kinds, PushErrorScope(t, filter)
        PROVE  FrameInv'
    BY <1>1, <1>4, SameFrames DEF PushErrorScope
  <1>5. ASSUME NEW t \in Threads, NEW u \in Threads, AddRef(t, u) PROVE FrameInv'
    BY <1>1, <1>5, SameFrames DEF AddRef
  <1>6. CASE UNCHANGED vars
    BY <1>1, <1>6, SameFrames DEF vars
  <1>. QED
    BY <1>2, <1>3, <1>4, <1>5, <1>6 DEF Next, Quiet

-----------------------------------------------------------------------------
(* The loss is settled                                                     *)

\* The device-lost callback is in the map, or in one call that fires it, or fired.
Firing(u, k) == k \in DOMAIN stack[u] /\ stack[u][k].at \in {"fire", "fire_wait"}
FireInv ==
  /\ fired \in {0, 1} /\ (lost_entry => fired = 0)
  /\ \A u \in Threads : \A k \in DOMAIN stack[u] : Firing(u, k) => fired = 0
  /\ \A u, v \in Threads : \A k \in DOMAIN stack[u], l \in DOMAIN stack[v] :
       Firing(u, k) /\ Firing(v, l) => u = v /\ k = l
SettledInv ==
  /\ completed => IsLost
  /\ ended => completed /\ ~Fires

\* A step that begins no firing: what fires afterwards did before.
Fewer == \A u \in Threads : \A k \in DOMAIN stack'[u] :
           Firing(u, k)' => k \in DOMAIN stack[u] /\ Firing(u, k)

LEMMA FewerKeeps ==
  ASSUME FireInv, Fewer, fired' = fired, lost_entry' => lost_entry
  PROVE  FireInv'
  BY DEF FireInv, Fewer

Calm(f) == f.at \notin {"fire", "fire_wait"}

LEMMA FewerOne ==
  ASSUME StackType, NEW t \in Threads, NEW f, Calm(f), Here(t, <<f>>) \/ Over(t, f)
  PROVE  Fewer
  <1>1. Len(<<f>>) \in Nat /\ \A k \in 1 .. Len(<<f>>) : <<f>>[k] = f
    OBVIOUS
  <1>2. PICK n : Becomes(t, n, <<f>>)
    BY DEF Here, Over
  <1>. QED
    BY <1>1, <1>2, Frames2 DEF Fewer, Firing, Calm

LEMMA FewerNone ==
  ASSUME StackType, NEW t \in Threads, Here(t, <<>>)
  PROVE  Fewer
  <1>1. Len(<<>>) \in Nat /\ 1 .. Len(<<>>) = {}
    OBVIOUS
  <1>2. Len(stack[t]) \in Nat
    BY DEF StackType
  <1>3. Becomes(t, Len(stack[t]), <<>>)
    BY DEF Here
  <1>4. \A u \in Threads : \A k \in DOMAIN stack'[u] :
          /\ k \in DOMAIN stack[u] /\ stack'[u][k] = stack[u][k]
          /\ u = t => k < Len(stack[t])
    BY <1>1, <1>3, Frames2
  <1>. QED
    BY <1>4 DEF Fewer, Firing

LEMMA FewerTwo ==
  ASSUME StackType, NEW t \in Threads, NEW f, NEW g, Calm(f), Calm(g), Here(t, <<f, g>>)
  PROVE  Fewer
  <1>1. PICK top : /\ Becomes(t, Len(stack[t]), top) /\ Len(top) \in Nat
                   /\ \A k \in 1 .. Len(top) : top[k] \in {f, g}
    <2>1. Len(<<f, g>>) \in Nat /\ \A k \in 1 .. Len(<<f, g>>) : <<f, g>>[k] \in {f, g}
      OBVIOUS
    <2>. QED
      BY <2>1 DEF Here
  <1>2. \A k \in 1 .. Len(top) : Calm(top[k])
    BY <1>1
  <1>. QED
    BY <1>1, <1>2, Frames2 DEF Fewer, Firing, Calm

\* A step that begins one: where it fires, and that no other does.
LEMMA OneFiring ==
  ASSUME FireInv, fired = 0, fired' = 0, ~lost_entry',
         NEW t \in Threads, NEW n,
         \A u \in Threads : \A k \in DOMAIN stack'[u] : Firing(u, k)' => u = t /\ k = n
  PROVE  FireInv'
  BY DEF FireInv

LEMMA FrameLabels ==
  \A l, a : Frame(l, a).at = l
  BY DEF Frame

\* Where the only call that fires moves on, no other begins.
LEMMA OneNew ==
  ASSUME StackType, NEW t \in Threads, NEW n \in Nat, NEW top,
         Becomes(t, n, top), Len(top) = 1,
         \A u \in Threads : \A k \in DOMAIN stack[u] : Firing(u, k) => u = t /\ k = n
  PROVE  \A u \in Threads : \A k \in DOMAIN stack'[u] : Firing(u, k)' => u = t /\ k = n
  <1>1. ASSUME NEW u \in Threads, NEW k \in DOMAIN stack'[u],
               stack'[u][k].at \in {"fire", "fire_wait"}
        PROVE  u = t /\ k = n
    <2>1. CASE /\ k \in DOMAIN stack[u] /\ stack'[u][k] = stack[u][k]
               /\ u = t => k < n
      BY <1>1, <2>1 DEF Firing
    <2>2. CASE u = t /\ k - n + 1 \in 1 .. Len(top) /\ k = n - 1 + (k - n + 1)
      <3>1. k - n + 1 = 1
        BY <2>2
      <3>. QED
        BY <2>2, <3>1
    <2>. QED
      BY <2>1, <2>2, Frames2
  <1>. QED
    BY <1>1 DEF Firing

LEMMA FireMoves ==
  ASSUME NEW t \in Threads, Moving(t), FireInv,
         FireLost(t) \/ FireWaited(t)
  PROVE  FireInv'
  <1> DEFINE n == Len(stack[t])
  <1>1. /\ n \in DOMAIN stack[t] /\ Firing(t, n) /\ n \in Nat
        /\ ~lost_entry /\ fired = 0
    <2>1. n \in DOMAIN stack[t] /\ n \in Nat /\ Top(t) = stack[t][n]
      BY TopFacts DEF Moving
    <2>2. Firing(t, n)
      BY <2>1 DEF FireLost, FireWaited, At, Firing
    <2>3. ~lost_entry
      BY <2>1, <2>2, TopSound DEF Moving, Sound, Firing
    <2>. QED
      BY <2>1, <2>2, <2>3 DEF FireInv
  <1>2. ~lost_entry'
    BY <1>1 DEF FireLost, FireWaited
  <1>3. \A u \in Threads : \A k \in DOMAIN stack[u] : Firing(u, k) => u = t /\ k = n
    BY <1>1 DEF FireInv
  <1>4. CASE To(t, "fire_wait") /\ fired' = fired
    <2>1. PICK top : Len(top) = 1 /\ Becomes(t, n, top)
      <3>1. Len(<<Frame("fire_wait", Top(t).arg)>>) = 1
        OBVIOUS
      <3>. QED
        BY <1>4, <3>1 DEF To, Here
    <2>2. \A u \in Threads : \A k \in DOMAIN stack'[u] : Firing(u, k)' => u = t /\ k = n
      BY <1>1, <1>3, <2>1, OneNew DEF Moving
    <2>. QED
      BY <1>1, <1>2, <1>4, <2>2, OneFiring
  <1>5. ASSUME NEW l \in {"lost_cb", "null_cb"}, To(t, l), fired' = fired + 1
        PROVE  FireInv'
    <2>1. PICK top : Len(top) = 1 /\ Becomes(t, n, top) /\ top[1].at = l
      <3>1. /\ Len(<<Frame(l, Top(t).arg)>>) = 1
            /\ <<Frame(l, Top(t).arg)>>[1] = Frame(l, Top(t).arg)
        OBVIOUS
      <3>. QED
        BY <1>5, <3>1, FrameLabels DEF To, Here
    <2>2. \A u \in Threads : \A k \in DOMAIN stack'[u] : Firing(u, k)' => u = t /\ k = n
      BY <1>1, <1>3, <2>1, OneNew DEF Moving
    <2>3. ~(stack'[t][n].at \in {"fire", "fire_wait"})
      BY <1>1, <2>1 DEF Becomes
    <2>4. \A u \in Threads : \A k \in DOMAIN stack'[u] : ~Firing(u, k)'
      BY <2>2, <2>3 DEF Firing
    <2>. QED
      BY <1>1, <1>2, <1>5, <2>4 DEF FireInv
  <1>6. \/ To(t, "fire_wait") /\ fired' = fired
        \/ (To(t, "lost_cb") \/ To(t, "null_cb")) /\ fired' = fired + 1
    <2>1. CASE FireLost(t) /\ Alive
      BY <2>1, GoesTo, LabelFacts DEF FireLost, Moving
    <2>2. CASE FireLost(t) /\ ~Alive
      BY <2>2, GoesTo, LabelFacts DEF FireLost, Moving
    <2>3. CASE FireWaited(t)
      BY <2>3, FireWaitedShape DEF FireWaited, Moving
    <2>. QED
      BY <2>1, <2>2, <2>3
  <1>. QED
    BY <1>4, <1>5, <1>6

\* The callback is taken out of the map by the call that fires it.
LEMMA FireTaken ==
  ASSUME StackType, FrameInv, FireInv, NEW t \in Threads, NEW n, NEW top, NEW a,
         Becomes(t, n, top), Len(top) \in Nat \ {0}, lost_entry, ~lost_entry', fired' = fired,
         \A k \in 1 .. Len(top) : k # Len(top) => Calm(top[k])
  PROVE  FireInv'
  <1>1. \A u \in Threads : \A k \in DOMAIN stack[u] : ~Firing(u, k)
    BY DEF FrameInv, Sound, Firing
  <1>2. fired = 0
    BY DEF FireInv
  <1>3. ASSUME NEW u \in Threads, NEW k \in DOMAIN stack'[u], Firing(u, k)'
        PROVE  u = t /\ k = n - 1 + Len(top)
    <2>1. ~(k \in DOMAIN stack[u] /\ stack'[u][k] = stack[u][k])
      BY <1>1, <1>3 DEF Firing
    <2>2. /\ u = t /\ k - n + 1 \in 1 .. Len(top) /\ k = n - 1 + (k - n + 1)
          /\ stack'[u][k] = top[k - n + 1]
      BY <2>1, Frames2
    <2>3. k - n + 1 = Len(top)
      BY <1>3, <2>2 DEF Firing, Calm
    <2>. QED
      BY <2>2, <2>3
  <1>. QED
    BY <1>2, <1>3, OneFiring

LEMMA FireComplete ==
  ASSUME NEW t \in Threads, Moving(t), FireInv, CompleteDeviceLost(t)
  PROVE  FireInv'
  <1> DEFINE g == Frame("fire", Top(t).arg)
             c == Frame("clear", Top(t).arg)
             i == Frame("is_lost", Top(t).arg)
  <1>1. fired' = fired /\ (lost_entry' <=> lost_entry /\ ~Fires) /\ (Fires => lost_entry)
    BY DEF CompleteDeviceLost, Fires, Moving, RestType
  <1>2. Calm(c) /\ Calm(i)
    BY FrameLabels DEF Calm
  <1>3. Fires => Here(t, <<c, g>>) \/ Here(t, <<i, g>>) \/ Here(t, <<g>>)
    BY CompleteDeviceLostShape DEF Moving
  <1>4. ~Fires => Here(t, <<c>>) \/ Here(t, <<i>>) \/ Here(t, <<>>)
    BY CompleteDeviceLostShape DEF Moving
  <1>. HIDE DEF g, c, i
  <1>5. CASE Fires
    <2>1. ASSUME NEW f, Calm(f), Here(t, <<f, g>>) PROVE FireInv'
      <3>1. Len(<<f, g>>) \in Nat \ {0} /\ \A k \in 1 .. Len(<<f, g>>) : k # Len(<<f, g>>) => <<f, g>>[k] = f
        OBVIOUS
      <3>. QED
        BY <1>1, <1>5, <2>1, <3>1, FireTaken DEF Moving, Here
    <2>2. ASSUME Here(t, <<g>>) PROVE FireInv'
      <3>1. Len(<<g>>) \in Nat \ {0} /\ \A k \in 1 .. Len(<<g>>) : ~(k # Len(<<g>>))
        OBVIOUS
      <3>. QED
        BY <1>1, <1>5, <2>2, <3>1, FireTaken DEF Moving, Here
    <2>. QED
      BY <1>2, <1>3, <1>5, <2>1, <2>2
  <1>6. CASE ~Fires
    <2>1. Fewer
      BY <1>2, <1>4, <1>6, FewerOne, FewerNone DEF Moving
    <2>. QED
      BY <1>1, <2>1, FewerKeeps
  <1>. QED
    BY <1>5, <1>6

LEMMA FireProcess ==
  ASSUME NEW t \in Threads, StackType, FrameInv, FireInv, ProcessEvents(t)
  PROVE  FireInv'
  <1> DEFINE g == Frame("fire", "process")
  <1>1. Over(t, g)
    BY ProcessEventsShape
  <1>. HIDE DEF g
  <1>2. Len(<<g>>) \in Nat \ {0} /\ \A k \in 1 .. Len(<<g>>) : ~(k # Len(<<g>>))
    OBVIOUS
  <1>3. lost_entry /\ ~lost_entry' /\ fired' = fired
    BY DEF ProcessEvents
  <1>. QED
    BY <1>1, <1>2, <1>3, FireTaken DEF Over

LEMMA FireQuiet1 ==
  ASSUME NEW t \in Threads, Moving(t),
         PopErrorScope(t) \/ PopScope(t) \/ DispatchError(t) \/ RouteError(t)
           \/ EnterErrorCallback(t) \/ LeaveErrorCallback(t) \/ ErrorDone(t)
  PROVE  Fewer
  <1>1. \A l, a : l \notin {"fire", "fire_wait"} => Calm(Frame(l, a))
    BY FrameLabels DEF Calm
  <1>2. CASE PopErrorScope(t)
    BY <1>1, <1>2, PopErrorScopeShape, FewerOne, FewerNone DEF Moving, To
  <1>3. CASE PopScope(t)
    BY <1>1, <1>3, PopScopeShape, FewerOne, FewerNone DEF Moving, To
  <1>4. CASE DispatchError(t)
    BY <1>1, <1>4, DispatchErrorShape, FewerOne, FewerNone DEF Moving, To
  <1>5. CASE RouteError(t)
    BY <1>1, <1>5, RouteErrorShape, FewerOne, FewerNone DEF Moving, To
  <1>6. CASE EnterErrorCallback(t)
    BY <1>1, <1>6, EnterErrorCallbackShape, FewerOne, FewerNone DEF Moving, To
  <1>7. CASE LeaveErrorCallback(t)
    BY <1>1, <1>7, LeaveErrorCallbackShape, FewerOne, FewerNone DEF Moving, To
  <1>8. CASE ErrorDone(t)
    BY <1>1, <1>8, ErrorDoneShape, FewerOne, FewerNone DEF Moving, To
  <1>. QED
    BY <1>2, <1>3, <1>4, <1>5, <1>6, <1>7, <1>8

LEMMA FireQuiet2 ==
  ASSUME NEW t \in Threads, Moving(t),
         TakeLost(t) \/ MarkLost(t) \/ ReadFuture(t) \/ LeaveLostCallback(t)
           \/ ClearErrorCallback(t) \/ ClearWaited(t)
  PROVE  Fewer
  <1>1. \A l, a : l \notin {"fire", "fire_wait"} => Calm(Frame(l, a))
    BY FrameLabels DEF Calm
  <1>2. CASE TakeLost(t)
    BY <1>1, <1>2, TakeLostShape, FewerOne, FewerNone DEF Moving, To
  <1>3. CASE MarkLost(t)
    BY <1>1, <1>3, MarkLostShape, FewerOne, FewerNone DEF Moving, To
  <1>4. CASE ReadFuture(t)
    BY <1>1, <1>4, ReadFutureShape, FewerOne, FewerNone DEF Moving, To
  <1>5. CASE LeaveLostCallback(t)
    BY <1>1, <1>5, LeaveLostCallbackShape, FewerOne, FewerNone DEF Moving, To
  <1>6. CASE ClearErrorCallback(t)
    BY <1>1, <1>6, ClearErrorCallbackShape, FewerOne, FewerNone DEF Moving, To
  <1>7. CASE ClearWaited(t)
    BY <1>1, <1>7, ClearWaitedShape, FewerOne, FewerNone DEF Moving, To
  <1>. QED
    BY <1>2, <1>3, <1>4, <1>5, <1>6, <1>7

LEMMA FireQuiet3 ==
  ASSUME NEW t \in Threads, Moving(t),
         GetLostFuture(t) \/ GotLostFuture(t) \/ SubmitTest(t) \/ TakeSubmission(t)
  PROVE  Fewer
  <1>1. \A l, a : l \notin {"fire", "fire_wait"} => Calm(Frame(l, a))
    BY FrameLabels DEF Calm
  <1>2. CASE GetLostFuture(t)
    BY <1>1, <1>2, GetLostFutureShape, FewerOne, FewerNone DEF Moving, To
  <1>3. CASE GotLostFuture(t)
    BY <1>1, <1>3, GotLostFutureShape, FewerOne, FewerNone DEF Moving, To
  <1>4. CASE SubmitTest(t)
    BY <1>1, <1>4, SubmitTestShape, FewerOne, FewerNone DEF Moving, To
  <1>5. CASE TakeSubmission(t)
    BY <1>1, <1>5, TakeSubmissionShape, FewerOne, FewerNone DEF Moving, To
  <1>. QED
    BY <1>2, <1>3, <1>4, <1>5

LEMMA FireQuiet4 ==
  ASSUME NEW t \in Threads, Moving(t), WaitIdle(t) \/ SubmitDone(t) \/ ObserveLoss(t)
  PROVE  Fewer
  <1>1. \A l, a : l \notin {"fire", "fire_wait"} => Calm(Frame(l, a))
    BY FrameLabels DEF Calm
  <1>2. CASE WaitIdle(t)
    <2>1. Calm(Frame("lose", Top(t).arg)) /\ Calm(Frame("is_lost", "internal"))
      BY <1>1
    <2>. QED
      BY <1>2, <2>1, WaitIdleShape, FewerOne, FewerTwo DEF Moving, To
  <1>3. CASE SubmitDone(t)
    BY <1>1, <1>3, SubmitDoneShape, FewerOne DEF Moving
  <1>4. CASE ObserveLoss(t)
    BY <1>1, <1>4, ObserveLossShape, FewerOne, FewerNone DEF Moving, To
  <1>. QED
    BY <1>2, <1>3, <1>4

LEMMA FireBegin ==
  ASSUME NEW t \in Threads, StackType, Begin(t) \/ Release(t)
  PROVE  Fewer
  <1>1. \A l, a : l \notin {"fire", "fire_wait"} => Calm(Frame(l, a))
    BY FrameLabels DEF Calm
  <1>2. CASE Begin(t)
    BY <1>1, <1>2, BeginShape, FewerOne
  <1>3. CASE Release(t)
    <2>1. stack' = stack => Fewer
      BY DEF Fewer, Firing
    <2>. QED
      BY <1>1, <1>3, <2>1, ReleaseShape, FewerOne
  <1>. QED
    BY <1>2, <1>3

LEMMA FireStep ==
  ASSUME StackType, RestType, FrameInv, FireInv, [Next]_vars
  PROVE  FireInv'
  <1>1. Sound \subseteq Sound'
    BY StepOnward, OnwardSound
  <1>2. ASSUME NEW t \in Threads, Step(t) PROVE FireInv'
    <2>1. Moving(t)
      BY <1>1, <1>2, StepMoves DEF Moving
    <2>2. CASE \/ PopErrorScope(t) \/ PopScope(t) \/ DispatchError(t) \/ RouteError(t)
               \/ EnterErrorCallback(t) \/ LeaveErrorCallback(t) \/ ErrorDone(t)
      <3>1. fired' = fired /\ lost_entry' = lost_entry
        BY <2>2 DEF PopErrorScope, PopScope, DispatchError, RouteError,
          EnterErrorCallback, LeaveErrorCallback, ErrorDone
      <3>. QED
        BY <2>1, <2>2, <3>1, FireQuiet1, FewerKeeps
    <2>3. CASE \/ TakeLost(t) \/ MarkLost(t) \/ ReadFuture(t) \/ LeaveLostCallback(t)
               \/ ClearErrorCallback(t) \/ ClearWaited(t)
      <3>1. fired' = fired /\ lost_entry' = lost_entry
        BY <2>3 DEF TakeLost, MarkLost, ReadFuture, LeaveLostCallback,
          ClearErrorCallback, ClearWaited
      <3>. QED
        BY <2>1, <2>3, <3>1, FireQuiet2, FewerKeeps
    <2>4. CASE GetLostFuture(t) \/ GotLostFuture(t) \/ SubmitTest(t) \/ TakeSubmission(t)
      <3>1. fired' = fired /\ lost_entry' = lost_entry
        BY <2>4 DEF GetLostFuture, GotLostFuture, SubmitTest, TakeSubmission
      <3>. QED
        BY <2>1, <2>4, <3>1, FireQuiet3, FewerKeeps
    <2>5. CASE WaitIdle(t) \/ SubmitDone(t) \/ ObserveLoss(t)
      <3>1. fired' = fired /\ lost_entry' = lost_entry
        BY <2>5 DEF WaitIdle, SubmitDone, ObserveLoss
      <3>. QED
        BY <2>1, <2>5, <3>1, FireQuiet4, FewerKeeps
    <2>. QED
      BY <1>2, <2>1, <2>2, <2>3, <2>4, <2>5, FireMoves, FireComplete DEF Step
  <1>3. ASSUME NEW t \in Threads, Begin(t) \/ Release(t) PROVE FireInv'
    <2>1. fired' = fired /\ lost_entry' = lost_entry
      BY <1>3 DEF Begin, Release
    <2>. QED
      BY <1>3, <2>1, FireBegin, FewerKeeps
  <1>4. stack' = stack => Fewer
    BY DEF Fewer, Firing
  <1>5. ASSUME NEW t \in Threads, NEW filter \in Kinds, PushErrorScope(t, filter)
        PROVE  FireInv'
    <2>1. fired' = fired /\ lost_entry' = lost_entry /\ stack' = stack
      BY <1>5 DEF PushErrorScope
    <2>. QED
      BY <1>4, <2>1, FewerKeeps
  <1>6. ASSUME NEW t \in Threads, NEW u \in Threads, AddRef(t, u) PROVE FireInv'
    <2>1. fired' = fired /\ lost_entry' = lost_entry /\ stack' = stack
      BY <1>6 DEF AddRef
    <2>. QED
      BY <1>4, <2>1, FewerKeeps
  <1>7. CASE UNCHANGED vars
    <2>1. fired' = fired /\ lost_entry' = lost_entry /\ stack' = stack
      BY <1>7 DEF vars
    <2>. QED
      BY <1>4, <2>1, FewerKeeps
  <1>8. ASSUME NEW t \in Threads, ProcessEvents(t) PROVE FireInv'
    BY <1>8, FireProcess
  <1>. QED
    BY <1>2, <1>3, <1>5, <1>6, <1>7, <1>8 DEF Next, Quiet

\* The future is complete and the callback out of the map when a call ends.
LEMMA SettledStep ==
  ASSUME StackType, RestType, FrameInv, SettledInv, [Next]_vars
  PROVE  SettledInv'
  <1>1. Onward
    BY StepOnward
  <1>2. \A t \in Threads : stack[t] # <<>> => Top(t) \in Sound
    BY TopSound
  <1>3. (IsLost => IsLost') /\ (~Fires => ~Fires') /\ (completed => completed')
    BY <1>1 DEF Onward, IsLost, Fires
  <1>4. completed' => completed \/ \E t \in Threads : CompleteDeviceLost(t)
    <2>1. ASSUME NEW t \in Threads, Step(t) PROVE completed' = completed \/ CompleteDeviceLost(t)
      BY <2>1 DEF Step, PopErrorScope, PopScope, DispatchError, RouteError,
        EnterErrorCallback, LeaveErrorCallback, ErrorDone, WaitIdle, TakeLost, MarkLost,
        ReadFuture, FireLost, FireWaited, LeaveLostCallback,
        ClearErrorCallback, ClearWaited, GetLostFuture, GotLostFuture, SubmitTest,
        TakeSubmission, SubmitDone, ObserveLoss
    <2>2. ASSUME NEW t \in Threads, Begin(t) \/ Release(t) \/ ProcessEvents(t)
          PROVE  completed' = completed
      BY <2>2 DEF Begin, Release, ProcessEvents
    <2>3. ASSUME NEW t \in Threads, NEW filter \in Kinds, PushErrorScope(t, filter)
          PROVE  completed' = completed
      BY <2>3 DEF PushErrorScope
    <2>4. ASSUME NEW t \in Threads, NEW u \in Threads, AddRef(t, u) PROVE completed' = completed
      BY <2>4 DEF AddRef
    <2>. QED
      BY <2>1, <2>2, <2>3, <2>4 DEF Next, Quiet, vars
  <1>5. ended' => \/ ended
                  \/ \E t \in Threads : CompleteDeviceLost(t)
                  \/ \E t \in Threads : LeaveLostCallback(t)
                  \/ \E t \in Threads : ClearWaited(t)
    <2>1. ASSUME NEW t \in Threads, Step(t)
          PROVE  ended' = ended \/ CompleteDeviceLost(t) \/ LeaveLostCallback(t) \/ ClearWaited(t)
      BY <2>1 DEF Step, PopErrorScope, PopScope, DispatchError, RouteError,
        EnterErrorCallback, LeaveErrorCallback, ErrorDone, WaitIdle, TakeLost, MarkLost,
        ReadFuture, FireLost, FireWaited,
        ClearErrorCallback, GetLostFuture, GotLostFuture, SubmitTest,
        TakeSubmission, SubmitDone, ObserveLoss
    <2>2. ASSUME NEW t \in Threads, Begin(t) \/ Release(t) \/ ProcessEvents(t)
          PROVE  ended' = ended
      BY <2>2 DEF Begin, Release, ProcessEvents
    <2>3. ASSUME NEW t \in Threads, NEW filter \in Kinds, PushErrorScope(t, filter)
          PROVE  ended' = ended
      BY <2>3 DEF PushErrorScope
    <2>4. ASSUME NEW t \in Threads, NEW u \in Threads, AddRef(t, u) PROVE ended' = ended
      BY <2>4 DEF AddRef
    <2>. QED
      BY <2>1, <2>2, <2>3, <2>4 DEF Next, Quiet, vars
  <1>6. ASSUME NEW t \in Threads, CompleteDeviceLost(t)
        PROVE  IsLost /\ completed' /\ ~Fires'
    <2>1. IsLost
      BY <1>2, <1>6 DEF CompleteDeviceLost, At, Sound
    <2>2. completed' /\ ~Fires'
      BY <1>6 DEF CompleteDeviceLost, Fires
    <2>. QED
      BY <2>1, <2>2
  <1>7. ASSUME NEW t \in Threads, LeaveLostCallback(t)
        PROVE  completed /\ ~Fires
    BY <1>2, <1>7 DEF LeaveLostCallback, At, Sound, Fires
  <1>8. ASSUME NEW t \in Threads, ClearWaited(t)
        PROVE  completed /\ ~Fires
    BY <1>2, <1>8 DEF ClearWaited, At, Sound, Fires
  <1>9. completed' => IsLost'
    BY <1>3, <1>4, <1>6 DEF SettledInv
  <1>10. ended' => completed' /\ ~Fires'
    BY <1>3, <1>5, <1>6, <1>7, <1>8 DEF SettledInv
  <1>. QED
    BY <1>9, <1>10 DEF SettledInv

LEMMA LossFollows ==
  ASSUME StackType, RestType, FireInv, SettledInv
  PROVE  LossSettled
  BY DEF RestType, FireInv, SettledInv, LossSettled, Fires

-----------------------------------------------------------------------------
(* Types are kept                                                          *)

LEMMA StackStep ==
  ASSUME StackType, [Next]_vars
  PROVE  StackType'
  <1>1. ASSUME NEW t \in Threads, Step(t) PROVE StackType'
    <2>1. CASE \/ PopErrorScope(t) \/ PopScope(t) \/ DispatchError(t) \/ RouteError(t)
               \/ EnterErrorCallback(t) \/ LeaveErrorCallback(t) \/ ErrorDone(t)
               \/ WaitIdle(t) \/ TakeLost(t) \/ MarkLost(t) \/ ReadFuture(t)
      BY <2>1, PopErrorScopeShape, PopScopeShape, DispatchErrorShape, RouteErrorShape,
        EnterErrorCallbackShape, LeaveErrorCallbackShape, ErrorDoneShape, WaitIdleShape,
        TakeLostShape, MarkLostShape, ReadFutureShape DEF To, Here
    <2>2. CASE \/ FireLost(t) \/ FireWaited(t) \/ LeaveLostCallback(t)
               \/ ClearErrorCallback(t) \/ ClearWaited(t) \/ GetLostFuture(t)
               \/ GotLostFuture(t) \/ SubmitTest(t) \/ TakeSubmission(t)
      BY <2>2, FireLostShape, FireWaitedShape, LeaveLostCallbackShape,
        ClearErrorCallbackShape, ClearWaitedShape, GetLostFutureShape,
        GotLostFutureShape, SubmitTestShape, TakeSubmissionShape DEF To, Here
    <2>3. CASE SubmitDone(t) \/ ObserveLoss(t) \/ CompleteDeviceLost(t)
      BY <2>3, SubmitDoneShape, ObserveLossShape, CompleteDeviceLostShape DEF To, Here
    <2>. QED
      BY <1>1, <2>1, <2>2, <2>3 DEF Step
  <1>2. ASSUME NEW t \in Threads, Begin(t) \/ Release(t) \/ ProcessEvents(t) PROVE StackType'
    BY <1>2, BeginShape, ReleaseShape, ProcessEventsShape DEF Over, StackType
  <1>3. ASSUME NEW t \in Threads, NEW filter \in Kinds, PushErrorScope(t, filter)
        PROVE  StackType'
    BY <1>3 DEF PushErrorScope, StackType
  <1>4. ASSUME NEW t \in Threads, NEW u \in Threads, AddRef(t, u) PROVE StackType'
    BY <1>4 DEF AddRef, StackType
  <1>5. CASE UNCHANGED vars
    BY <1>5 DEF vars, StackType
  <1>. QED
    BY <1>1, <1>2, <1>3, <1>4, <1>5 DEF Next, Quiet

LEMMA RestStep ==
  ASSUME StackType, RestType, [Next]_vars
  PROVE  RestType'
  <1>1. ASSUME NEW t \in Threads, Step(t) PROVE RestType'
    <2>1. CASE \/ PopErrorScope(t) \/ PopScope(t) \/ DispatchError(t)
               \/ EnterErrorCallback(t) \/ LeaveErrorCallback(t) \/ WaitIdle(t)
               \/ ReadFuture(t) \/ SubmitTest(t) \/ ObserveLoss(t)
      BY <2>1 DEF RestType, PopErrorScope, PopScope, DispatchError, EnterErrorCallback,
        LeaveErrorCallback, WaitIdle, ReadFuture, SubmitTest, ObserveLoss
    <2>2. CASE RouteError(t)
      <3>1. /\ active' \in [Threads -> Int]
            /\ UNCHANGED <<loss_vars, lost_vars, installed, cleared, held, calls>>
        BY <2>2 DEF RouteError, RestType
      <3>. QED
        BY <3>1 DEF RestType
    <2>3. CASE ErrorDone(t)
      BY <2>3 DEF RestType, ErrorDone
    <2>4. CASE TakeLost(t) \/ MarkLost(t)
      BY <2>4 DEF RestType, TakeLost, MarkLost
    <2>5. CASE CompleteDeviceLost(t)
      <3>1. /\ completed' \in BOOLEAN /\ lost_entry' \in BOOLEAN /\ ended' \in BOOLEAN
            /\ UNCHANGED <<loss_vars, future_lock, lost_mode, fired, sink_vars, held, calls>>
        BY <2>5 DEF CompleteDeviceLost, RestType
      <3>. QED
        BY <3>1 DEF RestType
    <2>6. CASE FireLost(t) \/ FireWaited(t)
      <3>1. /\ installed' \in BOOLEAN /\ fired' \in Nat /\ cleared' \subseteq Threads
            /\ UNCHANGED <<loss_vars, future_lock, lost_entry, lost_mode, completed, ended,
                           active, held, calls>>
        <4>1. CASE FireLost(t)
          <5>1. installed' = FALSE \/ installed' = installed
            BY <4>1 DEF FireLost
          <5>2. fired' = fired \/ fired' = fired + 1
            BY <4>1 DEF FireLost
          <5>3. installed' \in BOOLEAN
            BY <5>1 DEF RestType
          <5>4. fired' \in Nat
            BY <5>2 DEF RestType
          <5>. QED
            BY <4>1, <5>3, <5>4 DEF RestType, FireLost
        <4>2. CASE FireWaited(t)
          BY <4>2 DEF RestType, FireWaited
        <4>. QED
          BY <2>6, <4>1, <4>2
      <3>. QED
        BY <3>1 DEF RestType
    <2>7. CASE LeaveLostCallback(t) \/ ClearErrorCallback(t) \/ ClearWaited(t)
      <3>1. /\ ended' \in BOOLEAN /\ installed' \in BOOLEAN /\ cleared' \subseteq Threads
            /\ UNCHANGED <<loss_vars, future_lock, lost_entry, lost_mode, completed, fired,
                           active, held, calls>>
        BY <2>7 DEF RestType, LeaveLostCallback, ClearErrorCallback, ClearWaited
      <3>. QED
        BY <3>1 DEF RestType
    <2>8. CASE GetLostFuture(t) \/ GotLostFuture(t)
      BY <2>8 DEF RestType, GetLostFuture, GotLostFuture
    <2>9. CASE TakeSubmission(t) \/ SubmitDone(t)
      BY <2>9 DEF RestType, TakeSubmission, SubmitDone
    <2>. QED
      BY <1>1, <2>1, <2>2, <2>3, <2>4, <2>5, <2>6, <2>7, <2>8, <2>9 DEF Step
  <1>2. ASSUME NEW t \in Threads, Begin(t) PROVE RestType'
    <2>1. calls' = calls + 1 /\ UNCHANGED <<loss_vars, lost_vars, sink_vars, held>>
      BY <1>2 DEF Begin, Enter
    <2>. QED
      BY <2>1 DEF RestType
  <1>3. ASSUME NEW t \in Threads, Release(t) PROVE RestType'
    <2>1. /\ held[t] > 0 /\ held' = [held EXCEPT ![t] = @ - 1] /\ calls' = calls + 1
          /\ UNCHANGED <<loss_vars, lost_vars, sink_vars>>
      BY <1>3 DEF Release
    <2>2. held' \in [Threads -> Nat]
      BY <2>1 DEF RestType
    <2>. QED
      BY <2>1, <2>2 DEF RestType
  <1>4. ASSUME NEW t \in Threads, ProcessEvents(t) PROVE RestType'
    <2>1. /\ lost_entry' = FALSE /\ calls' = calls + 1
          /\ UNCHANGED <<loss_vars, future_lock, lost_mode, completed, fired, ended,
                         sink_vars, held>>
      BY <1>4 DEF ProcessEvents, Enter
    <2>2. lost_entry' \in BOOLEAN
      BY <2>1
    <2>3. calls' \in Nat
      BY <2>1 DEF RestType
    <2>. QED
      BY <2>1, <2>2, <2>3 DEF RestType
  <1>5. ASSUME NEW t \in Threads, NEW filter \in Kinds, PushErrorScope(t, filter)
        PROVE  RestType'
    BY <1>5 DEF PushErrorScope, RestType
  <1>6. ASSUME NEW t \in Threads, NEW u \in Threads, AddRef(t, u) PROVE RestType'
    BY <1>6 DEF AddRef, RestType
  <1>7. CASE UNCHANGED vars
    BY <1>7 DEF vars, RestType
  <1>. QED
    BY <1>1, <1>2, <1>3, <1>4, <1>5, <1>6, <1>7 DEF Next, Quiet

-----------------------------------------------------------------------------
(* The error callback                                                      *)

\* The callers that are counted as active.
CbLabels == {"enter_cb", "error_cb", "error_done"}
InCb(u)  == {k \in DOMAIN stack[u] : stack[u][k].at \in CbLabels}
ActiveInv == \A u \in Threads : active[u] = Cardinality(InCb(u))
\* Who has cleared the callback has seen that no other thread was in it.
SilenceInv ==
  cleared # {} => ~installed /\ \A u \in Threads \ cleared : active[u] = 0

SameCb == \A u \in Threads : InCb(u)' = InCb(u)

LEMMA CbFinite ==
  ASSUME StackType, NEW u \in Threads
  PROVE  IsFiniteSet(InCb(u)) /\ Cardinality(InCb(u)) \in Nat
  <1>1. DOMAIN stack[u] = 1 .. Len(stack[u]) /\ Len(stack[u]) \in Nat
    BY DEF StackType
  <1>2. IsFiniteSet(1 .. Len(stack[u]))
    BY <1>1, FS_Interval
  <1>3. IsFiniteSet(InCb(u))
    BY <1>1, <1>2, FS_Subset DEF InCb
  <1>. QED
    BY <1>3, FS_CardinalityType

\* A step on frames outside the callback.
LEMMA CbKeeps ==
  ASSUME StackType, NEW t \in Threads, NEW n, NEW top, Becomes(t, n, top), Len(top) \in Nat,
         \A k \in 1 .. Len(top) : top[k].at \notin CbLabels,
         \A k \in InCb(t) : k < n
  PROVE  SameCb
  <1>1. ASSUME NEW u \in Threads, NEW k \in InCb(u)' PROVE k \in InCb(u)
    BY <1>1, Frames2 DEF InCb
  <1>2. ASSUME NEW u \in Threads, NEW k \in InCb(u) PROVE k \in InCb(u)'
    <2>1. CASE u # t
      BY <1>2, <2>1 DEF InCb, Becomes
    <2>2. CASE u = t
      <3>1. /\ k < n /\ n \in Nat /\ DOMAIN stack[t] = 1 .. Len(stack[t])
            /\ Len(stack[t]) \in Nat /\ k \in DOMAIN stack[t] /\ stack[t][k].at \in CbLabels
        BY <2>2 DEF InCb, Becomes, StackType
      <3>2. k \in 1 .. n - 1 /\ k \in 1 .. n - 1 + Len(top)
        BY <3>1
      <3>3. k \in DOMAIN stack'[t] /\ stack'[t][k] = stack[t][k]
        BY <3>2 DEF Becomes
      <3>. QED
        BY <2>2, <3>1, <3>3 DEF InCb
    <2>. QED
      BY <2>1, <2>2
  <1>. QED
    BY <1>1, <1>2 DEF SameCb

LEMMA CbBelow ==
  ASSUME StackType, NEW t \in Threads
  PROVE  /\ \A k \in InCb(t) : k < Len(stack[t]) + 1
         /\ stack[t] # <<>> /\ Top(t).at \notin CbLabels =>
              \A k \in InCb(t) : k < Len(stack[t])
  <1>1. DOMAIN stack[t] = 1 .. Len(stack[t]) /\ Len(stack[t]) \in Nat
    BY DEF StackType
  <1>. QED
    BY <1>1 DEF InCb, Top

Outside(f) == f.at \notin CbLabels

LEMMA CbOne ==
  ASSUME StackType, NEW t \in Threads, Outside(Top(t)), NEW f, Outside(f), Here(t, <<f>>)
  PROVE  SameCb
  <1>1. PICK top : /\ Becomes(t, Len(stack[t]), top) /\ Len(top) \in Nat
                   /\ \A k \in 1 .. Len(top) : top[k] = f
    <2>1. Len(<<f>>) \in Nat /\ \A k \in 1 .. Len(<<f>>) : <<f>>[k] = f
      OBVIOUS
    <2>. QED
      BY <2>1 DEF Here
  <1>2. \A k \in InCb(t) : k < Len(stack[t])
    BY CbBelow DEF Outside, Here
  <1>. QED
    BY <1>1, <1>2, CbKeeps DEF Outside

LEMMA CbNone ==
  ASSUME StackType, NEW t \in Threads, Outside(Top(t)), Here(t, <<>>)
  PROVE  SameCb
  <1>1. PICK top : /\ Becomes(t, Len(stack[t]), top) /\ Len(top) \in Nat
                   /\ 1 .. Len(top) = {}
    <2>1. Len(<<>>) \in Nat /\ 1 .. Len(<<>>) = {}
      OBVIOUS
    <2>. QED
      BY <2>1 DEF Here
  <1>2. \A k \in InCb(t) : k < Len(stack[t])
    BY CbBelow DEF Outside, Here
  <1>. QED
    BY <1>1, <1>2, CbKeeps DEF Outside

LEMMA CbTwo ==
  ASSUME StackType, NEW t \in Threads, Outside(Top(t)), NEW f, NEW g,
         Outside(f), Outside(g), Here(t, <<f, g>>)
  PROVE  SameCb
  <1>1. PICK top : /\ Becomes(t, Len(stack[t]), top) /\ Len(top) \in Nat
                   /\ \A k \in 1 .. Len(top) : top[k] \in {f, g}
    <2>1. Len(<<f, g>>) \in Nat /\ \A k \in 1 .. Len(<<f, g>>) : <<f, g>>[k] \in {f, g}
      OBVIOUS
    <2>. QED
      BY <2>1 DEF Here
  <1>2. \A k \in InCb(t) : k < Len(stack[t])
    BY CbBelow DEF Outside, Here
  <1>3. \A k \in 1 .. Len(top) : top[k].at \notin CbLabels
    BY <1>1 DEF Outside
  <1>. QED
    BY <1>1, <1>2, <1>3, CbKeeps

LEMMA CbOver ==
  ASSUME StackType, NEW t \in Threads, NEW f, Outside(f), Over(t, f)
  PROVE  SameCb
  <1>1. PICK top : /\ Becomes(t, Len(stack[t]) + 1, top) /\ Len(top) \in Nat
                   /\ \A k \in 1 .. Len(top) : top[k] = f
    <2>1. Len(<<f>>) \in Nat /\ \A k \in 1 .. Len(<<f>>) : <<f>>[k] = f
      OBVIOUS
    <2>. QED
      BY <2>1 DEF Over
  <1>. QED
    BY <1>1, CbBelow, CbKeeps DEF Outside

\* What happens to the top of the stack alone.
LEMMA CbTop ==
  ASSUME StackType, NEW t \in Threads, stack[t] # <<>>, NEW n, n = Len(stack[t])
  PROVE  /\ \A f : Here(t, <<f>>) /\ f.at \in CbLabels =>
              InCb(t)' = InCb(t) \cup {n} /\ \A u \in Threads : u # t => InCb(u)' = InCb(u)
         /\ Here(t, <<>>) =>
              InCb(t)' = InCb(t) \ {n} /\ \A u \in Threads : u # t => InCb(u)' = InCb(u)
         /\ n \in InCb(t) <=> Top(t).at \in CbLabels
  <1>1. /\ n \in Nat \ {0} /\ DOMAIN stack[t] = 1 .. n /\ Top(t) = stack[t][n]
    BY TopFacts
  <1>2. ASSUME NEW f, Here(t, <<f>>), f.at \in CbLabels
        PROVE  InCb(t)' = InCb(t) \cup {n} /\ \A u \in Threads : u # t => InCb(u)' = InCb(u)
    <2>1. Len(<<f>>) = 1 /\ <<f>>[1] = f
      OBVIOUS
    <2>2. /\ DOMAIN stack'[t] = 1 .. n /\ stack'[t][n] = f
          /\ \A k \in 1 .. n - 1 : stack'[t][k] = stack[t][k]
          /\ \A u \in Threads : u # t => stack'[u] = stack[u]
      BY <1>1, <1>2, <2>1 DEF Here, Becomes
    <2>. QED
      BY <1>1, <1>2, <2>2 DEF InCb
  <1>3. ASSUME Here(t, <<>>)
        PROVE  InCb(t)' = InCb(t) \ {n} /\ \A u \in Threads : u # t => InCb(u)' = InCb(u)
    <2>1. Len(<<>>) = 0
      OBVIOUS
    <2>2. /\ DOMAIN stack'[t] = 1 .. n - 1
          /\ \A k \in 1 .. n - 1 : stack'[t][k] = stack[t][k]
          /\ \A u \in Threads : u # t => stack'[u] = stack[u]
      BY <1>1, <1>3, <2>1 DEF Here, Becomes
    <2>. QED
      BY <1>1, <2>2 DEF InCb
  <1>4. n \in InCb(t) <=> Top(t).at \in CbLabels
    BY <1>1 DEF InCb
  <1>. QED
    BY <1>2, <1>3, <1>4

LEMMA CbLabelFacts ==
  \A l, a : l \notin CbLabels => Outside(Frame(l, a))
  BY FrameLabels DEF Outside

LEMMA CbQuiet1 ==
  ASSUME NEW t \in Threads, Moving(t),
         PopErrorScope(t) \/ PopScope(t) \/ DispatchError(t)
  PROVE  SameCb
  <1>1. Outside(Top(t))
    BY DEF PopErrorScope, PopScope, DispatchError, At, Outside, CbLabels
  <1>2. \A l \in {"pop", "route", "future", "mark_lost", "complete", "clear_wait",
                   "get_is_lost", "observe", "take_submission", "submitting",
                   "fire_wait", "lost_cb", "null_cb"} : Outside(Frame(l, Top(t).arg))
    BY CbLabelFacts DEF CbLabels
  <1>3. CASE PopErrorScope(t)
    BY <1>1, <1>2, <1>3, PopErrorScopeShape, CbOne, CbNone DEF Moving, To
  <1>4. CASE PopScope(t)
    BY <1>1, <1>2, <1>4, PopScopeShape, CbOne, CbNone DEF Moving, To
  <1>5. CASE DispatchError(t)
    BY <1>1, <1>2, <1>5, DispatchErrorShape, CbOne, CbNone DEF Moving, To
  <1>. QED
    BY <1>3, <1>4, <1>5

LEMMA CbQuiet2 ==
  ASSUME NEW t \in Threads, Moving(t),
         TakeLost(t) \/ MarkLost(t) \/ ReadFuture(t) \/ LeaveLostCallback(t)
           \/ ClearErrorCallback(t) \/ ClearWaited(t)
  PROVE  SameCb
  <1>1. Outside(Top(t))
    BY DEF TakeLost, MarkLost, ReadFuture, LeaveLostCallback, ClearErrorCallback, ClearWaited, At, Outside, CbLabels
  <1>2. \A l \in {"pop", "route", "future", "mark_lost", "complete", "clear_wait",
                   "get_is_lost", "observe", "take_submission", "submitting",
                   "fire_wait", "lost_cb", "null_cb"} : Outside(Frame(l, Top(t).arg))
    BY CbLabelFacts DEF CbLabels
  <1>3. CASE TakeLost(t)
    BY <1>1, <1>2, <1>3, TakeLostShape, CbOne, CbNone DEF Moving, To
  <1>4. CASE MarkLost(t)
    BY <1>1, <1>2, <1>4, MarkLostShape, CbOne, CbNone DEF Moving, To
  <1>5. CASE ReadFuture(t)
    BY <1>1, <1>2, <1>5, ReadFutureShape, CbOne, CbNone DEF Moving, To
  <1>6. CASE LeaveLostCallback(t)
    BY <1>1, <1>2, <1>6, LeaveLostCallbackShape, CbOne, CbNone DEF Moving, To
  <1>7. CASE ClearErrorCallback(t)
    BY <1>1, <1>2, <1>7, ClearErrorCallbackShape, CbOne, CbNone DEF Moving, To
  <1>8. CASE ClearWaited(t)
    BY <1>1, <1>2, <1>8, ClearWaitedShape, CbOne, CbNone DEF Moving, To
  <1>. QED
    BY <1>3, <1>4, <1>5, <1>6, <1>7, <1>8

LEMMA CbQuiet3 ==
  ASSUME NEW t \in Threads, Moving(t),
         GetLostFuture(t) \/ GotLostFuture(t) \/ SubmitTest(t) \/ TakeSubmission(t)
           \/ FireLost(t) \/ FireWaited(t)
  PROVE  SameCb
  <1>1. Outside(Top(t))
    BY DEF GetLostFuture, GotLostFuture, SubmitTest, TakeSubmission, FireLost, FireWaited, At, Outside, CbLabels
  <1>2. \A l \in {"pop", "route", "future", "mark_lost", "complete", "clear_wait",
                   "get_is_lost", "observe", "take_submission", "submitting",
                   "fire_wait", "lost_cb", "null_cb"} : Outside(Frame(l, Top(t).arg))
    BY CbLabelFacts DEF CbLabels
  <1>3. CASE GetLostFuture(t)
    BY <1>1, <1>2, <1>3, GetLostFutureShape, CbOne, CbNone DEF Moving, To
  <1>4. CASE GotLostFuture(t)
    BY <1>1, <1>2, <1>4, GotLostFutureShape, CbOne, CbNone DEF Moving, To
  <1>5. CASE SubmitTest(t)
    BY <1>1, <1>2, <1>5, SubmitTestShape, CbOne, CbNone DEF Moving, To
  <1>6. CASE TakeSubmission(t)
    BY <1>1, <1>2, <1>6, TakeSubmissionShape, CbOne, CbNone DEF Moving, To
  <1>7. CASE FireLost(t)
    BY <1>1, <1>2, <1>7, FireLostShape, CbOne, CbNone DEF Moving, To
  <1>8. CASE FireWaited(t)
    BY <1>1, <1>2, <1>8, FireWaitedShape, CbOne, CbNone DEF Moving, To
  <1>. QED
    BY <1>3, <1>4, <1>5, <1>6, <1>7, <1>8

LEMMA CbQuiet4 ==
  ASSUME NEW t \in Threads, Moving(t),
         WaitIdle(t) \/ SubmitDone(t) \/ ObserveLoss(t) \/ CompleteDeviceLost(t)
  PROVE  SameCb
  <1>1. Outside(Top(t))
    BY DEF WaitIdle, SubmitDone, ObserveLoss, CompleteDeviceLost, At, Outside, CbLabels
  <1>2. \A a : \A l \in {"lose", "is_lost", "observe", "complete", "clear", "fire"} :
                 Outside(Frame(l, a))
    BY CbLabelFacts DEF CbLabels
  <1>3. CASE WaitIdle(t)
    BY <1>1, <1>2, <1>3, WaitIdleShape, CbOne, CbTwo DEF Moving, To
  <1>4. CASE SubmitDone(t)
    BY <1>1, <1>2, <1>4, SubmitDoneShape, CbOne DEF Moving
  <1>5. CASE ObserveLoss(t)
    BY <1>1, <1>2, <1>5, ObserveLossShape, CbOne, CbNone DEF Moving, To
  <1>6. CASE CompleteDeviceLost(t)
    <2>1. \/ Here(t, <<Frame("clear", Top(t).arg), Frame("fire", Top(t).arg)>>)
          \/ Here(t, <<Frame("is_lost", Top(t).arg), Frame("fire", Top(t).arg)>>)
          \/ Here(t, <<Frame("fire", Top(t).arg)>>)
          \/ Here(t, <<Frame("clear", Top(t).arg)>>)
          \/ Here(t, <<Frame("is_lost", Top(t).arg)>>)
          \/ Here(t, <<>>)
      BY <1>6, CompleteDeviceLostShape DEF Moving
    <2>. QED
      BY <1>1, <1>2, <2>1, CbOne, CbTwo, CbNone DEF Moving
  <1>. QED
    BY <1>3, <1>4, <1>5, <1>6

LEMMA CbBegin ==
  ASSUME NEW t \in Threads, StackType, Begin(t) \/ Release(t) \/ ProcessEvents(t)
  PROVE  SameCb
  <1>1. \A a : \A l \in {"pop_is_lost", "is_lost", "wait_idle", "submit", "get_future", "fire"} :
                 Outside(Frame(l, a))
    BY CbLabelFacts DEF CbLabels
  <1>2. CASE Begin(t)
    BY <1>1, <1>2, BeginShape, CbOver
  <1>3. CASE Release(t)
    <2>1. stack' = stack => SameCb
      BY DEF SameCb, InCb
    <2>. QED
      BY <1>1, <1>3, <2>1, ReleaseShape, CbOver
  <1>4. CASE ProcessEvents(t)
    BY <1>1, <1>4, ProcessEventsShape, CbOver
  <1>. QED
    BY <1>2, <1>3, <1>4

\* A step inside the callback.
LEMMA CbInside ==
  ASSUME NEW t \in Threads, Moving(t), EnterErrorCallback(t) \/ LeaveErrorCallback(t)
  PROVE  SameCb
  <1>1. Top(t).at \in CbLabels
    BY DEF EnterErrorCallback, LeaveErrorCallback, At, CbLabels
  <1>2. PICK l \in {"error_cb", "error_done"} : To(t, l)
    BY EnterErrorCallbackShape, LeaveErrorCallbackShape DEF Moving
  <1>3. Frame(l, Top(t).arg).at \in CbLabels
    BY FrameLabels DEF CbLabels
  <1>4. /\ InCb(t)' = InCb(t) \cup {Len(stack[t])}
        /\ \A u \in Threads : u # t => InCb(u)' = InCb(u)
        /\ Len(stack[t]) \in InCb(t)
    BY <1>1, <1>2, <1>3, CbTop DEF Moving, To
  <1>. QED
    BY <1>4 DEF SameCb

\* The count goes up with the call, and down when it is over.
LEMMA CbRoute ==
  ASSUME NEW t \in Threads, Moving(t), ActiveInv, RouteError(t)
  PROVE  /\ ActiveInv'
         /\ ~installed => active' = active
         /\ \A u \in Threads : active[u] # 0 => active'[u] # 0
  <1> DEFINE n == Len(stack[t])
  <1>1. Top(t).at \notin CbLabels /\ active \in [Threads -> Int]
    BY DEF RouteError, At, CbLabels, Moving, RestType
  <1>2. CASE Return(t) /\ active' = active
    <2>1. SameCb
      BY <1>1, <1>2, GoesBack, CbNone DEF Moving, Outside
    <2>. QED
      BY <1>2, <2>1 DEF ActiveInv, SameCb
  <1>3. CASE installed /\ Goto(t, "enter_cb") /\ active' = [active EXCEPT ![t] = @ + 1]
    <2>1. /\ InCb(t)' = InCb(t) \cup {n} /\ \A u \in Threads : u # t => InCb(u)' = InCb(u)
          /\ n \notin InCb(t)
      <3>1. To(t, "enter_cb") /\ Frame("enter_cb", Top(t).arg).at \in CbLabels
        BY <1>3, GoesTo, LabelFacts, FrameLabels DEF Moving, CbLabels
      <3>. QED
        BY <1>1, <3>1, CbTop DEF Moving, To
    <2>2. Cardinality(InCb(t)') = Cardinality(InCb(t)) + 1
      BY <2>1, CbFinite, FS_AddElement DEF Moving
    <2>3. ActiveInv'
      BY <1>1, <1>3, <2>1, <2>2 DEF ActiveInv
    <2>4. \A u \in Threads : active[u] \in Nat
      BY CbFinite DEF ActiveInv, Moving
    <2>. QED
      BY <1>1, <1>3, <2>3, <2>4
  <1>. QED
    BY <1>2, <1>3 DEF RouteError

LEMMA CbDone ==
  ASSUME NEW t \in Threads, Moving(t), ActiveInv, ErrorDone(t)
  PROVE  /\ ActiveInv' /\ active[t] # 0
         /\ \A u \in Threads : active[u] = 0 => active'[u] = 0
  <1> DEFINE n == Len(stack[t])
  <1>1. Top(t).at \in CbLabels /\ active \in [Threads -> Int]
    BY DEF ErrorDone, At, CbLabels, Moving, RestType
  <1>2. /\ InCb(t)' = InCb(t) \ {n} /\ \A u \in Threads : u # t => InCb(u)' = InCb(u)
        /\ n \in InCb(t)
    BY <1>1, ErrorDoneShape, CbTop DEF Moving
  <1>3. Cardinality(InCb(t)') = Cardinality(InCb(t)) - 1
    BY <1>2, CbFinite, FS_RemoveElement DEF Moving
  <1>4. Cardinality(InCb(t)) # 0
    <2>1. InCb(t) # {} /\ IsFiniteSet(InCb(t))
      BY <1>2, CbFinite DEF Moving
    <2>. QED
      BY <2>1, FS_EmptySet
  <1>5. active' = [active EXCEPT ![t] = @ - 1]
    BY DEF ErrorDone
  <1>6. ActiveInv'
    BY <1>1, <1>2, <1>3, <1>5 DEF ActiveInv
  <1>7. active[t] # 0
    BY <1>4 DEF ActiveInv
  <1>. QED
    BY <1>1, <1>5, <1>6, <1>7

LEMMA ActiveSame ==
  ASSUME ActiveInv, SameCb, active' = active
  PROVE  ActiveInv'
  BY DEF ActiveInv, SameCb

LEMMA SilenceSame ==
  ASSUME SilenceInv, active' = active, cleared' = cleared, installed' => installed
  PROVE  SilenceInv'
  BY DEF SilenceInv

CallbackInv == ActiveInv /\ SilenceInv

LEMMA CallbackStep ==
  ASSUME StackType, RestType, FrameInv, CallbackInv, [Next]_vars
  PROVE  CallbackInv'
  <1>1. Sound \subseteq Sound'
    BY StepOnward, OnwardSound
  <1>2. installed' => installed
    BY StepOnward DEF Onward
  <1>3. ASSUME SameCb, active' = active, cleared' = cleared PROVE CallbackInv'
    BY <1>2, <1>3, ActiveSame, SilenceSame DEF CallbackInv
  <1>4. ASSUME NEW t \in Threads, Step(t) PROVE CallbackInv'
    <2>1. Moving(t)
      BY <1>1, <1>4, StepMoves DEF Moving
    <2>2. CASE PopErrorScope(t) \/ PopScope(t) \/ DispatchError(t)
      BY <1>3, <2>1, <2>2, CbQuiet1 DEF PopErrorScope, PopScope, DispatchError
    <2>3. CASE \/ TakeLost(t) \/ MarkLost(t) \/ ReadFuture(t) \/ LeaveLostCallback(t)
               \/ ClearErrorCallback(t)
      BY <1>3, <2>1, <2>3, CbQuiet2 DEF TakeLost, MarkLost, ReadFuture,
        LeaveLostCallback, ClearErrorCallback
    <2>4. CASE \/ GetLostFuture(t) \/ GotLostFuture(t) \/ SubmitTest(t)
               \/ TakeSubmission(t) \/ FireLost(t)
      BY <1>3, <2>1, <2>4, CbQuiet3 DEF GetLostFuture, GotLostFuture, SubmitTest,
        TakeSubmission, FireLost
    <2>5. CASE WaitIdle(t) \/ SubmitDone(t) \/ ObserveLoss(t) \/ CompleteDeviceLost(t)
      BY <1>3, <2>1, <2>5, CbQuiet4 DEF WaitIdle, SubmitDone, ObserveLoss, CompleteDeviceLost
    <2>6. CASE EnterErrorCallback(t) \/ LeaveErrorCallback(t)
      BY <1>3, <2>1, <2>6, CbInside DEF EnterErrorCallback, LeaveErrorCallback
    <2>7. CASE RouteError(t)
      <3>1. ActiveInv' /\ (~installed => active' = active)
        BY <2>1, <2>7, CbRoute DEF CallbackInv
      <3>2. cleared' = cleared
        BY <2>7 DEF RouteError
      <3>3. SilenceInv'
        BY <1>2, <3>1, <3>2 DEF CallbackInv, SilenceInv
      <3>. QED
        BY <3>1, <3>3 DEF CallbackInv
    <2>8. CASE ErrorDone(t)
      <3>1. ActiveInv' /\ \A u \in Threads : active[u] = 0 => active'[u] = 0
        BY <2>1, <2>8, CbDone DEF CallbackInv
      <3>2. cleared' = cleared
        BY <2>8 DEF ErrorDone
      <3>3. SilenceInv'
        BY <1>2, <3>1, <3>2 DEF CallbackInv, SilenceInv
      <3>. QED
        BY <3>1, <3>3 DEF CallbackInv
    <2>9. CASE FireWaited(t) \/ ClearWaited(t)
      <3>1. SameCb
        BY <2>1, <2>9, CbQuiet2, CbQuiet3
      <3>2. /\ OthersIdle(t) /\ active' = active /\ cleared' = cleared \cup {t}
            /\ installed' = installed
        BY <2>9 DEF FireWaited, ClearWaited
      <3>3. ~installed
        BY <2>1, <2>9, TopSound DEF Moving, FireWaited, ClearWaited, At, Sound
      <3>4. SilenceInv'
        BY <3>2, <3>3 DEF OthersIdle, SilenceInv
      <3>. QED
        BY <3>1, <3>2, <3>4, ActiveSame DEF CallbackInv
    <2>. QED
      BY <1>4, <2>2, <2>3, <2>4, <2>5, <2>6, <2>7, <2>8, <2>9 DEF Step
  <1>5. ASSUME NEW t \in Threads, Begin(t) \/ Release(t) \/ ProcessEvents(t)
        PROVE  CallbackInv'
    BY <1>3, <1>5, CbBegin DEF Begin, Release, ProcessEvents
  <1>6. stack' = stack => SameCb
    BY DEF SameCb, InCb
  <1>7. ASSUME NEW t \in Threads, NEW filter \in Kinds, PushErrorScope(t, filter)
        PROVE  CallbackInv'
    BY <1>3, <1>6, <1>7 DEF PushErrorScope
  <1>8. ASSUME NEW t \in Threads, NEW u \in Threads, AddRef(t, u) PROVE CallbackInv'
    BY <1>3, <1>6, <1>8 DEF AddRef
  <1>9. CASE UNCHANGED vars
    BY <1>3, <1>6, <1>9 DEF vars
  <1>. QED
    BY <1>4, <1>5, <1>7, <1>8, <1>9 DEF Next, Quiet

LEMMA SilenceFollows ==
  ASSUME StackType, CallbackInv
  PROVE  ErrorCallbackSilenced
  <1>1. SUFFICES ASSUME cleared # {}, NEW t \in Threads \ cleared, NEW i \in DOMAIN stack[t],
                        stack[t][i].at = "error_cb"
                 PROVE  FALSE
    BY DEF ErrorCallbackSilenced
  <1>2. i \in InCb(t) /\ IsFiniteSet(InCb(t))
    BY <1>1, CbFinite DEF InCb, CbLabels
  <1>3. Cardinality(InCb(t)) # 0
    BY <1>2, FS_EmptySet
  <1>. QED
    BY <1>1, <1>3 DEF CallbackInv, ActiveInv, SilenceInv

-----------------------------------------------------------------------------
(* Error scopes: the reference, as operators of the history                *)

Count(L, what, q, p) == Cardinality({i \in q .. p : L[i].what = what})
Level(L, q, p)  == Count(L, "push", q, p) = Count(L, "pop", q, p)
Ends(L, q)      == {p \in DOMAIN L : p > q /\ Level(L, q, p)}
Closed(L, q)    == IF Ends(L, q) = {} THEN Len(L) + 1
                   ELSE CHOOSE p \in Ends(L, q) : \A r \in Ends(L, q) : p <= r
IsOpen(L, s, e) == /\ L[s].what = "push" /\ L[s].kind = L[e].kind
                   /\ s < e /\ e < Closed(L, s)
Within(L, e, q) == IsOpen(L, q, e) /\ \A s \in q + 1 .. e : ~IsOpen(L, s, e)
Errors(L, q, p) == {e \in q .. p : L[e].what = "error" /\ Within(L, e, q)}
Reports(L, q, p, v) ==
  IF Errors(L, q, p) = {} THEN v = 0
  ELSE v \in Errors(L, q, p) /\ \A e \in Errors(L, q, p) : v <= e

LEMMA Reference ==
  ASSUME NEW t
  PROVE  /\ \A q : ClosedAt(t, q) = Closed(log[t], q)
         /\ \A e, q : Belongs(t, e, q) = Within(log[t], e, q)
  <1>1. \A q : ClosedAt(t, q) = Closed(log[t], q)
    BY DEF ClosedAt, Closed, Ends, Level, Count
  <1>. QED
    BY <1>1 DEF Belongs, Within, IsOpen

\* When a scope was closed, for one that was.
Closing(L, q, c) == c \in Ends(L, q) /\ \A r \in Ends(L, q) : c <= r
Tidy(L) == \A q \in DOMAIN L : L[q].what = "push" =>
             Ends(L, q) = {} \/ \E c \in DOMAIN L : Closing(L, q, c)

\* The history so far says what the reference says.
PastAt(L, i) ==
  /\ L[i].what = "error" => (L[i].n = 1 <=> \E q \in 1 .. i - 1 : Within(L, i, q))
  /\ L[i].what = "pop" => \E q \in 1 .. i - 1 :
       /\ L[q].what = "push" /\ Closed(L, q) = i
       /\ \A r \in 1 .. i - 1 : (L[r].what = "push" /\ Closed(L, r) = i) => r = q
       /\ Reports(L, q, i, L[i].n)
Past(L) == \A i \in DOMAIN L : PastAt(L, i)

\* A scope with more pushes than pops since it was pushed, all along.
Unended(L, q) ==
  \A p \in q .. Len(L) : Count(L, "push", q, p) > Count(L, "pop", q, p)

\* The open scopes and where in the history they were pushed.
Nested(L, sc, pos) ==
  /\ \A j \in 1 .. Len(sc) :
       /\ pos[j] \in DOMAIN L /\ L[pos[j]].what = "push" /\ L[pos[j]].kind = sc[j].filter
       /\ Unended(L, pos[j])
       /\ Count(L, "push", pos[j], Len(L)) = Count(L, "pop", pos[j], Len(L)) + Len(sc) - j + 1
       /\ Reports(L, pos[j], Len(L), sc[j].error)
  /\ \A j, k \in 1 .. Len(sc) : j < k => pos[j] < pos[k]
  /\ \A q \in DOMAIN L : L[q].what = "push" /\ (\A j \in 1 .. Len(sc) : pos[j] # q) =>
       \E c \in DOMAIN L : Closing(L, q, c)
\* Among the scopes below each there is an innermost one of every kind.
Innermost(sc) ==
  \A m \in 0 .. Len(sc), kind \in Kinds :
    \/ \A i \in 1 .. m : sc[i].filter # kind
    \/ \E i \in 1 .. m : /\ sc[i].filter = kind
                         /\ \A j \in 1 .. m : sc[j].filter = kind => j <= i

-----------------------------------------------------------------------------
(* One more event                                                          *)

Grows(L, ev, L2) == L \in Seq(Events) /\ ev \in Events /\ L2 = Append(L, ev)

LEMMA GrowFacts ==
  ASSUME NEW L, NEW ev, NEW L2, Grows(L, ev, L2)
  PROVE  /\ L2 \in Seq(Events) /\ Len(L) \in Nat /\ Len(L2) = Len(L) + 1
         /\ DOMAIN L = 1 .. Len(L) /\ DOMAIN L2 = 1 .. Len(L) + 1
         /\ \A i \in 1 .. Len(L) : L2[i] = L[i]
         /\ L2[Len(L) + 1] = ev
  BY DEF Grows

LEMMA CountType ==
  ASSUME NEW L, NEW what, NEW q \in Nat, NEW p \in Nat
  PROVE  /\ IsFiniteSet({i \in q .. p : L[i].what = what})
         /\ Count(L, what, q, p) \in Nat
  <1>1. IsFiniteSet(q .. p)
    BY FS_Interval
  <1>2. IsFiniteSet({i \in q .. p : L[i].what = what})
    BY <1>1, FS_Subset
  <1>. QED
    BY <1>2, FS_CardinalityType DEF Count

LEMMA CountSame ==
  ASSUME NEW L, NEW ev, NEW L2, Grows(L, ev, L2), NEW what,
         NEW q \in 1 .. Len(L), NEW p \in 1 .. Len(L)
  PROVE  Count(L2, what, q, p) = Count(L, what, q, p)
  <1>1. {i \in q .. p : L2[i].what = what} = {i \in q .. p : L[i].what = what}
    BY GrowFacts
  <1>. QED
    BY <1>1 DEF Count

LEMMA CountNext ==
  ASSUME NEW L, NEW ev, NEW L2, Grows(L, ev, L2), NEW what, NEW q \in 1 .. Len(L)
  PROVE  Count(L2, what, q, Len(L) + 1)
           = IF ev.what = what THEN Count(L, what, q, Len(L)) + 1 ELSE Count(L, what, q, Len(L))
  <1> DEFINE n == Len(L)
             S == {i \in q .. n : L[i].what = what}
             S2 == {i \in q .. n + 1 : L2[i].what = what}
  <1>1. n \in Nat /\ (\A i \in q .. n : L2[i] = L[i]) /\ L2[n + 1] = ev
    BY GrowFacts
  <1>2. IsFiniteSet(S)
    <2>1. q \in Nat /\ n \in Nat
      BY <1>1
    <2>. QED
      BY <2>1, CountType
  <1>3. n + 1 \notin S
    BY <1>1
  <1>4. CASE ev.what = what
    <2>1. S2 = S \cup {n + 1}
      BY <1>1, <1>4
    <2>2. Cardinality(S2) = Cardinality(S) + 1
      BY <1>2, <1>3, <2>1, FS_AddElement
    <2>. QED
      BY <1>4, <2>2 DEF Count
  <1>5. CASE ev.what # what
    <2>1. S2 = S
      BY <1>1, <1>5
    <2>. QED
      BY <1>5, <2>1 DEF Count
  <1>. QED
    BY <1>4, <1>5

\* A new scope counts itself.
LEMMA CountNew ==
  ASSUME NEW L, NEW n \in Nat, L[n].what = "push"
  PROVE  Count(L, "push", n, n) = 1 /\ Count(L, "pop", n, n) = 0
  <1>1. {i \in n .. n : L[i].what = "push"} = {n} /\ {i \in n .. n : L[i].what = "pop"} = {}
    OBVIOUS
  <1>. QED
    BY <1>1, FS_Singleton, FS_EmptySet DEF Count

LEMMA EndsNext ==
  ASSUME NEW L, NEW ev, NEW L2, Grows(L, ev, L2), NEW q \in 1 .. Len(L)
  PROVE  Ends(L2, q) = Ends(L, q) \cup (IF Level(L2, q, Len(L) + 1) THEN {Len(L) + 1} ELSE {})
  <1>1. /\ DOMAIN L = 1 .. Len(L) /\ DOMAIN L2 = 1 .. Len(L) + 1 /\ Len(L) \in Nat
    BY GrowFacts
  <1>2. \A p \in 1 .. Len(L) : Level(L2, q, p) <=> Level(L, q, p)
    BY CountSame DEF Level
  <1>3. ASSUME NEW p \in 1 .. Len(L) + 1
        PROVE  p \in 1 .. Len(L) \/ p = Len(L) + 1
    BY <1>1
  <1>. QED
    BY <1>1, <1>2, <1>3 DEF Ends

LEMMA ClosedIs ==
  ASSUME NEW L, NEW q, NEW c, Closing(L, q, c), DOMAIN L \subseteq Nat
  PROVE  Closed(L, q) = c
  <1>1. c \in Ends(L, q) /\ \A r \in Ends(L, q) : c <= r
    BY DEF Closing
  <1>2. \A p \in Ends(L, q) : (\A r \in Ends(L, q) : p <= r) => p = c
    BY <1>1 DEF Ends
  <1>3. (CHOOSE p \in Ends(L, q) : \A r \in Ends(L, q) : p <= r) = c
    BY <1>1, <1>2
  <1>. QED
    BY <1>1, <1>3 DEF Closed

\* What is closed stays closed where it was; what is open stays open, or is closed
\* by the event.
LEMMA ClosedNext ==
  ASSUME NEW L, NEW ev, NEW L2, Grows(L, ev, L2), NEW q \in 1 .. Len(L)
  PROVE  /\ \A c : Closing(L, q, c) =>
              /\ Closing(L2, q, c) /\ Closed(L, q) = c /\ Closed(L2, q) = c
              /\ c \in 1 .. Len(L) /\ q < c
         /\ Ends(L, q) = {} => Closed(L, q) = Len(L) + 1
         /\ Ends(L, q) = {} /\ ~Level(L2, q, Len(L) + 1) =>
              Ends(L2, q) = {} /\ Closed(L2, q) = Len(L) + 2
         /\ Ends(L, q) = {} /\ Level(L2, q, Len(L) + 1) =>
              Closing(L2, q, Len(L) + 1) /\ Closed(L2, q) = Len(L) + 1
  <1>1. /\ DOMAIN L = 1 .. Len(L) /\ DOMAIN L2 = 1 .. Len(L) + 1 /\ Len(L) \in Nat
        /\ Len(L2) = Len(L) + 1
    BY GrowFacts
  <1>2. Ends(L2, q) = Ends(L, q) \cup (IF Level(L2, q, Len(L) + 1) THEN {Len(L) + 1} ELSE {})
    BY EndsNext
  <1>3. ASSUME NEW c, Closing(L, q, c)
        PROVE  /\ Closing(L2, q, c) /\ Closed(L, q) = c /\ Closed(L2, q) = c
               /\ c \in 1 .. Len(L) /\ q < c
    <2>1. c \in 1 .. Len(L) /\ q < c
      BY <1>1, <1>3 DEF Closing, Ends
    <2>2. Closing(L2, q, c)
      BY <1>1, <1>2, <1>3, <2>1 DEF Closing
    <2>. QED
      BY <1>1, <1>3, <2>1, <2>2, ClosedIs
  <1>4. Ends(L, q) = {} => Closed(L, q) = Len(L) + 1
    BY DEF Closed
  <1>5. ASSUME Ends(L, q) = {}, ~Level(L2, q, Len(L) + 1)
        PROVE  Ends(L2, q) = {} /\ Closed(L2, q) = Len(L) + 2
    <2>1. Ends(L2, q) = {}
      BY <1>2, <1>5
    <2>. QED
      BY <1>1, <2>1 DEF Closed
  <1>6. ASSUME Ends(L, q) = {}, Level(L2, q, Len(L) + 1)
        PROVE  Closing(L2, q, Len(L) + 1) /\ Closed(L2, q) = Len(L) + 1
    <2>1. Ends(L2, q) = {Len(L) + 1}
      BY <1>2, <1>6
    <2>2. Closing(L2, q, Len(L) + 1)
      BY <1>1, <2>1 DEF Closing
    <2>. QED
      BY <1>1, <2>2, ClosedIs
  <1>. QED
    BY <1>3, <1>4, <1>5, <1>6

\* What was said of the past stays true.
LEMMA OpenSame ==
  ASSUME NEW L, NEW ev, NEW L2, Grows(L, ev, L2), Tidy(L),
         NEW s \in 1 .. Len(L), NEW e \in 1 .. Len(L)
  PROVE  IsOpen(L2, s, e) <=> IsOpen(L, s, e)
  <1>1. L2[s] = L[s] /\ L2[e] = L[e] /\ DOMAIN L = 1 .. Len(L) /\ Len(L) \in Nat
    BY GrowFacts
  <1>2. CASE L[s].what # "push"
    BY <1>1, <1>2 DEF IsOpen
  <1>3. CASE L[s].what = "push"
    <2>1. CASE Ends(L, s) = {}
      <3>1. Closed(L, s) = Len(L) + 1
        BY <2>1, ClosedNext
      <3>2. Closed(L2, s) = Len(L) + 1 \/ Closed(L2, s) = Len(L) + 2
        BY <2>1, ClosedNext
      <3>3. e < Closed(L, s) /\ e < Closed(L2, s)
        BY <1>1, <3>1, <3>2
      <3>. QED
        BY <1>1, <3>3 DEF IsOpen
    <2>2. CASE \E c \in DOMAIN L : Closing(L, s, c)
      <3>1. Closed(L2, s) = Closed(L, s)
        BY <2>2, ClosedNext
      <3>. QED
        BY <1>1, <3>1 DEF IsOpen
    <2>. QED
      BY <1>1, <1>3, <2>1, <2>2 DEF Tidy
  <1>. QED
    BY <1>2, <1>3

LEMMA WithinSame ==
  ASSUME NEW L, NEW ev, NEW L2, Grows(L, ev, L2), Tidy(L),
         NEW q \in 1 .. Len(L), NEW e \in 1 .. Len(L)
  PROVE  Within(L2, e, q) <=> Within(L, e, q)
  <1>1. Len(L) \in Nat
    BY GrowFacts
  <1>2. \A s \in q + 1 .. e : s \in 1 .. Len(L)
    BY <1>1
  <1>. QED
    BY <1>2, OpenSame DEF Within

LEMMA ReportsSame ==
  ASSUME NEW L, NEW ev, NEW L2, Grows(L, ev, L2), Tidy(L),
         NEW q \in 1 .. Len(L), NEW p \in 1 .. Len(L), NEW v
  PROVE  Reports(L2, q, p, v) <=> Reports(L, q, p, v)
  <1>1. Len(L) \in Nat /\ \A i \in 1 .. Len(L) : L2[i] = L[i]
    BY GrowFacts
  <1>2. Errors(L2, q, p) = Errors(L, q, p)
    <2>1. \A e \in q .. p : e \in 1 .. Len(L)
      BY <1>1
    <2>. QED
      BY <1>1, <2>1, WithinSame DEF Errors
  <1>. QED
    BY <1>2 DEF Reports

\* The event adds nothing to what a scope reports unless it is an error of its own.
LEMMA ReportsNext ==
  ASSUME NEW L, NEW ev, NEW L2, Grows(L, ev, L2), Tidy(L), NEW q \in 1 .. Len(L), NEW v,
         ev.what # "error" \/ ~Within(L2, Len(L) + 1, q)
  PROVE  Reports(L2, q, Len(L) + 1, v) <=> Reports(L, q, Len(L), v)
  <1>1. Len(L) \in Nat /\ L2[Len(L) + 1] = ev /\ \A i \in 1 .. Len(L) : L2[i] = L[i]
    BY GrowFacts
  <1>2. Errors(L2, q, Len(L) + 1) = Errors(L, q, Len(L))
    <2>1. ASSUME NEW e \in q .. Len(L) + 1
          PROVE  (e \in 1 .. Len(L) /\ e \in q .. Len(L)) \/ e = Len(L) + 1
      BY <1>1
    <2>2. \A e \in q .. Len(L) : e \in 1 .. Len(L) /\ e \in q .. Len(L) + 1
      BY <1>1
    <2>3. Len(L) + 1 \notin q .. Len(L)
      BY <1>1
    <2>. QED
      BY <1>1, <2>1, <2>2, <2>3, WithinSame DEF Errors
  <1>. QED
    BY <1>2 DEF Reports


-----------------------------------------------------------------------------
(* The open scopes and the history                                         *)

LEMMA UnendedEnds ==
  ASSUME NEW L \in Seq(Events), NEW q \in 1 .. Len(L), Unended(L, q)
  PROVE  Ends(L, q) = {}
  <1>1. SUFFICES ASSUME NEW p \in Ends(L, q) PROVE FALSE
    OBVIOUS
  <1>2. p \in Nat /\ q \in Nat /\ p \in q .. Len(L) /\ Level(L, q, p)
    BY <1>1 DEF Ends
  <1>3. Count(L, "push", q, p) \in Nat /\ Count(L, "pop", q, p) \in Nat
    BY <1>2, CountType
  <1>4. Count(L, "push", q, p) > Count(L, "pop", q, p)
    BY <1>2 DEF Unended
  <1>. QED
    BY <1>2, <1>3, <1>4 DEF Level

LEMMA NestedTidy ==
  ASSUME NEW L \in Seq(Events), NEW sc, NEW pos, Nested(L, sc, pos)
  PROVE  Tidy(L)
  <1>1. SUFFICES ASSUME NEW q \in DOMAIN L, L[q].what = "push"
                 PROVE  Ends(L, q) = {} \/ \E c \in DOMAIN L : Closing(L, q, c)
    BY DEF Tidy
  <1>2. CASE \A j \in 1 .. Len(sc) : pos[j] # q
    BY <1>1, <1>2 DEF Nested
  <1>3. CASE \E j \in 1 .. Len(sc) : pos[j] = q
    <2>1. Unended(L, q) /\ q \in 1 .. Len(L)
      BY <1>3 DEF Nested
    <2>. QED
      BY <2>1, UnendedEnds
  <1>. QED
    BY <1>2, <1>3

\* A scope stays open unless the event makes its pushes and pops equal.
LEMMA UnendedNext ==
  ASSUME NEW L, NEW ev, NEW L2, Grows(L, ev, L2), NEW q \in 1 .. Len(L), Unended(L, q),
         Count(L2, "push", q, Len(L) + 1) > Count(L2, "pop", q, Len(L) + 1)
  PROVE  Unended(L2, q)
  <1>1. Len(L) \in Nat /\ Len(L2) = Len(L) + 1
    BY GrowFacts
  <1>2. ASSUME NEW p \in q .. Len(L2)
        PROVE  Count(L2, "push", q, p) > Count(L2, "pop", q, p)
    <2>1. CASE p = Len(L) + 1
      BY <2>1
    <2>2. CASE p # Len(L) + 1
      <3>1. p \in 1 .. Len(L) /\ p \in q .. Len(L)
        BY <1>1, <2>2
      <3>. QED
        BY <3>1, CountSame DEF Unended
    <2>. QED
      BY <2>1, <2>2
  <1>. QED
    BY <1>2 DEF Unended

LEMMA ClosedSame ==
  ASSUME NEW L, NEW ev, NEW L2, Grows(L, ev, L2), Tidy(L), NEW q \in 1 .. Len(L),
         L[q].what = "push", NEW i \in 1 .. Len(L)
  PROVE  Closed(L2, q) = i <=> Closed(L, q) = i
  <1>1. DOMAIN L = 1 .. Len(L) /\ Len(L) \in Nat
    BY GrowFacts
  <1>2. CASE Ends(L, q) = {}
    <2>1. Closed(L, q) = Len(L) + 1
      BY <1>2, ClosedNext
    <2>2. Closed(L2, q) = Len(L) + 1 \/ Closed(L2, q) = Len(L) + 2
      BY <1>2, ClosedNext
    <2>. QED
      BY <1>1, <2>1, <2>2
  <1>3. CASE \E c \in DOMAIN L : Closing(L, q, c)
    BY <1>3, ClosedNext
  <1>. QED
    BY <1>1, <1>2, <1>3 DEF Tidy

\* What the history says up to now it goes on saying.
LEMMA PastSame ==
  ASSUME NEW L, NEW ev, NEW L2, Grows(L, ev, L2), Tidy(L), NEW i \in 1 .. Len(L), PastAt(L, i)
  PROVE  PastAt(L2, i)
  <1>1. Len(L) \in Nat /\ \A k \in 1 .. Len(L) : L2[k] = L[k]
    BY GrowFacts
  <1>2. \A q \in 1 .. i - 1 : q \in 1 .. Len(L)
    BY <1>1
  <1>3. CASE L[i].what = "error"
    <2>1. L[i].n = 1 <=> \E q \in 1 .. i - 1 : Within(L, i, q)
      BY <1>3 DEF PastAt
    <2>2. \A q \in 1 .. i - 1 : Within(L2, i, q) <=> Within(L, i, q)
      BY <1>2, WithinSame
    <2>. QED
      BY <1>1, <1>3, <2>1, <2>2 DEF PastAt
  <1>4. CASE L[i].what = "pop"
    <2>1. PICK q \in 1 .. i - 1 :
            /\ L[q].what = "push" /\ Closed(L, q) = i
            /\ \A r \in 1 .. i - 1 : (L[r].what = "push" /\ Closed(L, r) = i) => r = q
            /\ Reports(L, q, i, L[i].n)
      BY <1>4 DEF PastAt
    <2>2. L2[q].what = "push" /\ Closed(L2, q) = i
      BY <1>1, <1>2, <2>1, ClosedSame
    <2>3. \A r \in 1 .. i - 1 : (L2[r].what = "push" /\ Closed(L2, r) = i) => r = q
      BY <1>1, <1>2, <2>1, ClosedSame
    <2>4. Reports(L2, q, i, L2[i].n)
      BY <1>1, <1>2, <2>1, ReportsSame
    <2>. QED
      BY <1>1, <1>4, <2>2, <2>3, <2>4 DEF PastAt
  <1>. QED
    BY <1>1, <1>3, <1>4 DEF PastAt

\* What is known of the open scopes and of the past before an event.
Known(L, sc, pos) ==
  /\ sc \in Seq(Scopes) /\ Nested(L, sc, pos) /\ Past(L) /\ Innermost(sc)

LEMMA PastGrows ==
  ASSUME NEW L, NEW ev, NEW L2, Grows(L, ev, L2), NEW sc, NEW pos, Known(L, sc, pos),
         PastAt(L2, Len(L) + 1)
  PROVE  Past(L2)
  <1>1. /\ L \in Seq(Events) /\ Len(L) \in Nat /\ DOMAIN L = 1 .. Len(L)
        /\ DOMAIN L2 = 1 .. Len(L) + 1
    BY GrowFacts DEF Grows
  <1>2. Tidy(L)
    BY <1>1, NestedTidy DEF Known
  <1>3. \A i \in 1 .. Len(L) : PastAt(L2, i)
    BY <1>1, <1>2, PastSame DEF Known, Past
  <1>4. \A i \in DOMAIN L2 : i \in 1 .. Len(L) \/ i = Len(L) + 1
    BY <1>1
  <1>. QED
    BY <1>3, <1>4 DEF Past

\* The facts of one open scope.
LEMMA OpenFacts ==
  ASSUME NEW L \in Seq(Events), NEW sc, NEW pos, Known(L, sc, pos), NEW j \in 1 .. Len(sc)
  PROVE  /\ pos[j] \in 1 .. Len(L) /\ pos[j] \in Nat
         /\ L[pos[j]].what = "push" /\ L[pos[j]].kind = sc[j].filter
         /\ Unended(L, pos[j]) /\ Ends(L, pos[j]) = {}
         /\ Count(L, "push", pos[j], Len(L)) = Count(L, "pop", pos[j], Len(L)) + Len(sc) - j + 1
         /\ Count(L, "push", pos[j], Len(L)) \in Nat /\ Count(L, "pop", pos[j], Len(L)) \in Nat
         /\ Reports(L, pos[j], Len(L), sc[j].error)
         /\ \A k \in 1 .. Len(sc) : j < k => pos[j] < pos[k]
         /\ \A k \in 1 .. Len(sc) : k < j => pos[k] < pos[j]
         /\ \A k \in 1 .. Len(sc) : pos[k] = pos[j] => k = j
  <1>1. /\ pos[j] \in DOMAIN L /\ L[pos[j]].what = "push" /\ L[pos[j]].kind = sc[j].filter
        /\ Unended(L, pos[j])
        /\ Count(L, "push", pos[j], Len(L)) = Count(L, "pop", pos[j], Len(L)) + Len(sc) - j + 1
        /\ Reports(L, pos[j], Len(L), sc[j].error)
    BY DEF Known, Nested
  <1>2. /\ \A k \in 1 .. Len(sc) : j < k => pos[j] < pos[k]
        /\ \A k \in 1 .. Len(sc) : k < j => pos[k] < pos[j]
    BY DEF Known, Nested
  <1>3. pos[j] \in 1 .. Len(L) /\ pos[j] \in Nat /\ Len(L) \in Nat
    BY <1>1
  <1>4. Count(L, "push", pos[j], Len(L)) \in Nat /\ Count(L, "pop", pos[j], Len(L)) \in Nat
    BY <1>3, CountType
  <1>5. Len(sc) \in Nat
    BY DEF Known
  <1>6. ASSUME NEW k \in 1 .. Len(sc), pos[k] = pos[j] PROVE k = j
    <2>1. k < j \/ j < k \/ k = j
      BY <1>5
    <2>. QED
      BY <1>2, <1>3, <1>6, <2>1
  <1>7. Ends(L, pos[j]) = {}
    BY <1>1, <1>3, UnendedEnds
  <1>. QED
    BY <1>1, <1>2, <1>3, <1>4, <1>6, <1>7

-----------------------------------------------------------------------------
(* A push, a pop, an error                                                 *)

\* A closed scope stays closed.
LEMMA OthersClosed ==
  ASSUME NEW L, NEW ev, NEW L2, Grows(L, ev, L2), NEW sc, NEW pos, Known(L, sc, pos),
         NEW q \in 1 .. Len(L), L2[q].what = "push", \A j \in 1 .. Len(sc) : pos[j] # q
  PROVE  /\ \E c \in DOMAIN L2 : Closing(L2, q, c)
         /\ Closed(L2, q) \in 1 .. Len(L)
  <1>1. /\ DOMAIN L = 1 .. Len(L) /\ DOMAIN L2 = 1 .. Len(L) + 1 /\ Len(L) \in Nat
        /\ L2[q] = L[q]
    BY GrowFacts
  <1>2. PICK c \in DOMAIN L : Closing(L, q, c)
    BY <1>1 DEF Known, Nested
  <1>3. Closing(L2, q, c) /\ Closed(L2, q) = c /\ c \in 1 .. Len(L)
    BY <1>2, ClosedNext
  <1>. QED
    BY <1>1, <1>3

LEMMA PushKnown ==
  ASSUME NEW L, NEW ev, NEW L2, Grows(L, ev, L2), NEW sc, NEW pos, Known(L, sc, pos),
         ev.what = "push", NEW s \in Scopes, s.filter = ev.kind, s.error = 0
  PROVE  \E pos2 : Known(L2, Append(sc, s), pos2)
  <1> DEFINE n == Len(L)
             m == Len(sc)
             sc2 == Append(sc, s)
             pos2 == [j \in 1 .. m + 1 |-> IF j = m + 1 THEN n + 1 ELSE pos[j]]
  <1>1. /\ n \in Nat /\ Len(L2) = n + 1 /\ L2[n + 1] = ev /\ L \in Seq(Events)
        /\ DOMAIN L = 1 .. n /\ DOMAIN L2 = 1 .. n + 1 /\ \A i \in 1 .. n : L2[i] = L[i]
    BY GrowFacts DEF Grows
  <1>2. /\ sc \in Seq(Scopes) /\ m \in Nat /\ sc2 \in Seq(Scopes) /\ Len(sc2) = m + 1
        /\ \A j \in 1 .. m : sc2[j] = sc[j]
        /\ sc2[m + 1] = s
    BY DEF Known
  <1>3. /\ \A j \in 1 .. m : pos2[j] = pos[j]
        /\ pos2[m + 1] = n + 1
    BY <1>2
  <1>. HIDE DEF sc2, pos2
  <1>4. Tidy(L)
    BY <1>1, NestedTidy DEF Known
  <1>5. Past(L2)
    BY <1>1, PastGrows DEF PastAt
  <1>6. ASSUME NEW j \in 1 .. m
        PROVE  /\ pos2[j] \in DOMAIN L2 /\ L2[pos2[j]].what = "push"
               /\ L2[pos2[j]].kind = sc2[j].filter /\ Unended(L2, pos2[j])
               /\ Count(L2, "push", pos2[j], Len(L2))
                    = Count(L2, "pop", pos2[j], Len(L2)) + Len(sc2) - j + 1
               /\ Reports(L2, pos2[j], Len(L2), sc2[j].error)
    <2>1. /\ pos[j] \in 1 .. n /\ L[pos[j]].what = "push" /\ L[pos[j]].kind = sc[j].filter
          /\ Unended(L, pos[j])
          /\ Count(L, "push", pos[j], n) = Count(L, "pop", pos[j], n) + m - j + 1
          /\ Count(L, "push", pos[j], n) \in Nat /\ Count(L, "pop", pos[j], n) \in Nat
          /\ Reports(L, pos[j], n, sc[j].error)
      BY <1>1, OpenFacts
    <2>2. /\ Count(L2, "push", pos[j], n + 1) = Count(L, "push", pos[j], n) + 1
          /\ Count(L2, "pop", pos[j], n + 1) = Count(L, "pop", pos[j], n)
      BY <2>1, CountNext
    <2>3. Count(L2, "push", pos[j], n + 1) > Count(L2, "pop", pos[j], n + 1)
      BY <1>2, <2>1, <2>2
    <2>4. Unended(L2, pos[j])
      BY <2>1, <2>3, UnendedNext
    <2>5. Reports(L2, pos[j], n + 1, sc[j].error)
      BY <1>4, <2>1, ReportsNext
    <2>6. Count(L2, "push", pos[j], n + 1) = Count(L2, "pop", pos[j], n + 1) + (m + 1) - j + 1
      BY <1>2, <2>1, <2>2
    <2>. QED
      BY <1>1, <1>2, <1>3, <2>1, <2>4, <2>5, <2>6
  <1>7. /\ pos2[m + 1] \in DOMAIN L2 /\ L2[pos2[m + 1]].what = "push"
        /\ L2[pos2[m + 1]].kind = sc2[m + 1].filter /\ Unended(L2, pos2[m + 1])
        /\ Count(L2, "push", pos2[m + 1], Len(L2))
             = Count(L2, "pop", pos2[m + 1], Len(L2)) + Len(sc2) - (m + 1) + 1
        /\ Reports(L2, pos2[m + 1], Len(L2), sc2[m + 1].error)
    <2>1. n + 1 \in Nat /\ L2[n + 1].what = "push"
      BY <1>1
    <2>2. Count(L2, "push", n + 1, n + 1) = 1 /\ Count(L2, "pop", n + 1, n + 1) = 0
      BY <2>1, CountNew
    <2>3. Unended(L2, n + 1)
      BY <1>1, <2>2 DEF Unended
    <2>4. Errors(L2, n + 1, n + 1) = {}
      BY <1>1 DEF Errors
    <2>5. Reports(L2, n + 1, n + 1, 0)
      BY <2>4 DEF Reports
    <2>6. Count(L2, "push", n + 1, n + 1) = Count(L2, "pop", n + 1, n + 1) + (m + 1) - (m + 1) + 1
      BY <1>2, <2>2
    <2>. QED
      BY <1>1, <1>2, <1>3, <2>1, <2>3, <2>5, <2>6
  <1>8. \A j \in 1 .. m + 1 : j \in 1 .. m \/ j = m + 1
    BY <1>2
  <1>9. \A j, k \in 1 .. m + 1 : j < k => pos2[j] < pos2[k]
    <2>1. SUFFICES ASSUME NEW j \in 1 .. m + 1, NEW k \in 1 .. m + 1, j < k
                   PROVE  pos2[j] < pos2[k]
      OBVIOUS
    <2>2. j \in 1 .. m /\ pos[j] \in 1 .. n
      BY <1>1, <1>2, <2>1, OpenFacts
    <2>3. CASE k \in 1 .. m
      BY <1>1, <1>3, <2>1, <2>2, <2>3, OpenFacts
    <2>4. CASE k = m + 1
      BY <1>1, <1>3, <2>2, <2>4
    <2>. QED
      BY <1>8, <2>3, <2>4
  <1>10. ASSUME NEW q \in DOMAIN L2, L2[q].what = "push", \A j \in 1 .. m + 1 : pos2[j] # q
         PROVE  \E c \in DOMAIN L2 : Closing(L2, q, c)
    <2>1. q # n + 1
      BY <1>2, <1>3, <1>10
    <2>2. q \in 1 .. n /\ \A j \in 1 .. m : pos[j] # q
      BY <1>1, <1>2, <1>3, <1>10, <2>1
    <2>. QED
      BY <1>10, <2>2, OthersClosed
  <1>11. Nested(L2, sc2, pos2)
    BY <1>2, <1>6, <1>7, <1>8, <1>9, <1>10 DEF Nested
  <1>12. Innermost(sc2)
    <2>1. SUFFICES ASSUME NEW k \in 0 .. m + 1, NEW kind \in Kinds
                   PROVE  \/ \A i \in 1 .. k : sc2[i].filter # kind
                          \/ \E i \in 1 .. k : /\ sc2[i].filter = kind
                               /\ \A j \in 1 .. k : sc2[j].filter = kind => j <= i
      BY <1>2 DEF Innermost
    <2>2. CASE k \in 0 .. m
      <3>1. \A i \in 1 .. k : i \in 1 .. m
        BY <1>2, <2>2
      <3>2. \A i \in 1 .. k : sc2[i] = sc[i]
        BY <1>2, <3>1
      <3>3. \/ \A i \in 1 .. k : sc[i].filter # kind
            \/ \E i \in 1 .. k : /\ sc[i].filter = kind
                                 /\ \A j \in 1 .. k : sc[j].filter = kind => j <= i
        BY <2>2 DEF Known, Innermost
      <3>. QED
        BY <3>2, <3>3
    <2>3. CASE k = m + 1 /\ s.filter = kind
      <3>1. m + 1 \in 1 .. k /\ \A j \in 1 .. k : j <= m + 1
        BY <1>2, <2>3
      <3>. QED
        BY <1>2, <2>3, <3>1
    <2>4. CASE k = m + 1 /\ s.filter # kind
      <3>1. m \in 0 .. m /\ \A i \in 1 .. m : i \in 1 .. k
        BY <1>2, <2>4
      <3>2. CASE \A i \in 1 .. m : sc[i].filter # kind
        BY <1>2, <1>8, <2>4, <3>2
      <3>3. CASE \E i \in 1 .. m : /\ sc[i].filter = kind
                                   /\ \A j \in 1 .. m : sc[j].filter = kind => j <= i
        <4>1. PICK i \in 1 .. m : /\ sc[i].filter = kind
                                  /\ \A j \in 1 .. m : sc[j].filter = kind => j <= i
          BY <3>3
        <4>2. i \in 1 .. k /\ sc2[i].filter = kind
          BY <1>2, <3>1, <4>1
        <4>3. ASSUME NEW j \in 1 .. k, sc2[j].filter = kind PROVE j <= i
          <5>1. j \in 1 .. m
            BY <1>2, <1>8, <2>4, <4>3
          <5>. QED
            BY <1>2, <4>1, <4>3, <5>1
        <4>. QED
          BY <4>2, <4>3
      <3>. QED
        BY <3>1, <3>2, <3>3 DEF Known, Innermost
    <2>. QED
      BY <1>2, <2>2, <2>3, <2>4
  <1>. QED
    BY <1>2, <1>5, <1>11, <1>12 DEF Known, sc2

LEMMA Below ==
  ASSUME NEW S, NEW sc \in Seq(S), sc # <<>>
  PROVE  /\ Len(sc) \in Nat \ {0} /\ Len(sc) \in 1 .. Len(sc)
         /\ SubSeq(sc, 1, Len(sc) - 1) \in Seq(S)
         /\ Len(SubSeq(sc, 1, Len(sc) - 1)) = Len(sc) - 1
         /\ \A j \in 1 .. Len(sc) - 1 :
              SubSeq(sc, 1, Len(sc) - 1)[j] = sc[j] /\ j \in 1 .. Len(sc)
  <1>1. Len(sc) \in Nat \ {0} /\ \A i \in 1 .. Len(sc) : sc[i] \in S
    OBVIOUS
  <1> DEFINE k == Len(sc) - 1
  <1>2. /\ 1 \in Int /\ k \in Int /\ k + 1 = Len(sc) /\ k - 1 + 1 = k
        /\ \A i \in 1 .. k : sc[i] \in S /\ i \in 1 .. Len(sc) /\ 1 + i - 1 = i
        /\ k = IF 1 <= k THEN k - 1 + 1 ELSE 0
    <2>1. k \in Nat /\ k + 1 = Len(sc) /\ k - 1 + 1 = k
      BY <1>1
    <2>. HIDE DEF k
    <2>2. \A i \in 1 .. k : i \in 1 .. Len(sc) /\ 1 + i - 1 = i
      BY <1>1, <2>1
    <2>3. k = IF 1 <= k THEN k - 1 + 1 ELSE 0
      BY <2>1
    <2>. QED
      BY <1>1, <2>1, <2>2, <2>3
  <1>. HIDE DEF k
  <1>3. /\ SubSeq(sc, 1, k) \in Seq(S)
        /\ Len(SubSeq(sc, 1, k)) = IF 1 <= k THEN k - 1 + 1 ELSE 0
        /\ \A i \in 1 .. k - 1 + 1 : SubSeq(sc, 1, k)[i] = sc[1 + i - 1]
    BY <1>2, SubSeqProperties
  <1>4. \A i \in 1 .. k : SubSeq(sc, 1, k)[i] = sc[i]
    BY <1>2, <1>3
  <1>5. Len(sc) \in 1 .. Len(sc)
    BY <1>1
  <1>. QED
    BY <1>1, <1>2, <1>3, <1>4, <1>5 DEF k

\* A pop makes one pop more for every open scope.
LEMMA PopCounts ==
  ASSUME NEW L, NEW ev, NEW L2, Grows(L, ev, L2), NEW sc, NEW pos, Known(L, sc, pos),
         ev.what = "pop", NEW j \in 1 .. Len(sc)
  PROVE  /\ pos[j] \in 1 .. Len(L) /\ L2[pos[j]].what = "push"
         /\ L2[pos[j]].kind = sc[j].filter
         /\ Count(L2, "push", pos[j], Len(L) + 1) \in Nat
         /\ Count(L2, "pop", pos[j], Len(L) + 1) \in Nat
         /\ Count(L2, "push", pos[j], Len(L) + 1)
              = Count(L2, "pop", pos[j], Len(L) + 1) + (Len(sc) - 1) - j + 1
         /\ Reports(L2, pos[j], Len(L) + 1, sc[j].error)
  <1>1. L \in Seq(Events) /\ \A i \in 1 .. Len(L) : L2[i] = L[i]
    BY GrowFacts DEF Grows
  <1>2. Tidy(L)
    BY <1>1, NestedTidy DEF Known
  <1>3. /\ pos[j] \in 1 .. Len(L) /\ L[pos[j]].what = "push" /\ L[pos[j]].kind = sc[j].filter
        /\ Count(L, "push", pos[j], Len(L)) = Count(L, "pop", pos[j], Len(L)) + Len(sc) - j + 1
        /\ Count(L, "push", pos[j], Len(L)) \in Nat /\ Count(L, "pop", pos[j], Len(L)) \in Nat
        /\ Reports(L, pos[j], Len(L), sc[j].error)
    BY <1>1, OpenFacts
  <1>4. /\ Count(L2, "push", pos[j], Len(L) + 1) = Count(L, "push", pos[j], Len(L))
        /\ Count(L2, "pop", pos[j], Len(L) + 1) = Count(L, "pop", pos[j], Len(L)) + 1
    BY <1>3, CountNext
  <1>5. Reports(L2, pos[j], Len(L) + 1, sc[j].error)
    BY <1>2, <1>3, ReportsNext
  <1>6. Len(sc) \in Nat
    BY DEF Known
  <1>7. Count(L2, "push", pos[j], Len(L) + 1)
          = Count(L2, "pop", pos[j], Len(L) + 1) + (Len(sc) - 1) - j + 1
    BY <1>3, <1>4, <1>6
  <1>8. /\ L2[pos[j]].what = "push" /\ L2[pos[j]].kind = sc[j].filter
    BY <1>1, <1>3
  <1>9. /\ Count(L2, "push", pos[j], Len(L) + 1) \in Nat
        /\ Count(L2, "pop", pos[j], Len(L) + 1) \in Nat
    BY <1>3, <1>4
  <1>. QED
    BY <1>3, <1>5, <1>7, <1>8, <1>9

LEMMA PopKnown ==
  ASSUME NEW L, NEW ev, NEW L2, Grows(L, ev, L2), NEW sc, NEW pos, Known(L, sc, pos),
         sc # <<>>, ev.what = "pop", ev.n = sc[Len(sc)].error
  PROVE  Known(L2, SubSeq(sc, 1, Len(sc) - 1), pos)
  <1> DEFINE n == Len(L)
             m == Len(sc)
             sc2 == SubSeq(sc, 1, m - 1)
  <1>1. /\ n \in Nat /\ Len(L2) = n + 1 /\ L2[n + 1] = ev /\ L \in Seq(Events)
        /\ DOMAIN L = 1 .. n /\ DOMAIN L2 = 1 .. n + 1 /\ \A i \in 1 .. n : L2[i] = L[i]
    BY GrowFacts DEF Grows
  <1>2. /\ sc \in Seq(Scopes) /\ m \in Nat \ {0} /\ m \in 1 .. m
        /\ sc2 \in Seq(Scopes) /\ Len(sc2) = m - 1
        /\ \A j \in 1 .. m - 1 : sc2[j] = sc[j] /\ j \in 1 .. m
    <2>1. sc \in Seq(Scopes)
      BY DEF Known
    <2>. QED
      BY <2>1, Below
  <1>. HIDE DEF sc2
  <1>4. ASSUME NEW j \in 1 .. m
        PROVE  /\ pos[j] \in 1 .. n /\ L2[pos[j]].what = "push"
               /\ L2[pos[j]].kind = sc[j].filter
               /\ Count(L2, "push", pos[j], n + 1) \in Nat
               /\ Count(L2, "pop", pos[j], n + 1) \in Nat
               /\ Count(L2, "push", pos[j], n + 1)
                    = Count(L2, "pop", pos[j], n + 1) + (m - 1) - j + 1
               /\ Reports(L2, pos[j], n + 1, sc[j].error)
    BY PopCounts
  <1>5. ASSUME NEW j \in 1 .. m - 1
        PROVE  Unended(L2, pos[j]) /\ Closed(L2, pos[j]) = n + 2
    <2>1. /\ pos[j] \in 1 .. n /\ Unended(L, pos[j]) /\ Ends(L, pos[j]) = {}
      BY <1>1, <1>2, OpenFacts
    <2>2. Count(L2, "push", pos[j], n + 1) > Count(L2, "pop", pos[j], n + 1)
      <3>1. /\ Count(L2, "push", pos[j], n + 1) \in Nat
            /\ Count(L2, "pop", pos[j], n + 1) \in Nat
            /\ Count(L2, "push", pos[j], n + 1)
                    = Count(L2, "pop", pos[j], n + 1) + (m - 1) - j + 1
        BY <1>2, <1>4
      <3>. QED
        BY <1>2, <3>1
    <2>3. Unended(L2, pos[j])
      BY <2>1, <2>2, UnendedNext
    <2>4. Ends(L2, pos[j]) = {}
      <3>1. L2 \in Seq(Events) /\ pos[j] \in 1 .. Len(L2)
        BY <1>1, <2>1, GrowFacts
      <3>. QED
        BY <2>3, <3>1, UnendedEnds
    <2>. QED
      BY <1>1, <2>3, <2>4 DEF Closed
  <1>6. Closing(L2, pos[m], n + 1) /\ Closed(L2, pos[m]) = n + 1
    <2>1. pos[m] \in 1 .. n /\ Ends(L, pos[m]) = {}
      BY <1>1, <1>2, OpenFacts
    <2>2. /\ Count(L2, "push", pos[m], n + 1) \in Nat
          /\ Count(L2, "pop", pos[m], n + 1) \in Nat
          /\ Count(L2, "push", pos[m], n + 1)
                    = Count(L2, "pop", pos[m], n + 1) + (m - 1) - m + 1
      BY <1>2, <1>4
    <2>3. Level(L2, pos[m], n + 1)
      BY <1>2, <2>2 DEF Level
    <2>. QED
      BY <2>1, <2>3, ClosedNext
  <1>7. PastAt(L2, n + 1)
    <2>1. pos[m] \in 1 .. (n + 1) - 1 /\ L2[pos[m]].what = "push"
      BY <1>1, <1>2, <1>4
    <2>2. ASSUME NEW r \in 1 .. (n + 1) - 1, L2[r].what = "push", Closed(L2, r) = n + 1
          PROVE  r = pos[m]
      <3>1. r \in 1 .. n
        BY <1>1
      <3>2. \E j \in 1 .. m : pos[j] = r
        <4>1. n + 1 \notin 1 .. n
          BY <1>1
        <4>. QED
          BY <2>2, <3>1, <4>1, OthersClosed
      <3>3. PICK j \in 1 .. m : pos[j] = r
        BY <3>2
      <3>4. CASE j = m
        BY <3>3, <3>4
      <3>5. CASE j # m
        <4>1. j \in 1 .. m - 1
          BY <1>2, <3>5
        <4>2. n + 2 # n + 1
          BY <1>1
        <4>. QED
          BY <1>5, <2>2, <3>3, <4>1, <4>2
      <3>. QED
        BY <3>4, <3>5
    <2>3. Reports(L2, pos[m], n + 1, L2[n + 1].n)
      BY <1>1, <1>2, <1>4
    <2>. QED
      BY <1>1, <1>6, <2>1, <2>2, <2>3 DEF PastAt
  <1>8. Past(L2)
    BY <1>7, PastGrows
  <1>9. Nested(L2, sc2, pos)
    <2>1. ASSUME NEW j \in 1 .. m - 1
          PROVE  /\ pos[j] \in DOMAIN L2 /\ L2[pos[j]].what = "push"
                 /\ L2[pos[j]].kind = sc2[j].filter /\ Unended(L2, pos[j])
                 /\ Count(L2, "push", pos[j], Len(L2))
                      = Count(L2, "pop", pos[j], Len(L2)) + Len(sc2) - j + 1
                 /\ Reports(L2, pos[j], Len(L2), sc2[j].error)
      <3>1. j \in 1 .. m /\ sc2[j] = sc[j]
        BY <1>2
      <3>2. /\ pos[j] \in 1 .. n /\ L2[pos[j]].what = "push"
            /\ L2[pos[j]].kind = sc[j].filter
            /\ Count(L2, "push", pos[j], n + 1)
                 = Count(L2, "pop", pos[j], n + 1) + (m - 1) - j + 1
            /\ Reports(L2, pos[j], n + 1, sc[j].error)
        BY <1>4, <3>1
      <3>3. pos[j] \in DOMAIN L2
        BY <1>1, <3>2
      <3>. QED
        BY <1>1, <1>2, <1>5, <3>1, <3>2, <3>3
    <2>2. \A j, k \in 1 .. m - 1 : j < k => pos[j] < pos[k]
      BY <1>2 DEF Known, Nested
    <2>3. ASSUME NEW q \in DOMAIN L2, L2[q].what = "push", \A j \in 1 .. m - 1 : pos[j] # q
          PROVE  \E c \in DOMAIN L2 : Closing(L2, q, c)
      <3>1. q # n + 1
        BY <1>1, <2>3
      <3>2. q \in 1 .. n
        BY <1>1, <3>1
      <3>3. CASE q = pos[m]
        BY <1>1, <1>6, <3>3
      <3>4. CASE q # pos[m]
        <4>1. \A j \in 1 .. m : j \in 1 .. m - 1 \/ j = m
          BY <1>2
        <4>2. \A j \in 1 .. m : pos[j] # q
          BY <2>3, <3>4, <4>1
        <4>. QED
          BY <2>3, <3>2, <4>2, OthersClosed
      <3>. QED
        BY <3>3, <3>4
    <2>. QED
      BY <1>2, <2>1, <2>2, <2>3 DEF Nested
  <1>10. Innermost(sc2)
    <2>1. ASSUME NEW k \in 0 .. m - 1 PROVE k \in 0 .. m /\ \A i \in 1 .. k : i \in 1 .. m - 1
      BY <1>2
    <2>2. SUFFICES ASSUME NEW k \in 0 .. m - 1, NEW kind \in Kinds
                   PROVE  \/ \A i \in 1 .. k : sc2[i].filter # kind
                          \/ \E i \in 1 .. k : /\ sc2[i].filter = kind
                               /\ \A j \in 1 .. k : sc2[j].filter = kind => j <= i
      BY <1>2 DEF Innermost
    <2>3. \A i \in 1 .. k : sc2[i] = sc[i]
      BY <1>2, <2>1
    <2>4. \/ \A i \in 1 .. k : sc[i].filter # kind
          \/ \E i \in 1 .. k : /\ sc[i].filter = kind
                               /\ \A j \in 1 .. k : sc[j].filter = kind => j <= i
      BY <2>1 DEF Known, Innermost
    <2>. QED
      BY <2>3, <2>4
  <1>. QED
    BY <1>2, <1>8, <1>9, <1>10 DEF Known, sc2

\* The innermost scope that matches a kind.
Matches(sc, kind, i) ==
  /\ i \in 1 .. Len(sc) /\ sc[i].filter = kind
  /\ \A j \in 1 .. Len(sc) : sc[j].filter = kind => j <= i

\* What an error leaves of the counts.
LEMMA ErrorCounts ==
  ASSUME NEW L, NEW ev, NEW L2, Grows(L, ev, L2), NEW sc, NEW pos, Known(L, sc, pos),
         ev.what = "error", NEW j \in 1 .. Len(sc)
  PROVE  /\ pos[j] \in 1 .. Len(L) /\ L2[pos[j]].what = "push"
         /\ L2[pos[j]].kind = sc[j].filter
         /\ Unended(L2, pos[j]) /\ Closed(L2, pos[j]) = Len(L) + 2
         /\ Count(L2, "push", pos[j], Len(L) + 1)
              = Count(L2, "pop", pos[j], Len(L) + 1) + Len(sc) - j + 1
         /\ Reports(L, pos[j], Len(L), sc[j].error)
  <1>1. /\ L \in Seq(Events) /\ \A i \in 1 .. Len(L) : L2[i] = L[i]
        /\ L2 \in Seq(Events) /\ Len(L2) = Len(L) + 1 /\ Len(L) \in Nat
    BY GrowFacts DEF Grows
  <1>2. /\ pos[j] \in 1 .. Len(L) /\ L[pos[j]].what = "push" /\ L[pos[j]].kind = sc[j].filter
        /\ Unended(L, pos[j])
        /\ Count(L, "push", pos[j], Len(L)) = Count(L, "pop", pos[j], Len(L)) + Len(sc) - j + 1
        /\ Count(L, "push", pos[j], Len(L)) \in Nat /\ Count(L, "pop", pos[j], Len(L)) \in Nat
        /\ Reports(L, pos[j], Len(L), sc[j].error)
    BY <1>1, OpenFacts
  <1>3. /\ Count(L2, "push", pos[j], Len(L) + 1) = Count(L, "push", pos[j], Len(L))
        /\ Count(L2, "pop", pos[j], Len(L) + 1) = Count(L, "pop", pos[j], Len(L))
    BY <1>2, CountNext
  <1>4. Len(sc) \in Nat
    BY DEF Known
  <1>5. Count(L2, "push", pos[j], Len(L) + 1) > Count(L2, "pop", pos[j], Len(L) + 1)
    BY <1>2, <1>3, <1>4
  <1>6. Unended(L2, pos[j])
    BY <1>2, <1>5, UnendedNext
  <1>7. Ends(L2, pos[j]) = {}
    <2>1. pos[j] \in 1 .. Len(L2)
      BY <1>1, <1>2
    <2>. QED
      BY <1>1, <1>6, <2>1, UnendedEnds
  <1>8. Closed(L2, pos[j]) = Len(L) + 2
    BY <1>1, <1>7 DEF Closed
  <1>. QED
    BY <1>1, <1>2, <1>3, <1>6, <1>8

\* The scopes that are open to an error are the open scopes of its kind.
LEMMA ErrorOpen ==
  ASSUME NEW L, NEW ev, NEW L2, Grows(L, ev, L2), NEW sc, NEW pos, Known(L, sc, pos),
         ev.what = "error", NEW s \in 1 .. Len(L) + 1
  PROVE  IsOpen(L2, s, Len(L) + 1)
           <=> \E j \in 1 .. Len(sc) : s = pos[j] /\ sc[j].filter = ev.kind
  <1>1. Len(L) \in Nat /\ L2[Len(L) + 1] = ev
    BY GrowFacts
  <1>2. CASE s = Len(L) + 1
    <2>1. ~IsOpen(L2, s, Len(L) + 1)
      BY <1>1, <1>2 DEF IsOpen
    <2>2. \A j \in 1 .. Len(sc) : pos[j] \in 1 .. Len(L)
      BY ErrorCounts
    <2>. QED
      BY <1>1, <1>2, <2>1, <2>2
  <1>3. CASE s # Len(L) + 1
    <2>1. s \in 1 .. Len(L) /\ s < Len(L) + 1
      BY <1>1, <1>3
    <2>2. CASE \E j \in 1 .. Len(sc) : s = pos[j]
      <3>1. PICK j \in 1 .. Len(sc) : s = pos[j]
        BY <2>2
      <3>2. /\ L2[s].what = "push" /\ L2[s].kind = sc[j].filter
            /\ Closed(L2, s) = Len(L) + 2
        BY <3>1, ErrorCounts
      <3>3. Len(L) + 1 < Closed(L2, s)
        BY <1>1, <3>2
      <3>4. IsOpen(L2, s, Len(L) + 1) <=> sc[j].filter = ev.kind
        BY <1>1, <2>1, <3>2, <3>3 DEF IsOpen
      <3>5. \A k \in 1 .. Len(sc) : pos[k] = pos[j] => k = j
        <4>1. L \in Seq(Events)
          BY DEF Grows
        <4>. QED
          BY <4>1, OpenFacts
      <3>. QED
        BY <3>1, <3>4, <3>5
    <2>3. CASE \A j \in 1 .. Len(sc) : pos[j] # s
      <3>1. ASSUME IsOpen(L2, s, Len(L) + 1) PROVE FALSE
        <4>1. L2[s].what = "push" /\ Len(L) + 1 < Closed(L2, s)
          BY <3>1 DEF IsOpen
        <4>2. Closed(L2, s) \in 1 .. Len(L)
          BY <2>1, <2>3, <4>1, OthersClosed
        <4>. QED
          BY <1>1, <4>1, <4>2
      <3>. QED
        BY <2>3, <3>1
    <2>. QED
      BY <2>2, <2>3
  <1>. QED
    BY <1>2, <1>3

\* The error belongs to the innermost of them.
LEMMA ErrorWithin ==
  ASSUME NEW L, NEW ev, NEW L2, Grows(L, ev, L2), NEW sc, NEW pos, Known(L, sc, pos),
         ev.what = "error", NEW q \in 1 .. Len(L)
  PROVE  Within(L2, Len(L) + 1, q)
           <=> \E i \in 1 .. Len(sc) : Matches(sc, ev.kind, i) /\ q = pos[i]
  <1>1. Len(L) \in Nat /\ L \in Seq(Events)
    BY GrowFacts DEF Grows
  <1>2. Len(sc) \in Nat
    BY DEF Known
  <1>3. \A j \in 1 .. Len(sc) : pos[j] \in 1 .. Len(L)
    BY ErrorCounts
  <1>4. ASSUME Within(L2, Len(L) + 1, q)
        PROVE  \E i \in 1 .. Len(sc) : Matches(sc, ev.kind, i) /\ q = pos[i]
    <2>1. q \in 1 .. Len(L) + 1 /\ IsOpen(L2, q, Len(L) + 1)
      BY <1>1, <1>4 DEF Within
    <2>2. PICK i \in 1 .. Len(sc) : q = pos[i] /\ sc[i].filter = ev.kind
      BY <2>1, ErrorOpen
    <2>3. ASSUME NEW j \in 1 .. Len(sc), sc[j].filter = ev.kind, ~(j <= i)
          PROVE  FALSE
      <3>1. i < j
        BY <1>2, <2>3
      <3>2. pos[i] < pos[j]
        BY <1>1, <3>1, OpenFacts
      <3>3. pos[j] \in q + 1 .. Len(L) + 1 /\ pos[j] \in 1 .. Len(L) + 1
        BY <1>1, <1>3, <2>2, <3>2
      <3>4. IsOpen(L2, pos[j], Len(L) + 1)
        BY <2>3, <3>3, ErrorOpen
      <3>. QED
        BY <1>4, <3>3, <3>4 DEF Within
    <2>. QED
      BY <2>2, <2>3 DEF Matches
  <1>5. ASSUME NEW i \in 1 .. Len(sc), Matches(sc, ev.kind, i), q = pos[i]
        PROVE  Within(L2, Len(L) + 1, q)
    <2>1. q \in 1 .. Len(L) + 1 /\ sc[i].filter = ev.kind
      BY <1>1, <1>5 DEF Matches
    <2>2. IsOpen(L2, q, Len(L) + 1)
      BY <1>5, <2>1, ErrorOpen
    <2>3. ASSUME NEW s \in q + 1 .. Len(L) + 1, IsOpen(L2, s, Len(L) + 1)
          PROVE  FALSE
      <3>1. s \in 1 .. Len(L) + 1 /\ q < s
        BY <1>1, <2>3
      <3>2. PICK j \in 1 .. Len(sc) : s = pos[j] /\ sc[j].filter = ev.kind
        BY <2>3, <3>1, ErrorOpen
      <3>3. j <= i
        BY <1>5, <3>2 DEF Matches
      <3>4. j = i \/ j < i
        BY <1>2, <3>3
      <3>5. pos[j] = pos[i] \/ pos[j] < pos[i]
        BY <1>1, <3>4, OpenFacts
      <3>. QED
        BY <1>1, <1>3, <1>5, <3>1, <3>2, <3>5
    <2>. QED
      BY <2>2, <2>3 DEF Within
  <1>. QED
    BY <1>4, <1>5

LEMMA ErrorKnown ==
  ASSUME NEW L, NEW ev, NEW L2, Grows(L, ev, L2), NEW sc, NEW pos, Known(L, sc, pos),
         ev.what = "error",
         ev.n = 1 <=> \E i \in 1 .. Len(sc) : Matches(sc, ev.kind, i),
         NEW sc2 \in Seq(Scopes), Len(sc2) = Len(sc),
         \A j \in 1 .. Len(sc) :
           /\ sc2[j].filter = sc[j].filter
           /\ ~Matches(sc, ev.kind, j) => sc2[j].error = sc[j].error
           /\ Matches(sc, ev.kind, j) =>
                sc2[j].error = IF sc[j].error = 0 THEN Len(L) + 1 ELSE sc[j].error
  PROVE  Known(L2, sc2, pos)
  <1> DEFINE n == Len(L)
             m == Len(sc)
  <1>1. /\ n \in Nat /\ Len(L2) = n + 1 /\ L2[n + 1] = ev /\ L \in Seq(Events)
        /\ DOMAIN L = 1 .. n /\ DOMAIN L2 = 1 .. n + 1 /\ \A i \in 1 .. n : L2[i] = L[i]
    BY GrowFacts DEF Grows
  <1>2. m \in Nat /\ \A j \in 1 .. m : pos[j] \in 1 .. n
    BY ErrorCounts DEF Known
  <1>3. Tidy(L)
    BY <1>1, NestedTidy DEF Known
  <1>4. PastAt(L2, n + 1)
    <2>1. ASSUME NEW i \in 1 .. m, Matches(sc, ev.kind, i)
          PROVE  \E q \in 1 .. (n + 1) - 1 : Within(L2, n + 1, q)
      <3>1. pos[i] \in 1 .. n /\ pos[i] \in 1 .. (n + 1) - 1
        BY <1>1, <1>2
      <3>. QED
        BY <2>1, <3>1, ErrorWithin
    <2>2. ASSUME NEW q \in 1 .. (n + 1) - 1, Within(L2, n + 1, q)
          PROVE  \E i \in 1 .. m : Matches(sc, ev.kind, i)
      <3>1. q \in 1 .. n
        BY <1>1
      <3>. QED
        BY <2>2, <3>1, ErrorWithin
    <2>. QED
      BY <1>1, <2>1, <2>2 DEF PastAt
  <1>5. Past(L2)
    BY <1>4, PastGrows
  <1>6. ASSUME NEW j \in 1 .. m
        PROVE  Reports(L2, pos[j], n + 1, sc2[j].error)
    <2>1. Reports(L, pos[j], n, sc[j].error) /\ pos[j] \in 1 .. n
      BY <1>2, ErrorCounts
    <2>2. \A i \in 1 .. m : pos[i] = pos[j] => i = j
      BY <1>1, OpenFacts
    <2>3. Within(L2, n + 1, pos[j]) <=> Matches(sc, ev.kind, j)
      BY <2>1, <2>2, ErrorWithin
    <2>4. CASE ~Matches(sc, ev.kind, j)
      BY <1>3, <2>1, <2>3, <2>4, ReportsNext
    <2>5. CASE Matches(sc, ev.kind, j)
      <3>1. Errors(L2, pos[j], n + 1) = Errors(L, pos[j], n) \cup {n + 1}
        <4>1. ASSUME NEW e \in pos[j] .. n + 1
              PROVE  (e \in 1 .. n /\ e \in pos[j] .. n) \/ e = n + 1
          BY <1>1, <2>1
        <4>2. \A e \in pos[j] .. n : e \in 1 .. n /\ e \in pos[j] .. n + 1
          BY <1>1, <2>1
        <4>3. n + 1 \in pos[j] .. n + 1 /\ L2[n + 1].what = "error"
          BY <1>1, <2>1
        <4>4. \A e \in 1 .. n : Within(L2, e, pos[j]) <=> Within(L, e, pos[j])
          BY <1>3, <2>1, WithinSame
        <4>. QED
          BY <1>1, <2>3, <2>5, <4>1, <4>2, <4>3, <4>4 DEF Errors
      <3>2. \A e \in Errors(L, pos[j], n) : e # 0 /\ e <= n + 1
        BY <1>1, <2>1 DEF Errors
      <3>3. CASE sc[j].error = 0
        <4>1. Errors(L, pos[j], n) = {}
          BY <2>1, <3>2, <3>3 DEF Reports
        <4>2. sc2[j].error = n + 1
          BY <2>5, <3>3
        <4>. QED
          BY <1>1, <3>1, <4>1, <4>2 DEF Reports
      <3>4. CASE sc[j].error # 0
        <4>1. /\ sc[j].error \in Errors(L, pos[j], n)
              /\ \A e \in Errors(L, pos[j], n) : sc[j].error <= e
          BY <2>1, <3>4 DEF Reports
        <4>2. sc2[j].error = sc[j].error /\ sc[j].error <= n + 1
          BY <2>5, <3>2, <3>4, <4>1
        <4>. QED
          BY <3>1, <4>1, <4>2 DEF Reports
      <3>. QED
        BY <3>3, <3>4
    <2>. QED
      BY <2>4, <2>5
  <1>7. Nested(L2, sc2, pos)
    <2>1. ASSUME NEW j \in 1 .. m
          PROVE  /\ pos[j] \in DOMAIN L2 /\ L2[pos[j]].what = "push"
                 /\ L2[pos[j]].kind = sc2[j].filter /\ Unended(L2, pos[j])
                 /\ Count(L2, "push", pos[j], Len(L2))
                      = Count(L2, "pop", pos[j], Len(L2)) + Len(sc2) - j + 1
                 /\ Reports(L2, pos[j], Len(L2), sc2[j].error)
      <3>1. /\ pos[j] \in 1 .. n /\ L2[pos[j]].what = "push"
            /\ L2[pos[j]].kind = sc[j].filter /\ Unended(L2, pos[j])
            /\ Count(L2, "push", pos[j], n + 1)
                 = Count(L2, "pop", pos[j], n + 1) + m - j + 1
        <4>1. /\ pos[j] \in 1 .. n /\ L2[pos[j]].what = "push"
              /\ L2[pos[j]].kind = sc[j].filter /\ Unended(L2, pos[j])
          BY ErrorCounts
        <4>2. Count(L2, "push", pos[j], Len(L) + 1)
                = Count(L2, "pop", pos[j], Len(L) + 1) + Len(sc) - j + 1
          BY ErrorCounts
        <4>. QED
          BY <4>1, <4>2
      <3>2. pos[j] \in DOMAIN L2
        BY <1>1, <3>1
      <3>. QED
        BY <1>1, <1>6, <3>1, <3>2
    <2>2. \A j, k \in 1 .. m : j < k => pos[j] < pos[k]
      BY DEF Known, Nested
    <2>3. ASSUME NEW q \in DOMAIN L2, L2[q].what = "push", \A j \in 1 .. m : pos[j] # q
          PROVE  \E c \in DOMAIN L2 : Closing(L2, q, c)
      <3>1. q # n + 1
        BY <1>1, <2>3
      <3>2. q \in 1 .. n
        BY <1>1, <3>1
      <3>. QED
        BY <2>3, <3>2, OthersClosed
    <2>. QED
      BY <2>1, <2>2, <2>3 DEF Nested
  <1>8. Innermost(sc2)
    <2>1. SUFFICES ASSUME NEW k \in 0 .. m, NEW kind \in Kinds
                   PROVE  \/ \A i \in 1 .. k : sc2[i].filter # kind
                          \/ \E i \in 1 .. k : /\ sc2[i].filter = kind
                               /\ \A j \in 1 .. k : sc2[j].filter = kind => j <= i
      BY DEF Innermost
    <2>2. \A i \in 1 .. k : i \in 1 .. m
      BY <1>2
    <2>3. \A i \in 1 .. k : sc2[i].filter = sc[i].filter
      BY <2>2
    <2>4. \/ \A i \in 1 .. k : sc[i].filter # kind
          \/ \E i \in 1 .. k : /\ sc[i].filter = kind
                               /\ \A j \in 1 .. k : sc[j].filter = kind => j <= i
      BY DEF Known, Innermost
    <2>. QED
      BY <2>3, <2>4
  <1>. QED
    BY <1>5, <1>7, <1>8 DEF Known

-----------------------------------------------------------------------------
(* The scopes of a thread                                                  *)

ScopeInv ==
  \A t \in Threads :
    /\ log[t] \in Seq(Events)
    /\ \E pos : Known(log[t], scopes[t], pos)

\* What a step may do to one thread's scopes.
Extends(t, ev, sc2) ==
  /\ ev \in Events
  /\ log' = [log EXCEPT ![t] = Append(@, ev)]
  /\ scopes' = [scopes EXCEPT ![t] = sc2]

LEMMA ScopeChange ==
  ASSUME SinkType, ScopeInv, NEW t \in Threads, NEW ev, NEW sc2, Extends(t, ev, sc2),
         \A L2 : Grows(log[t], ev, L2) => \E pos : Known(L2, sc2, pos)
  PROVE  SinkType' /\ ScopeInv'
  <1> DEFINE L2 == Append(log[t], ev)
  <1>1. Grows(log[t], ev, L2) /\ log' = [log EXCEPT ![t] = L2]
    BY DEF SinkType, Extends, Grows
  <1>2. L2 \in Seq(Events)
    BY <1>1, GrowFacts
  <1>. HIDE DEF L2
  <1>3. \E pos : Known(L2, sc2, pos)
    BY <1>1
  <1>4. sc2 \in Seq(Scopes)
    BY <1>3 DEF Known
  <1>5. scopes' = [scopes EXCEPT ![t] = sc2]
    BY DEF Extends
  <1>6. SinkType'
    BY <1>1, <1>2, <1>4, <1>5 DEF SinkType
  <1>7. /\ log'[t] = L2 /\ scopes'[t] = sc2
        /\ \A u \in Threads : u # t => log'[u] = log[u] /\ scopes'[u] = scopes[u]
    BY <1>1, <1>5 DEF SinkType
  <1>8. ScopeInv'
    BY <1>2, <1>3, <1>7 DEF ScopeInv
  <1>. QED
    BY <1>6, <1>8

LEMMA ScopePush ==
  ASSUME SinkType, ScopeInv, NEW t \in Threads, NEW filter \in Kinds, PushErrorScope(t, filter)
  PROVE  SinkType' /\ ScopeInv'
  <1> DEFINE ev == Event("push", filter, 0)
             s == [filter |-> filter, error |-> 0]
  <1>1. /\ ev \in Events /\ ev.what = "push" /\ ev.kind = filter
        /\ s \in Scopes /\ s.filter = filter /\ s.error = 0
    BY DEF Event, Events, Scopes
  <1>2. Extends(t, ev, Append(scopes[t], s))
    BY <1>1 DEF PushErrorScope, Note, Extends, SinkType
  <1>. HIDE DEF ev, s
  <1>3. ASSUME NEW L2, Grows(log[t], ev, L2)
        PROVE  \E pos : Known(L2, Append(scopes[t], s), pos)
    <2>1. PICK pos : Known(log[t], scopes[t], pos)
      BY DEF ScopeInv
    <2>. QED
      BY <1>1, <1>3, <2>1, PushKnown
  <1>. QED
    BY <1>2, <1>3, ScopeChange

LEMMA ScopePop ==
  ASSUME SinkType, ScopeInv, NEW t \in Threads, PopScope(t), scopes[t] # <<>>
  PROVE  SinkType' /\ ScopeInv'
  <1> DEFINE m == Len(scopes[t])
             ev == Event("pop", scopes[t][m].filter, scopes[t][m].error)
             sc2 == SubSeq(scopes[t], 1, m - 1)
  <1>1. scopes[t] \in Seq(Scopes) /\ m \in 1 .. m /\ scopes[t][m] \in Scopes
    BY DEF SinkType
  <1>2. ev \in Events /\ ev.what = "pop" /\ ev.n = scopes[t][m].error
    BY <1>1 DEF Event, Events, Scopes
  <1>3. Extends(t, ev, sc2)
    BY <1>2 DEF PopScope, Note, Extends
  <1>. HIDE DEF ev
  <1>4. ASSUME NEW L2, Grows(log[t], ev, L2)
        PROVE  \E pos : Known(L2, sc2, pos)
    <2>1. PICK pos : Known(log[t], scopes[t], pos)
      BY DEF ScopeInv
    <2>2. Known(L2, SubSeq(scopes[t], 1, Len(scopes[t]) - 1), pos)
      BY <1>2, <1>4, <2>1, PopKnown
    <2>. QED
      BY <2>2
  <1>. HIDE DEF sc2
  <1>. QED
    BY <1>3, <1>4, ScopeChange

\* The scope that dispatch_error finds, if any, is the innermost that matches.
LEMMA Scope ==
  ASSUME NEW t, scopes[t] \in Seq(Scopes), Innermost(scopes[t]), NEW kind \in Kinds
  PROVE  /\ MatchingScope(t, kind) = 0 => \A i \in 1 .. Len(scopes[t]) : ~Matches(scopes[t], kind, i)
         /\ MatchingScope(t, kind) # 0 => Matches(scopes[t], kind, MatchingScope(t, kind))
         /\ \A i, j \in 1 .. Len(scopes[t]) :
              Matches(scopes[t], kind, i) /\ Matches(scopes[t], kind, j) => i = j
  <1> DEFINE sc == scopes[t]
             matching == {i \in DOMAIN sc : sc[i].filter = kind}
  <1>1. Len(sc) \in Nat /\ DOMAIN sc = 1 .. Len(sc) /\ Len(sc) \in 0 .. Len(sc)
    OBVIOUS
  <1>2. MatchingScope(t, kind) = IF matching = {} THEN 0
                                 ELSE CHOOSE i \in matching : \A j \in matching : j <= i
    BY DEF MatchingScope
  <1>3. CASE matching = {}
    BY <1>1, <1>2, <1>3 DEF Matches
  <1>4. CASE matching # {}
    <2>1. \E i \in 1 .. Len(sc) : /\ sc[i].filter = kind
            /\ \A j \in 1 .. Len(sc) : sc[j].filter = kind => j <= i
      <3>1. \/ \A i \in 1 .. Len(sc) : sc[i].filter # kind
            \/ \E i \in 1 .. Len(sc) : /\ sc[i].filter = kind
                 /\ \A j \in 1 .. Len(sc) : sc[j].filter = kind => j <= i
        BY <1>1 DEF Innermost
      <3>. QED
        BY <1>1, <1>4, <3>1
    <2>2. \E i \in matching : \A j \in matching : j <= i
      BY <1>1, <2>1
    <2> DEFINE i == CHOOSE i \in matching : \A j \in matching : j <= i
    <2>3. i \in matching /\ \A j \in matching : j <= i
      BY <2>2
    <2>4. MatchingScope(t, kind) = i
      BY <1>2, <1>4
    <2>. HIDE DEF i
    <2>5. Matches(sc, kind, i)
      BY <1>1, <2>3 DEF Matches
    <2>6. \A j, k \in 1 .. Len(sc) : Matches(sc, kind, j) /\ Matches(sc, kind, k) => j = k
      BY <1>1 DEF Matches
    <2>7. i # 0
      BY <1>1, <2>3
    <2>. QED
      BY <2>4, <2>5, <2>6, <2>7
  <1>. QED
    BY <1>3, <1>4

LEMMA ScopeError ==
  ASSUME SinkType, ScopeInv, NEW t \in Threads, RouteError(t), Top(t).arg \in Kinds
  PROVE  SinkType' /\ ScopeInv'
  <1> DEFINE kind == Top(t).arg
             scope == MatchingScope(t, kind)
             n == Len(log[t]) + 1
             sc == scopes[t]
             ev == Event("error", kind, IF scope = 0 THEN 0 ELSE 1)
             fixed == [sc[scope] EXCEPT !.error = IF @ = 0 THEN n ELSE @]
             sc2 == IF scope = 0 THEN sc ELSE [sc EXCEPT ![scope] = fixed]
  <1>1. sc \in Seq(Scopes) /\ Len(sc) \in Nat /\ n \in Nat
    BY DEF SinkType
  <1>2. Innermost(sc)
    BY DEF ScopeInv, Known
  <1>3. /\ scope = 0 => \A i \in 1 .. Len(sc) : ~Matches(sc, kind, i)
        /\ scope # 0 => Matches(sc, kind, scope)
        /\ \A i, j \in 1 .. Len(sc) : Matches(sc, kind, i) /\ Matches(sc, kind, j) => i = j
    BY <1>1, <1>2, Scope
  <1>4. scope # 0 => scope \in 1 .. Len(sc) /\ sc[scope] \in Scopes
    BY <1>1, <1>3 DEF Matches
  <1>5. ev \in Events /\ ev.what = "error" /\ ev.kind = kind
        /\ ev.n = IF scope = 0 THEN 0 ELSE 1
    BY DEF Event, Events
  <1>6. log' = [log EXCEPT ![t] = Append(@, ev)]
    BY DEF RouteError, Note
  <1>7. scopes' = [scopes EXCEPT ![t] = sc2]
    <2>1. CASE scope = 0
      <3>1. scopes' = scopes
        BY <2>1 DEF RouteError
      <3>. QED
        BY <2>1, <3>1 DEF SinkType
    <2>2. CASE scope # 0
      <3>1. scopes' = [scopes EXCEPT ![t][scope].error = IF @ = 0 THEN n ELSE @]
        BY <2>2 DEF RouteError
      <3>. QED
        BY <2>2, <3>1
    <2>. QED
      BY <2>1, <2>2
  <1>8. Extends(t, ev, sc2)
    BY <1>5, <1>6, <1>7 DEF Extends
  <1>9. scope # 0 => /\ fixed \in Scopes /\ fixed.filter = sc[scope].filter
                     /\ fixed.error = IF sc[scope].error = 0 THEN n ELSE sc[scope].error
    <2>1. SUFFICES ASSUME scope # 0
                   PROVE  /\ fixed \in Scopes /\ fixed.filter = sc[scope].filter
                          /\ fixed.error = IF sc[scope].error = 0 THEN n ELSE sc[scope].error
      OBVIOUS
    <2>2. PICK s \in Scopes : s = sc[scope]
      BY <1>4, <2>1
    <2>3. /\ [s EXCEPT !.error = IF @ = 0 THEN n ELSE @] \in Scopes
          /\ [s EXCEPT !.error = IF @ = 0 THEN n ELSE @].filter = s.filter
          /\ [s EXCEPT !.error = IF @ = 0 THEN n ELSE @].error = IF s.error = 0 THEN n ELSE s.error
      <3>. HIDE DEF scope
      <3>. QED
        BY <1>1 DEF Scopes
    <2>. QED
      BY <2>2, <2>3
  <1>. HIDE DEF fixed, scope, kind, ev
  <1>10. /\ sc2 \in Seq(Scopes) /\ Len(sc2) = Len(sc)
         /\ \A j \in 1 .. Len(sc) :
              /\ scope # 0 /\ j = scope => sc2[j] = fixed
              /\ ~(scope # 0 /\ j = scope) => sc2[j] = sc[j]
    <2>1. CASE scope = 0
      BY <1>1, <2>1
    <2>2. CASE scope # 0
      BY <1>1, <1>4, <1>9, <2>2
    <2>. QED
      BY <2>1, <2>2
  <1>. HIDE DEF sc2
  <1>11. \A j \in 1 .. Len(sc) : Matches(sc, kind, j) <=> scope # 0 /\ j = scope
    BY <1>3, <1>4
  <1>12. /\ ev.n = 1 <=> \E i \in 1 .. Len(sc) : Matches(sc, kind, i)
         /\ \A j \in 1 .. Len(sc) :
              /\ sc2[j].filter = sc[j].filter
              /\ ~Matches(sc, kind, j) => sc2[j].error = sc[j].error
              /\ Matches(sc, kind, j) =>
                   sc2[j].error = IF sc[j].error = 0 THEN n ELSE sc[j].error
    <2>1. ev.n = 1 <=> \E i \in 1 .. Len(sc) : Matches(sc, kind, i)
      BY <1>4, <1>5, <1>11
    <2>. QED
      BY <1>9, <1>10, <1>11, <2>1
  <1>13. ASSUME NEW L2, Grows(log[t], ev, L2)
         PROVE  \E pos : Known(L2, sc2, pos)
    <2>1. PICK pos : Known(log[t], sc, pos)
      BY DEF ScopeInv
    <2>3. /\ ev.n = 1 <=> \E i \in 1 .. Len(sc) : Matches(sc, ev.kind, i)
          /\ \A j \in 1 .. Len(sc) :
               /\ sc2[j].filter = sc[j].filter
               /\ ~Matches(sc, ev.kind, j) => sc2[j].error = sc[j].error
               /\ Matches(sc, ev.kind, j) =>
                    sc2[j].error = IF sc[j].error = 0 THEN Len(log[t]) + 1 ELSE sc[j].error
      BY <1>5, <1>12
    <2>. HIDE DEF sc
    <2>2. Known(L2, sc2, pos)
      BY <1>5, <1>10, <1>13, <2>1, <2>3, ErrorKnown
    <2>. QED
      BY <2>2
  <1>. QED
    BY <1>8, <1>13, ScopeChange

LEMMA ScopeSame ==
  ASSUME SinkType, ScopeInv, UNCHANGED <<scopes, log>>
  PROVE  SinkType' /\ ScopeInv'
  BY DEF SinkType, ScopeInv

LEMMA ScopeStep ==
  ASSUME StackType, FrameInv, SinkType, ScopeInv, [Next]_vars
  PROVE  SinkType' /\ ScopeInv'
  <1>1. ASSUME NEW t \in Threads, Step(t) PROVE SinkType' /\ ScopeInv'
    <2>1. CASE RouteError(t)
      <3>1. Top(t) \in Sound /\ Top(t).at = "route"
        BY <2>1, TopSound DEF RouteError, At
      <3>2. Top(t).arg \in Kinds
        BY <3>1 DEF Sound
      <3>. QED
        BY <2>1, <3>2, ScopeError
    <2>2. CASE PopScope(t)
      <3>1. CASE scopes[t] = <<>>
        BY <2>2, <3>1, ScopeSame DEF PopScope
      <3>2. CASE scopes[t] # <<>>
        BY <2>2, <3>2, ScopePop
      <3>. QED
        BY <3>1, <3>2
    <2>3. ~RouteError(t) /\ ~PopScope(t) => UNCHANGED <<scopes, log>>
      <3>1. CASE \/ PopErrorScope(t) \/ DispatchError(t)
                 \/ EnterErrorCallback(t) \/ LeaveErrorCallback(t) \/ ErrorDone(t)
                 \/ WaitIdle(t) \/ TakeLost(t) \/ MarkLost(t) \/ ReadFuture(t)
        BY <3>1 DEF PopErrorScope, DispatchError, EnterErrorCallback, LeaveErrorCallback,
          ErrorDone, WaitIdle, TakeLost, MarkLost, ReadFuture
      <3>2. CASE \/ CompleteDeviceLost(t) \/ FireLost(t) \/ FireWaited(t)
                 \/ LeaveLostCallback(t) \/ ClearErrorCallback(t) \/ ClearWaited(t)
        BY <3>2 DEF CompleteDeviceLost, FireLost, FireWaited, LeaveLostCallback,
          ClearErrorCallback, ClearWaited
      <3>3. CASE \/ GetLostFuture(t) \/ GotLostFuture(t) \/ SubmitTest(t)
                 \/ TakeSubmission(t) \/ SubmitDone(t) \/ ObserveLoss(t)
        BY <3>3 DEF GetLostFuture, GotLostFuture, SubmitTest, TakeSubmission, SubmitDone,
          ObserveLoss
      <3>. QED
        BY <1>1, <3>1, <3>2, <3>3 DEF Step
    <2>. QED
      BY <2>1, <2>2, <2>3, ScopeSame
  <1>2. ASSUME NEW t \in Threads, Begin(t) \/ Release(t) \/ ProcessEvents(t)
        PROVE  SinkType' /\ ScopeInv'
    BY <1>2, ScopeSame DEF Begin, Release, ProcessEvents
  <1>3. ASSUME NEW t \in Threads, NEW filter \in Kinds, PushErrorScope(t, filter)
        PROVE  SinkType' /\ ScopeInv'
    BY <1>3, ScopePush
  <1>4. ASSUME NEW t \in Threads, NEW u \in Threads, AddRef(t, u)
        PROVE  SinkType' /\ ScopeInv'
    BY <1>4, ScopeSame DEF AddRef
  <1>5. CASE UNCHANGED vars
    BY <1>5, ScopeSame DEF vars
  <1>. QED
    BY <1>1, <1>2, <1>3, <1>4, <1>5 DEF Next, Quiet

LEMMA ScopesFollow ==
  ASSUME SinkType, ScopeInv
  PROVE  ScopesTrue
  <1>1. SUFFICES ASSUME NEW t \in Threads, NEW i \in DOMAIN log[t]
        PROVE  /\ log[t][i].what = "error" =>
                    (log[t][i].n = 1 <=> \E q \in 1 .. i - 1 : Belongs(t, i, q))
               /\ log[t][i].what = "pop" =>
                    LET q == CHOOSE q \in 1 .. i - 1 : log[t][q].what = "push" /\ ClosedAt(t, q) = i
                        mine == {e \in q .. i : log[t][e].what = "error" /\ Belongs(t, e, q)}
                    IN  IF mine = {} THEN log[t][i].n = 0
                        ELSE log[t][i].n \in mine /\ \A e \in mine : log[t][i].n <= e
    <2>1. \A what : (what = "error" => what # "pop") /\ (what = "pop" => what # "error")
      OBVIOUS
    <2>. QED
      BY <1>1, <2>1 DEF ScopesTrue
  <1>2. PastAt(log[t], i)
    BY DEF ScopeInv, Known, Past
  <1>3. /\ \A q : ClosedAt(t, q) = Closed(log[t], q)
        /\ \A e, q : Belongs(t, e, q) = Within(log[t], e, q)
    BY Reference
  <1>4. ASSUME log[t][i].what = "error"
        PROVE  log[t][i].n = 1 <=> \E q \in 1 .. i - 1 : Belongs(t, i, q)
    BY <1>2, <1>3, <1>4 DEF PastAt
  <1>5. ASSUME log[t][i].what = "pop"
        PROVE  LET q == CHOOSE q \in 1 .. i - 1 : log[t][q].what = "push" /\ ClosedAt(t, q) = i
                   mine == {e \in q .. i : log[t][e].what = "error" /\ Belongs(t, e, q)}
               IN  IF mine = {} THEN log[t][i].n = 0
                   ELSE log[t][i].n \in mine /\ \A e \in mine : log[t][i].n <= e
    <2> DEFINE q == CHOOSE q \in 1 .. i - 1 : log[t][q].what = "push" /\ ClosedAt(t, q) = i
               mine == {e \in q .. i : log[t][e].what = "error" /\ Belongs(t, e, q)}
    <2>1. PICK r \in 1 .. i - 1 :
            /\ log[t][r].what = "push" /\ Closed(log[t], r) = i
            /\ \A s \in 1 .. i - 1 : (log[t][s].what = "push" /\ Closed(log[t], s) = i) => s = r
            /\ Reports(log[t], r, i, log[t][i].n)
      BY <1>2, <1>5 DEF PastAt
    <2>2. q \in 1 .. i - 1 /\ log[t][q].what = "push" /\ ClosedAt(t, q) = i
      BY <1>3, <2>1
    <2>. HIDE DEF q
    <2>3. q = r
      BY <1>3, <2>1, <2>2
    <2>4. mine = Errors(log[t], r, i)
      BY <1>3, <2>3 DEF Errors
    <2>. HIDE DEF mine
    <2>5. IF mine = {} THEN log[t][i].n = 0
          ELSE log[t][i].n \in mine /\ \A e \in mine : log[t][i].n <= e
      BY <2>1, <2>4 DEF Reports
    <2>. QED
      BY <2>5 DEF mine, q
  <1>. QED
    BY <1>4, <1>5

-----------------------------------------------------------------------------
(* Theorems                                                                *)

Inv == StackType /\ RestType /\ FrameInv /\ FireInv /\ SettledInv

LEMMA InvInit ==
  ASSUME Init
  PROVE  Inv /\ SinkType /\ CallbackInv /\ ScopeInv
  <1>1. \A u \in Threads : stack[u] = <<>> /\ DOMAIN stack[u] = {}
    BY DEF Init
  <1>2. StackType /\ SinkType
    BY DEF Init, StackType, SinkType
  <1>3. RestType
    <2>1. held \in [Threads -> Nat]
      BY DEF Init
    <2>2. active \in [Threads -> Int] /\ cleared \subseteq Threads
      BY DEF Init
    <2>3. calls \in Nat /\ fired \in Nat
      BY DEF Init
    <2>4. /\ reason \in {"none", "destroyed"} /\ lost_mode \in Modes
          /\ lost_lock = NoThread /\ submission = NoThread /\ future_lock = NoThread
      BY DEF Init
    <2>5. /\ queue_lost \in BOOLEAN /\ installed \in BOOLEAN
          /\ lost_entry \in BOOLEAN /\ completed \in BOOLEAN /\ ended \in BOOLEAN
      BY DEF Init
    <2>. QED
      BY <2>1, <2>2, <2>3, <2>4, <2>5 DEF RestType
  <1>4. FrameInv /\ FireInv /\ SettledInv
    BY <1>1 DEF Init, FrameInv, FireInv, SettledInv
  <1>5. CallbackInv
    <2>1. \A u \in Threads : InCb(u) = {}
      BY <1>1 DEF InCb
    <2>2. \A u \in Threads : active[u] = Cardinality(InCb(u))
      BY <2>1, FS_EmptySet DEF Init
    <2>. QED
      BY <2>2 DEF Init, CallbackInv, ActiveInv, SilenceInv
  <1>6. ScopeInv
    <2>1. SUFFICES ASSUME NEW t \in Threads
                   PROVE  log[t] \in Seq(Events) /\ Known(log[t], scopes[t], <<>>)
      BY DEF ScopeInv
    <2>2. log[t] = <<>> /\ scopes[t] = <<>>
      BY DEF Init
    <2>3. Nested(<<>>, <<>>, <<>>)
      <3>1. DOMAIN <<>> = {} /\ 1 .. Len(<<>>) = {}
        OBVIOUS
      <3>. QED
        BY <3>1 DEF Nested
    <2>4. Past(<<>>)
      BY DEF Past
    <2>5. Innermost(<<>>)
      BY DEF Innermost
    <2>. QED
      BY <2>2, <2>3, <2>4, <2>5 DEF Known
  <1>. QED
    BY <1>2, <1>3, <1>4, <1>5, <1>6 DEF Inv

LEMMA InvStep ==
  ASSUME Inv, [Next]_vars
  PROVE  Inv'
  BY StackStep, RestStep, FrameStep, FireStep, SettledStep DEF Inv

LEMMA InvHolds == Spec => []Inv
  <1>1. Init => Inv
    BY InvInit
  <1>2. Inv /\ [Next]_vars => Inv'
    BY InvStep
  <1>. QED
    BY <1>1, <1>2, PTL DEF Spec

\* Every variable keeps its type, and every open call has one of the labels at which
\* the code can be: for any number of threads and nested calls.
THEOREM Types == Spec => []TypeOK
  <1>1. Init => SinkType /\ ScopeInv
    BY InvInit
  <1>2. Inv /\ SinkType /\ ScopeInv /\ [Next]_vars => SinkType' /\ ScopeInv'
    BY ScopeStep DEF Inv
  <1>3. Inv /\ SinkType => TypeOK
    BY DEF Inv, TypeOK
  <1>. QED
    BY <1>1, <1>2, <1>3, InvHolds, PTL DEF Spec

\* The device-lost future is complete when a destroy or the last release returns,
\* whoever lost the device, and a spontaneous callback has then left the map; the
\* callback is called at most once and only after the loss (Device::lose,
\* complete_device_lost, PendingCallback::fire).
THEOREM LossIsSettled == Spec => []LossSettled
  <1>1. Inv => LossSettled
    BY LossFollows DEF Inv
  <1>. QED
    BY <1>1, InvHolds, PTL

\* After clear_uncaptured_error_callback has returned no other thread is in the
\* application's error callback or enters it: active_callbacks counts the calls that
\* hold a clone of the callback, and no call takes one once it is out of the sink.
THEOREM CallbackSilenced == Spec => []ErrorCallbackSilenced
  <1>1. Init => CallbackInv
    BY InvInit
  <1>2. Inv /\ CallbackInv /\ [Next]_vars => CallbackInv'
    BY CallbackStep DEF Inv
  <1>3. Inv /\ CallbackInv => ErrorCallbackSilenced
    BY SilenceFollows DEF Inv
  <1>. QED
    BY <1>1, <1>2, <1>3, InvHolds, PTL DEF Spec

\* dispatch_error and pop_error_scope keep the reference's reading of a thread's
\* history, for every history: an error goes to the innermost open scope of its kind,
\* and a pop returns the first error of the scope it closes.
THEOREM ScopesReport == Spec => []ScopesTrue
  <1>1. Init => SinkType /\ ScopeInv
    BY InvInit
  <1>2. Inv /\ SinkType /\ ScopeInv /\ [Next]_vars => SinkType' /\ ScopeInv'
    BY ScopeStep DEF Inv
  <1>3. SinkType /\ ScopeInv => ScopesTrue
    BY ScopesFollow
  <1>. QED
    BY <1>1, <1>2, <1>3, InvHolds, PTL DEF Spec
=============================================================================
