--------------------------- MODULE CallbacksProofs ---------------------------
(***************************************************************************)
(* Callbacks for any number of threads, futures, references and nested     *)
(* calls: a callback is called once and only when its gate was passed, an  *)
(* observed callback has a complete future, nothing is left behind, and    *)
(* every step is one of Futures or none.  An id of a future is in one      *)
(* place: the map, the hands of one open call, or the history.  When one   *)
(* thread makes the calls, callbacks keep the order of registration.       *)
(***************************************************************************)
EXTENDS Callbacks, FiniteSetTheorems, SequenceTheorems, TLAPS

USE DEF registry_vars, queue_vars

-----------------------------------------------------------------------------
(* Types                                                                   *)

Wants == {w \in [mode : {"wait_any", "process", "spontaneous"},
                 kind : {"ready", "request", "refused", "map", "work_done"},
                 index : Nat, outcome : {"success", "error", "aborted"}] :
            w.kind \notin Gated => w.index = 0}
Calls  == {"register", "process", "wait", "release", "lose"}
Labels == {"register", "insert", "poll", "complete", "finish", "take_ready",
           "take_waited", "take", "fire", "callback", "cancel_take",
           "cancel_complete", "cancel", "cancelled", "lose", "abort"}
FrameSet == [op : Calls, at : Labels, id : Nat, want : Wants, list : SUBSET Nat,
             todo : SUBSET Nat]
Deliveries == [id : Nat, how : Calls \cup {"cancel"}]

StackType == stack \in [Threads -> Seq(FrameSet)]
DataType ==
  /\ callback \in Seq(Wants)
  /\ futures \subseteq DOMAIN callback /\ complete \subseteq futures
  /\ pending \subseteq DOMAIN callback /\ gated \subseteq pending
  /\ use_refs \in Nat
  /\ latest \in Nat /\ done \in Nat /\ done <= latest
  /\ lost \in BOOLEAN
  /\ begun \in Nat
  /\ log \in Seq(Deliveries)
  /\ Settled \subseteq DOMAIN callback
TypeOK == StackType /\ DataType

-----------------------------------------------------------------------------
(* What an open call implies                                               *)

\* The ids a call has in its hands: they are in no other place.
Carries(f) ==
  IF f.at \in {"fire", "callback", "cancel_complete", "cancel", "cancelled"} THEN f.todo
  ELSE IF f.at = "insert" THEN {f.id} ELSE {}

Passed(id) ==
  callback[id].outcome = "success" =>
    callback[id].index <= done \/ (callback[id].kind = "work_done" /\ lost)

\* A loop over callbacks to deliver; a loop over callbacks to cancel.
Delivering == {"fire", "callback"}
Cancelling == {"cancel_take", "cancel_complete", "cancel", "cancelled"}

Sound(f) ==
  /\ f.todo \subseteq DOMAIN callback
  /\ f.op = "register" /\ f.at # "register" =>
       f.id \in DOMAIN callback /\ callback[f.id].kind = f.want.kind
  /\ f.at \in {"register", "insert", "finish"} => f.op = "register"
  /\ f.at = "take_ready" => f.op = "process"
  /\ f.at = "take_waited" => f.op = "wait"
  /\ f.at = "take" => f.op \in {"process", "wait"}
  /\ f.at = "cancel_take" => f.op = "release"
  /\ f.at \in Cancelling => f.op \in {"register", "release"} /\ use_refs = 0
  /\ f.at \in {"poll", "complete"} =>
       f.op # "release" /\ (f.op = "register" => f.want.kind \in Gated)
  /\ f.at = "poll" => f.op # "lose"
  /\ f.at \in {"lose", "abort"} => f.op = "lose"
  /\ f.at = "abort" => lost
  /\ f.at = "insert" => f.id \in futures \ complete
  /\ f.at = "complete" => \A id \in f.todo : Passed(id)
  /\ f.at = "take" =>
       /\ f.todo \cap futures = {}
       /\ \A id \in f.todo \cap pending : Passed(id)
  /\ f.at \in Delivering =>
       f.todo \cap futures = {} /\ \A id \in f.todo : Passed(id)
  /\ f.at = "cancel" =>
       \A id \in f.todo : (\A j \in f.todo : id <= j) => id \notin futures \ complete
FrameInv == \A u \in Threads : \A k \in DOMAIN stack[u] : Sound(stack[u][k])

\* Frames of two calls, or of two threads.
Apart(u, k, v, l) == u # v \/ k # l

\* The futures under registration differ, and no other call works on one that is
\* not yet in the map.
Registers(f) == f.op = "register" /\ f.at # "register"
RegisterInv ==
  \A u, v \in Threads : \A k \in DOMAIN stack[u], l \in DOMAIN stack[v] :
    LET f == stack[u][k] g == stack[v][l]
    IN  Apart(u, k, v, l) =>
          /\ Registers(f) /\ Registers(g) => f.id # g.id
          /\ f.at = "insert" /\ g.at \in {"complete", "take"} => f.id \notin g.todo

-----------------------------------------------------------------------------
(* Where the ids are                                                       *)

Holds(u, k) == Carries(stack[u][k])
CarryInv ==
  /\ \A u, v \in Threads : \A k \in DOMAIN stack[u], l \in DOMAIN stack[v] :
       Apart(u, k, v, l) => Holds(u, k) \cap Holds(v, l) = {}
  /\ \A u \in Threads : \A k \in DOMAIN stack[u] :
       Holds(u, k) \cap (pending \cup Settled) = {}
  /\ pending \cap Settled = {}
  /\ \A id \in DOMAIN callback : \/ id \in pending \cup Settled
                                 \/ \E u \in Threads : \E k \in DOMAIN stack[u] : id \in Holds(u, k)
  /\ DeliveredOnce

\* A callback in the map will be found.
Taken(id)     == \E u \in Threads : \E k \in DOMAIN stack[u] :
                   stack[u][k].at = "take" /\ id \in stack[u][k].todo
Completing(id) == \E u \in Threads : \E k \in DOMAIN stack[u] :
                   stack[u][k].at = "complete" /\ id \in stack[u][k].todo
Finishing(id) == \E u \in Threads : \E k \in DOMAIN stack[u] :
                   /\ stack[u][k].at = "finish" /\ stack[u][k].id = id
                   /\ stack[u][k].want.kind \notin Gated
PendingInv ==
  /\ \A id \in pending :
       /\ id \in futures \/ Taken(id)
       /\ id \in gated \/ id \in complete \/ Taken(id) \/ Completing(id) \/ Finishing(id)
  /\ use_refs = 0 /\ pending # {} =>
       \E u \in Threads : \E k \in DOMAIN stack[u] : stack[u][k].at = "cancel_take"

\* What has been seen of a future is true of it.
SeenInv ==
  /\ \A id \in complete \cap pending : Passed(id)
  /\ \A k \in DOMAIN log : log[k].how # "cancel" => Passed(log[k].id)
  /\ Settled \cap futures \subseteq complete

IInv == TypeOK /\ FrameInv /\ RegisterInv /\ CarryInv /\ PendingInv /\ SeenInv

-----------------------------------------------------------------------------
(* Stacks                                                                  *)

\* What a step does to the stack of thread t: replaces the top, removes it, or puts
\* a call on it.  The other threads' stacks stay.
Others(t) == \A u \in Threads : u # t => stack'[u] = stack[u]
Replaced(t, f) ==
  /\ StackType' /\ Others(t) /\ stack[t] # <<>>
  /\ DOMAIN stack'[t] = DOMAIN stack[t] /\ Len(stack[t]) \in DOMAIN stack[t]
  /\ stack'[t][Len(stack[t])] = f
  /\ \A k \in DOMAIN stack[t] : k # Len(stack[t]) => stack'[t][k] = stack[t][k]
Popped(t) ==
  /\ StackType' /\ Others(t) /\ stack[t] # <<>>
  /\ DOMAIN stack'[t] = DOMAIN stack[t] \ {Len(stack[t])}
  /\ Len(stack[t]) \in DOMAIN stack[t]
  /\ \A k \in DOMAIN stack'[t] : stack'[t][k] = stack[t][k]
Pushed(t, f) ==
  /\ StackType' /\ Others(t)
  /\ DOMAIN stack'[t] = DOMAIN stack[t] \cup {Len(stack[t]) + 1}
  /\ Len(stack[t]) + 1 \notin DOMAIN stack[t]
  /\ stack'[t][Len(stack[t]) + 1] = f
  /\ \A k \in DOMAIN stack[t] : stack'[t][k] = stack[t][k]

\* The top with another label and loop.
Moved(f, label, todo) == [f EXCEPT !.at = label, !.todo = todo]

LEMMA MovedType ==
  ASSUME NEW f \in FrameSet, NEW label \in Labels, NEW todo \in SUBSET Nat
  PROVE  /\ Moved(f, label, todo) \in FrameSet
         /\ Moved(f, label, todo).at = label /\ Moved(f, label, todo).todo = todo
         /\ Moved(f, label, todo).op = f.op /\ Moved(f, label, todo).id = f.id
         /\ Moved(f, label, todo).want = f.want
  BY DEF Moved, FrameSet

LEMMA TopFacts ==
  ASSUME StackType, NEW t \in Threads, stack[t] # <<>>
  PROVE  /\ stack[t] \in Seq(FrameSet) /\ Len(stack[t]) \in Nat \ {0}
         /\ DOMAIN stack[t] = 1 .. Len(stack[t]) /\ Len(stack[t]) \in DOMAIN stack[t]
         /\ Top(t) = stack[t][Len(stack[t])] /\ Top(t) \in FrameSet
         /\ Top(t).op \in Calls /\ Top(t).at \in Labels /\ Top(t).id \in Nat
         /\ Top(t).want \in Wants /\ Top(t).todo \in SUBSET Nat
  <1>1. /\ stack[t] \in Seq(FrameSet) /\ Len(stack[t]) \in Nat \ {0}
        /\ DOMAIN stack[t] = 1 .. Len(stack[t]) /\ Len(stack[t]) \in DOMAIN stack[t]
    BY DEF StackType
  <1>2. Top(t) = stack[t][Len(stack[t])] /\ Top(t) \in FrameSet
    BY <1>1 DEF Top
  <1>. QED
    BY <1>1, <1>2 DEF FrameSet

LEMMA Replaces ==
  ASSUME StackType, NEW t \in Threads, stack[t] # <<>>, NEW f \in FrameSet,
         stack' = [stack EXCEPT ![t][Len(stack[t])] = f]
  PROVE  Replaced(t, f)
  <1>1. /\ stack[t] \in Seq(FrameSet) /\ Len(stack[t]) \in Nat \ {0}
        /\ DOMAIN stack[t] = 1 .. Len(stack[t]) /\ Len(stack[t]) \in DOMAIN stack[t]
    BY TopFacts
  <1> DEFINE s == [stack[t] EXCEPT ![Len(stack[t])] = f]
  <1>2. /\ s \in Seq(FrameSet) /\ DOMAIN s = DOMAIN stack[t] /\ s[Len(stack[t])] = f
        /\ \A k \in DOMAIN stack[t] : k # Len(stack[t]) => s[k] = stack[t][k]
    BY <1>1
  <1>3. stack' = [stack EXCEPT ![t] = s]
    OBVIOUS
  <1>. HIDE DEF s
  <1>4. stack'[t] = s /\ Others(t) /\ StackType'
    BY <1>2, <1>3 DEF StackType, Others
  <1>. QED
    BY <1>1, <1>2, <1>4 DEF Replaced

LEMMA Pops ==
  ASSUME StackType, NEW t \in Threads, stack[t] # <<>>, Pop(t)
  PROVE  Popped(t)
  <1>1. /\ stack[t] \in Seq(FrameSet) /\ Len(stack[t]) \in Nat \ {0}
        /\ DOMAIN stack[t] = 1 .. Len(stack[t]) /\ Len(stack[t]) \in DOMAIN stack[t]
    BY TopFacts
  <1> DEFINE s == SubSeq(stack[t], 1, Len(stack[t]) - 1)
  <1>2. /\ s \in Seq(FrameSet) /\ DOMAIN s = DOMAIN stack[t] \ {Len(stack[t])}
        /\ \A k \in DOMAIN s : s[k] = stack[t][k]
    BY <1>1
  <1>3. stack' = [stack EXCEPT ![t] = s]
    BY DEF Pop
  <1>. HIDE DEF s
  <1>4. stack'[t] = s /\ Others(t) /\ StackType'
    BY <1>2, <1>3 DEF StackType, Others
  <1>. QED
    BY <1>1, <1>2, <1>4 DEF Popped

LEMMA Pushes ==
  ASSUME StackType, NEW t \in Threads, NEW f \in FrameSet, Push(t, f)
  PROVE  Pushed(t, f)
  <1>1. /\ stack[t] \in Seq(FrameSet) /\ Len(stack[t]) \in Nat
        /\ DOMAIN stack[t] = 1 .. Len(stack[t])
    BY DEF StackType
  <1> DEFINE s == Append(stack[t], f)
  <1>2. /\ s \in Seq(FrameSet) /\ DOMAIN s = DOMAIN stack[t] \cup {Len(stack[t]) + 1}
        /\ Len(stack[t]) + 1 \notin DOMAIN stack[t]
        /\ s[Len(stack[t]) + 1] = f
        /\ \A k \in DOMAIN stack[t] : s[k] = stack[t][k]
    BY <1>1
  <1>3. stack' = [stack EXCEPT ![t] = s]
    BY DEF Push
  <1>. HIDE DEF s
  <1>4. stack'[t] = s /\ Others(t) /\ StackType'
    BY <1>2, <1>3 DEF StackType, Others
  <1>. QED
    BY <1>2, <1>4 DEF Pushed

\* After Go the top is another or gone.
Gone(t, label, todo) ==
  IF label = "return" THEN Popped(t) ELSE Replaced(t, Moved(Top(t), label, todo))

LEMMA Goes ==
  ASSUME StackType, NEW t \in Threads, stack[t] # <<>>,
         NEW label \in Labels \cup {"return"}, NEW todo \in SUBSET Nat, Go(t, label, todo)
  PROVE  Gone(t, label, todo)
  <1>1. CASE label = "return"
    BY <1>1, Pops DEF Go, Gone
  <1>2. CASE label # "return"
    <2>1. stack' = [stack EXCEPT ![t][Len(stack[t])] = Moved(Top(t), label, todo)]
      BY <1>2 DEF Go, Moved, Top
    <2>2. Moved(Top(t), label, todo) \in FrameSet
      BY <1>2, TopFacts, MovedType
    <2>. QED
      BY <1>2, <2>1, <2>2, Replaces DEF Gone
  <1>. QED
    BY <1>1, <1>2

LEMMA Loops ==
  ASSUME StackType, NEW t \in Threads, stack[t] # <<>>,
         NEW label \in Labels, NEW todo \in SUBSET Nat, NEW next \in Labels \cup {"return"},
         Loop(t, label, todo, next)
  PROVE  /\ todo = {} => Gone(t, next, {})
         /\ todo # {} => Replaced(t, Moved(Top(t), label, todo))
  <1>1. CASE todo = {}
    <2>1. Go(t, next, {}) /\ {} \in SUBSET Nat
      BY <1>1 DEF Loop
    <2>. QED
      BY <1>1, <2>1, Goes
  <1>2. CASE todo # {}
    <2>1. Go(t, label, todo) /\ label # "return" /\ label \in Labels \cup {"return"}
      BY <1>2 DEF Loop, Labels
    <2>2. Gone(t, label, todo)
      BY <2>1, Goes
    <2>. QED
      BY <1>2, <2>1, <2>2 DEF Gone
  <1>. QED
    BY <1>1, <1>2

-----------------------------------------------------------------------------
(* One frame changes                                                       *)

\* The frames but the n-th of thread t are the same.
Kept(t, n) ==
  \A u \in Threads : \A k :
    Apart(u, k, t, n) =>
      /\ k \in DOMAIN stack'[u] <=> k \in DOMAIN stack[u]
      /\ k \in DOMAIN stack[u] => stack'[u][k] = stack[u][k]

\* The n-th frame of thread t was f; it is g.
Was(t, n, f) == n \in DOMAIN stack[t] => stack[t][n] = f
Is(t, n, g)  == n \in DOMAIN stack'[t] => stack'[t][n] = g

LEMMA KeptFacts ==
  ASSUME StackType, NEW t \in Threads
  PROVE  /\ \A g : Replaced(t, g) => Kept(t, Len(stack[t])) /\ Is(t, Len(stack[t]), g)
                     /\ Len(stack[t]) \in DOMAIN stack'[t] /\ Len(stack[t]) \in DOMAIN stack[t]
         /\ Popped(t) => Kept(t, Len(stack[t])) /\ Len(stack[t]) \notin DOMAIN stack'[t]
         /\ \A g : Pushed(t, g) => Kept(t, Len(stack[t]) + 1) /\ Is(t, Len(stack[t]) + 1, g)
                     /\ Len(stack[t]) + 1 \in DOMAIN stack'[t]
                     /\ Len(stack[t]) + 1 \notin DOMAIN stack[t]
         /\ stack' = stack => \A n : Kept(t, n)
         /\ stack[t] # <<>> => Was(t, Len(stack[t]), Top(t)) /\ Len(stack[t]) \in DOMAIN stack[t]
  <1>1. ASSUME NEW g, Replaced(t, g)
        PROVE  /\ Kept(t, Len(stack[t])) /\ Is(t, Len(stack[t]), g)
               /\ Len(stack[t]) \in DOMAIN stack'[t] /\ Len(stack[t]) \in DOMAIN stack[t]
    BY <1>1 DEF Replaced, Kept, Is, Apart, Others
  <1>2. Popped(t) => Kept(t, Len(stack[t])) /\ Len(stack[t]) \notin DOMAIN stack'[t]
    BY DEF Popped, Kept, Apart, Others
  <1>3. ASSUME NEW g, Pushed(t, g)
        PROVE  /\ Kept(t, Len(stack[t]) + 1) /\ Is(t, Len(stack[t]) + 1, g)
               /\ Len(stack[t]) + 1 \in DOMAIN stack'[t]
               /\ Len(stack[t]) + 1 \notin DOMAIN stack[t]
    BY <1>3 DEF Pushed, Kept, Is, Apart, Others
  <1>4. stack' = stack => \A n : Kept(t, n)
    BY DEF Kept
  <1>5. stack[t] # <<>> => Was(t, Len(stack[t]), Top(t)) /\ Len(stack[t]) \in DOMAIN stack[t]
    BY TopFacts DEF Was, Top
  <1>. QED
    BY <1>1, <1>2, <1>3, <1>4, <1>5

\* What is true of a future stays true: a kind, a gate that was passed, that it has
\* left the registry or is complete; and the end of use is final.
Onward ==
  /\ DOMAIN callback \subseteq DOMAIN callback'
  /\ \A i \in DOMAIN callback :
       /\ callback'[i].kind = callback[i].kind
       /\ Passed(i) => Passed(i)'
       /\ i \in futures' => i \in futures
       /\ i \in futures' \ complete' => i \in futures \ complete
  /\ use_refs = 0 => use_refs' = 0
  /\ lost => lost'

LEMMA SoundKept ==
  ASSUME Onward, DataType, NEW f, Sound(f),
         f.at = "insert" => f.id \in futures' \ complete',
         f.at = "take" => f.todo \cap pending' \subseteq pending
  PROVE  Sound(f)'
  <1>1. /\ f.todo \subseteq DOMAIN callback' /\ f.todo \subseteq DOMAIN callback
        /\ f.op = "register" /\ f.at # "register" =>
             f.id \in DOMAIN callback' /\ callback'[f.id].kind = f.want.kind
    BY DEF Sound, Onward
  <1>2. f.at = "complete" => \A id \in f.todo : Passed(id)'
    BY <1>1 DEF Sound, Onward
  <1>3. f.at = "take" => /\ f.todo \cap futures' = {}
                         /\ \A id \in f.todo \cap pending' : Passed(id)'
    BY <1>1 DEF Sound, Onward
  <1>4. f.at \in Delivering => f.todo \cap futures' = {} /\ \A id \in f.todo : Passed(id)'
    BY <1>1 DEF Sound, Onward
  <1>5. f.at = "cancel" =>
          \A id \in f.todo : (\A j \in f.todo : id <= j) => id \notin futures' \ complete'
    BY <1>1 DEF Sound, Onward
  <1>6. /\ f.at \in Cancelling => f.op \in {"register", "release"} /\ use_refs' = 0
        /\ f.at = "abort" => lost'
    BY DEF Sound, Onward
  <1>. QED
    BY <1>1, <1>2, <1>3, <1>4, <1>5, <1>6 DEF Sound

\* Nothing is completed, put into the map or taken out of the registry.
Calm == complete' \subseteq complete /\ pending' \subseteq pending /\ futures \subseteq futures'

LEMMA FrameLift ==
  ASSUME StackType, FrameInv, DataType, Onward, NEW t \in Threads, NEW n, Kept(t, n),
         \A u \in Threads : \A k \in DOMAIN stack[u] : Apart(u, k, t, n) =>
           /\ stack[u][k].at = "insert" => stack[u][k].id \in futures' \ complete'
           /\ stack[u][k].at = "take" => stack[u][k].todo \cap pending' \subseteq pending,
         n \in DOMAIN stack'[t] => \E g : stack'[t][n] = g /\ Sound(g)'
  PROVE  FrameInv'
  <1>1. SUFFICES ASSUME NEW u \in Threads, NEW k \in DOMAIN stack'[u]
                 PROVE  \E g : stack'[u][k] = g /\ Sound(g)'
    BY DEF FrameInv
  <1>2. CASE u = t /\ k = n
    BY <1>2
  <1>3. CASE Apart(u, k, t, n)
    <2>1. k \in DOMAIN stack[u] /\ stack'[u][k] = stack[u][k]
      BY <1>3 DEF Kept
    <2>2. PICK f : f = stack[u][k]
      OBVIOUS
    <2>3. Sound(f)
      BY <2>1, <2>2 DEF FrameInv
    <2>4. /\ f.at = "insert" => f.id \in futures' \ complete'
          /\ f.at = "take" => f.todo \cap pending' \subseteq pending
      BY <1>3, <2>1, <2>2
    <2>5. Sound(f)'
      BY <2>3, <2>4, SoundKept
    <2>. QED
      BY <2>1, <2>2, <2>5
  <1>. QED
    BY <1>2, <1>3 DEF Apart

LEMMA FrameCalm ==
  ASSUME StackType, FrameInv, DataType, Onward, NEW t \in Threads, NEW n, Kept(t, n), Calm,
         n \in DOMAIN stack'[t] => \E g : stack'[t][n] = g /\ Sound(g)'
  PROVE  FrameInv'
  <1>1. ASSUME NEW u \in Threads, NEW k \in DOMAIN stack[u]
        PROVE  /\ stack[u][k].at = "insert" => stack[u][k].id \in futures' \ complete'
               /\ stack[u][k].at = "take" => stack[u][k].todo \cap pending' \subseteq pending
    BY DEF FrameInv, Sound, Calm
  <1>. QED
    BY <1>1, FrameLift

-----------------------------------------------------------------------------
(* Registrations, places of ids, the map                                   *)

\* What one frame's change must respect.
RegisterOK(t, n) ==
  n \in DOMAIN stack'[t] =>
    LET g == stack'[t][n] IN
    /\ Registers(g) => \A u \in Threads : \A k \in DOMAIN stack[u] :
         Apart(u, k, t, n) /\ Registers(stack[u][k]) => stack[u][k].id # g.id
    /\ g.at = "insert" => \A u \in Threads : \A k \in DOMAIN stack[u] :
         Apart(u, k, t, n) /\ stack[u][k].at \in {"complete", "take"} => g.id \notin stack[u][k].todo
    /\ g.at \in {"complete", "take"} => \A u \in Threads : \A k \in DOMAIN stack[u] :
         Apart(u, k, t, n) /\ stack[u][k].at = "insert" => stack[u][k].id \notin g.todo

LEMMA RegisterLift ==
  ASSUME RegisterInv, NEW t \in Threads, NEW n, Kept(t, n), RegisterOK(t, n)
  PROVE  RegisterInv'
  <1>1. SUFFICES ASSUME NEW u \in Threads, NEW v \in Threads,
                        NEW k \in DOMAIN stack'[u], NEW l \in DOMAIN stack'[v], Apart(u, k, v, l)
        PROVE  /\ Registers(stack'[u][k]) /\ Registers(stack'[v][l]) =>
                    stack'[u][k].id # stack'[v][l].id
               /\ stack'[u][k].at = "insert" /\ stack'[v][l].at \in {"complete", "take"} =>
                    stack'[u][k].id \notin stack'[v][l].todo
    BY DEF RegisterInv, Registers, Apart
  <1>2. Apart(u, k, t, n) => k \in DOMAIN stack[u] /\ stack'[u][k] = stack[u][k]
    BY DEF Kept
  <1>3. Apart(v, l, t, n) => l \in DOMAIN stack[v] /\ stack'[v][l] = stack[v][l]
    BY DEF Kept
  <1>4. CASE Apart(u, k, t, n) /\ Apart(v, l, t, n)
    BY <1>1, <1>2, <1>3, <1>4 DEF RegisterInv
  <1>5. CASE u = t /\ k = n
    <2>1. Apart(v, l, t, n)
      BY <1>1, <1>5 DEF Apart
    <2>. QED
      BY <1>3, <1>5, <2>1 DEF RegisterOK
  <1>6. CASE v = t /\ l = n
    <2>1. Apart(u, k, t, n)
      BY <1>1, <1>6 DEF Apart
    <2>. QED
      BY <1>2, <1>6, <2>1 DEF RegisterOK
  <1>. QED
    BY <1>4, <1>5, <1>6 DEF Apart

\* The usual case: the call's registration and loops go on.
LEMMA RegisterOn ==
  ASSUME RegisterInv, NEW t \in Threads, NEW n, Kept(t, n),
         n \in DOMAIN stack'[t] =>
           LET g == stack'[t][n] IN
           /\ Registers(g) => n \in DOMAIN stack[t] /\ Registers(stack[t][n]) /\ g.id = stack[t][n].id
           /\ g.at \in {"complete", "take"} => n \in DOMAIN stack[t]
                /\ stack[t][n].at \in {"complete", "take"} /\ g.todo \subseteq stack[t][n].todo
           /\ g.at # "insert"
  PROVE  RegisterInv'
  <1>1. RegisterOK(t, n)
    <2>1. SUFFICES ASSUME n \in DOMAIN stack'[t] PROVE RegisterOK(t, n)
      BY DEF RegisterOK
    <2>2. ASSUME Registers(stack'[t][n]), NEW u \in Threads, NEW k \in DOMAIN stack[u],
                 Apart(u, k, t, n), Registers(stack[u][k])
          PROVE  stack[u][k].id # stack'[t][n].id
      BY <2>1, <2>2 DEF RegisterInv
    <2>3. ASSUME stack'[t][n].at \in {"complete", "take"}, NEW u \in Threads,
                 NEW k \in DOMAIN stack[u], Apart(u, k, t, n), stack[u][k].at = "insert"
          PROVE  stack[u][k].id \notin stack'[t][n].todo
      BY <2>1, <2>3 DEF RegisterInv
    <2>. QED
      BY <2>1, <2>2, <2>3 DEF RegisterOK
  <1>. QED
    BY <1>1, RegisterLift

\* What the n-th frame of thread t holds before and after a step.
Hand(t, n)  == IF n \in DOMAIN stack[t] THEN Carries(stack[t][n]) ELSE {}
Hand2(t, n) == IF n \in DOMAIN stack'[t] THEN Carries(stack'[t][n]) ELSE {}

LEMMA HoldsKnown ==
  ASSUME FrameInv, NEW u \in Threads, NEW k \in DOMAIN stack[u]
  PROVE  Holds(u, k) \subseteq DOMAIN callback
  <1>1. Sound(stack[u][k])
    BY DEF FrameInv
  <1>. QED
    BY <1>1 DEF Sound, Holds, Carries

\* Ids move between the map, the history and the hands of one call.
LEMMA CarryMove ==
  ASSUME DataType, FrameInv, CarryInv, NEW t \in Threads, NEW n, Kept(t, n), NEW fresh,
         fresh \cap DOMAIN callback = {}, DOMAIN callback' = DOMAIN callback \cup fresh,
         Hand2(t, n) \cup pending' \cup Settled' = Hand(t, n) \cup pending \cup Settled \cup fresh,
         Hand2(t, n) \cap (pending' \cup Settled') = {}, pending' \cap Settled' = {},
         DeliveredOnce'
  PROVE  CarryInv'
  <1>1. \A u \in Threads : \A k : Apart(u, k, t, n) =>
          /\ k \in DOMAIN stack'[u] <=> k \in DOMAIN stack[u]
          /\ k \in DOMAIN stack[u] => Carries(stack'[u][k]) = Holds(u, k)
    BY DEF Kept, Holds
  <1>2. ASSUME NEW u \in Threads, NEW k \in DOMAIN stack[u], Apart(u, k, t, n)
        PROVE  Holds(u, k) \cap (Hand2(t, n) \cup pending' \cup Settled') = {}
    <2>1. Holds(u, k) \cap Hand(t, n) = {}
      BY <1>2 DEF CarryInv, Hand, Holds, Apart
    <2>2. Holds(u, k) \cap (pending \cup Settled) = {}
      BY DEF CarryInv
    <2>3. Holds(u, k) \cap fresh = {}
      BY HoldsKnown
    <2>. QED
      BY <2>1, <2>2, <2>3
  <1>3. ASSUME NEW u \in Threads, NEW v \in Threads, NEW k \in DOMAIN stack'[u],
               NEW l \in DOMAIN stack'[v], Apart(u, k, v, l)
        PROVE  Carries(stack'[u][k]) \cap Carries(stack'[v][l]) = {}
    <2>1. CASE Apart(u, k, t, n) /\ Apart(v, l, t, n)
      <3>1. /\ k \in DOMAIN stack[u] /\ Carries(stack'[u][k]) = Holds(u, k)
            /\ l \in DOMAIN stack[v] /\ Carries(stack'[v][l]) = Holds(v, l)
        BY <1>1, <2>1
      <3>. QED
        BY <1>3, <3>1 DEF CarryInv
    <2>2. CASE u = t /\ k = n
      <3>1. Apart(v, l, t, n)
        BY <1>3, <2>2 DEF Apart
      <3>. QED
        BY <1>1, <1>2, <2>2, <3>1 DEF Hand2
    <2>3. CASE v = t /\ l = n
      <3>1. Apart(u, k, t, n)
        BY <1>3, <2>3 DEF Apart
      <3>. QED
        BY <1>1, <1>2, <2>3, <3>1 DEF Hand2
    <2>. QED
      BY <2>1, <2>2, <2>3 DEF Apart
  <1>4. ASSUME NEW u \in Threads, NEW k \in DOMAIN stack'[u]
        PROVE  Carries(stack'[u][k]) \cap (pending' \cup Settled') = {}
    <2>1. CASE Apart(u, k, t, n)
      BY <1>1, <1>2, <2>1
    <2>2. CASE u = t /\ k = n
      BY <2>2 DEF Hand2
    <2>. QED
      BY <2>1, <2>2 DEF Apart
  <1>5. ASSUME NEW id \in DOMAIN callback'
        PROVE  \/ id \in pending' \cup Settled'
               \/ \E u \in Threads : \E k \in DOMAIN stack'[u] : id \in Carries(stack'[u][k])
    <2>1. CASE id \in Hand2(t, n) \cup pending' \cup Settled'
      BY <2>1 DEF Hand2
    <2>2. CASE id \notin Hand2(t, n) \cup pending' \cup Settled'
      <3>1. id \in DOMAIN callback /\ id \notin Hand(t, n) /\ id \notin pending \cup Settled
        BY <2>2
      <3>a2. PICK u \in Threads : \E k \in DOMAIN stack[u] : id \in Holds(u, k)
        BY <3>1 DEF CarryInv
      <3>2. PICK k \in DOMAIN stack[u] : id \in Holds(u, k)
        BY <3>a2
      <3>3. Apart(u, k, t, n)
        BY <3>1, <3>2 DEF Hand, Holds, Apart
      <3>. QED
        BY <1>1, <3>2, <3>3
    <2>. QED
      BY <2>1, <2>2
  <1>. QED
    BY <1>3, <1>4, <1>5 DEF CarryInv, Holds

\* The hands of a call may keep what they have.
LEMMA CarrySame ==
  ASSUME DataType, FrameInv, CarryInv, NEW t \in Threads, NEW n, Kept(t, n),
         DOMAIN callback' = DOMAIN callback, Hand2(t, n) = Hand(t, n),
         pending' = pending, log' = log
  PROVE  CarryInv'
  <1>1. Settled' = Settled /\ DeliveredOnce'
    BY DEF Settled, CarryInv, DeliveredOnce
  <1>2. Hand(t, n) \cap (pending \cup Settled) = {} /\ pending \cap Settled = {}
    BY DEF CarryInv, Hand, Holds
  <1>3. {} \cap DOMAIN callback = {} /\ DOMAIN callback' = DOMAIN callback \cup {}
    OBVIOUS
  <1>. QED
    BY <1>1, <1>2, <1>3, CarryMove

\* What a frame says of an id in the map is not lost with another frame.
Loses(t, n, label, id) ==
  n \in DOMAIN stack[t] /\ stack[t][n].at = label
    /\ IF label = "finish" THEN id = stack[t][n].id ELSE id \in stack[t][n].todo
CancelComing == \E u \in Threads : \E k \in DOMAIN stack[u] : stack[u][k].at = "cancel_take"
LEMMA Persist ==
  ASSUME NEW t \in Threads, NEW n, Kept(t, n), NEW id
  PROVE  /\ Taken(id) /\ ~Loses(t, n, "take", id) => Taken(id)'
         /\ Completing(id) /\ ~Loses(t, n, "complete", id) => Completing(id)'
         /\ Finishing(id) /\ ~Loses(t, n, "finish", id) => Finishing(id)'
         /\ CancelComing /\ ~(n \in DOMAIN stack[t] /\ stack[t][n].at = "cancel_take")
              => CancelComing'
  <1>1. ASSUME Taken(id), ~Loses(t, n, "take", id) PROVE Taken(id)'
    <2>a1. PICK u \in Threads : \E k \in DOMAIN stack[u] :
              stack[u][k].at = "take" /\ id \in stack[u][k].todo
      BY <1>1 DEF Taken
    <2>1. PICK k \in DOMAIN stack[u] :
            stack[u][k].at = "take" /\ id \in stack[u][k].todo
      BY <2>a1
    <2>2. Apart(u, k, t, n)
      BY <1>1, <2>1 DEF Apart, Loses
    <2>. QED
      BY <2>1, <2>2 DEF Kept, Taken
  <1>2. ASSUME Completing(id), ~Loses(t, n, "complete", id) PROVE Completing(id)'
    <2>a1. PICK u \in Threads : \E k \in DOMAIN stack[u] :
              stack[u][k].at = "complete" /\ id \in stack[u][k].todo
      BY <1>2 DEF Completing
    <2>1. PICK k \in DOMAIN stack[u] :
            stack[u][k].at = "complete" /\ id \in stack[u][k].todo
      BY <2>a1
    <2>2. Apart(u, k, t, n)
      BY <1>2, <2>1 DEF Apart, Loses
    <2>. QED
      BY <2>1, <2>2 DEF Kept, Completing
  <1>3. ASSUME Finishing(id), ~Loses(t, n, "finish", id) PROVE Finishing(id)'
    <2>a1. PICK u \in Threads : \E k \in DOMAIN stack[u] :
              /\ stack[u][k].at = "finish" /\ stack[u][k].id = id
              /\ stack[u][k].want.kind \notin Gated
      BY <1>3 DEF Finishing
    <2>1. PICK k \in DOMAIN stack[u] :
            /\ stack[u][k].at = "finish" /\ stack[u][k].id = id
            /\ stack[u][k].want.kind \notin Gated
      BY <2>a1
    <2>2. Apart(u, k, t, n)
      BY <1>3, <2>1 DEF Apart, Loses
    <2>. QED
      BY <2>1, <2>2 DEF Kept, Finishing
  <1>4. ASSUME CancelComing, ~(n \in DOMAIN stack[t] /\ stack[t][n].at = "cancel_take")
        PROVE  CancelComing'
    <2>a1. PICK u \in Threads : \E k \in DOMAIN stack[u] : stack[u][k].at = "cancel_take"
      BY <1>4 DEF CancelComing
    <2>1. PICK k \in DOMAIN stack[u] : stack[u][k].at = "cancel_take"
      BY <2>a1
    <2>2. Apart(u, k, t, n)
      BY <1>4, <2>1 DEF Apart
    <2>. QED
      BY <2>1, <2>2 DEF Kept, CancelComing
  <1>. QED
    BY <1>1, <1>2, <1>3, <1>4

LEMMA PendingSame ==
  ASSUME PendingInv, NEW t \in Threads, NEW n, Kept(t, n),
         n \in DOMAIN stack[t] =>
           stack[t][n].at \notin {"take", "complete", "finish", "cancel_take"},
         pending' = pending, gated' = gated, futures \subseteq futures', complete \subseteq complete',
         use_refs' = 0 => use_refs = 0
  PROVE  PendingInv'
  <1>1. \A id : /\ Taken(id) => Taken(id)'
                /\ Completing(id) => Completing(id)'
                /\ Finishing(id) => Finishing(id)'
    BY Persist DEF Loses
  <1>2. CancelComing => CancelComing'
    BY Persist
  <1>. QED
    BY <1>1, <1>2 DEF PendingInv, CancelComing

LEMMA SeenOn ==
  ASSUME DataType, SeenInv, Onward, log' = log,
         \A id \in complete' \cap pending' : id \in complete \cap pending \/ Passed(id)'
  PROVE  SeenInv'
  <1>1. \A k \in DOMAIN log : log[k].id \in DOMAIN callback
    BY DEF DataType, Settled
  <1>2. \A k \in DOMAIN log' : log'[k].how # "cancel" => Passed(log[k].id)'
    BY <1>1 DEF SeenInv, Onward
  <1>3. \A id \in complete' \cap pending' : Passed(id)'
    <2>1. ASSUME NEW id \in complete \cap pending PROVE Passed(id)'
      BY DEF SeenInv, Onward, DataType
    <2>. QED
      BY <2>1
  <1>4. Settled' \cap futures' \subseteq complete'
    <2>1. Settled' = Settled /\ Settled \subseteq DOMAIN callback
      BY DEF Settled, DataType
    <2>. QED
      BY <2>1 DEF SeenInv, Onward
  <1>. QED
    BY <1>2, <1>3, <1>4 DEF SeenInv

-----------------------------------------------------------------------------
(* Steps that move no id                                                   *)

LEMMA OnwardData ==
  ASSUME DataType, callback' = callback, done' \in Nat, done <= done', lost => lost',
         futures' \subseteq futures, futures' \ complete' \subseteq futures \ complete,
         use_refs = 0 => use_refs' = 0
  PROVE  Onward
  <1>1. ASSUME NEW i \in DOMAIN callback, Passed(i) PROVE Passed(i)'
    <2>1. callback[i].index \in Nat
      BY DEF DataType, Wants
    <2>. QED
      BY <1>1, <2>1 DEF Passed, DataType
  <1>. QED
    BY <1>1 DEF Onward

\* The frame that changes, if any, is sound, holds what it held, and goes on with
\* its registration.
GoesOn(t, n) ==
  /\ Hand2(t, n) = Hand(t, n)
  /\ n \in DOMAIN stack[t] =>
       stack[t][n].at \notin {"take", "complete", "finish", "cancel_take"}
  /\ n \in DOMAIN stack'[t] =>
       LET g == stack'[t][n] IN
       /\ Registers(g) => n \in DOMAIN stack[t] /\ Registers(stack[t][n]) /\ g.id = stack[t][n].id
       /\ g.at \notin {"complete", "take", "insert"}

LEMMA QuietStep ==
  ASSUME IInv, NEW t \in Threads, NEW n, Kept(t, n), StackType', GoesOn(t, n),
         n \in DOMAIN stack'[t] => \E g : stack'[t][n] = g /\ Sound(g)',
         UNCHANGED <<callback, futures, complete, pending, gated, log>>,
         use_refs' \in Nat, use_refs' = 0 <=> use_refs = 0,
         latest' \in Nat, done' \in Nat, done <= done', done' <= latest',
         lost' \in BOOLEAN, lost => lost', begun' \in Nat
  PROVE  IInv' /\ Onward
  <1>1. TypeOK /\ StackType /\ DataType /\ FrameInv /\ RegisterInv /\ CarryInv /\ PendingInv /\ SeenInv
    BY DEF IInv, TypeOK
  <1>2. DataType'
    BY <1>1 DEF DataType, Settled
  <1>3. Onward
    BY <1>1, OnwardData
  <1>4. FrameInv'
    BY <1>1, <1>3, FrameCalm DEF Calm
  <1>5. RegisterInv'
    BY <1>1, RegisterOn DEF GoesOn
  <1>6. CarryInv'
    BY <1>1, CarrySame DEF GoesOn
  <1>7. PendingInv'
    BY <1>1, PendingSame DEF GoesOn
  <1>8. SeenInv'
    BY <1>1, <1>3, SeenOn
  <1>. QED
    BY <1>2, <1>3, <1>4, <1>5, <1>6, <1>7, <1>8 DEF IInv, TypeOK

\* A call that begins.
LEMMA BeginsQuietly ==
  ASSUME IInv, NEW t \in Threads, NEW g \in FrameSet, Push(t, g), g.todo = {},
         \/ g.op = "register" /\ g.at = "register"
         \/ g.op \in {"process", "wait"} /\ g.at = "poll"
         \/ g.op = "lose" /\ g.at = "lose",
         UNCHANGED <<callback, registry_vars, pending, gated, use_refs, queue_vars, log>>,
         begun' \in Nat
  PROVE  IInv' /\ Onward
  <1>1. StackType /\ DataType
    BY DEF IInv, TypeOK
  <1>2. Pushed(t, g)
    BY <1>1, Pushes
  <1>3. PICK n : n = Len(stack[t]) + 1
    OBVIOUS
  <1>4. Kept(t, n) /\ StackType' /\ n \in DOMAIN stack'[t] /\ n \notin DOMAIN stack[t]
        /\ stack'[t][n] = g
    BY <1>1, <1>2, <1>3, KeptFacts DEF Pushed
  <1>5. Sound(g)'
    BY DEF Sound, Cancelling, Delivering
  <1>6. GoesOn(t, n)
    BY <1>4 DEF GoesOn, Hand, Hand2, Carries, Registers
  <1>7. /\ use_refs' \in Nat /\ latest' \in Nat /\ done' \in Nat /\ done <= done'
        /\ done' <= latest' /\ lost' \in BOOLEAN /\ (lost => lost') /\ (use_refs' = 0 <=> use_refs = 0)
    BY <1>1 DEF DataType
  <1>. QED
    BY <1>4, <1>5, <1>6, <1>7, QuietStep

LEMMA FrameIs ==
  ASSUME NEW op \in Calls, NEW label \in Labels
  PROVE  /\ Frame(op, label) \in FrameSet
         /\ Frame(op, label).op = op /\ Frame(op, label).at = label
         /\ Frame(op, label).todo = {}
  BY DEF Frame, FrameSet, NoCallback, Wants

LEMMA Begun ==
  ASSUME IInv, NEW t \in Threads, BeginRegister(t) \/ BeginProcess(t) \/ BeginWait(t) \/ BeginLose(t)
  PROVE  /\ AppRuns(t) /\ begun' \in Nat
         /\ UNCHANGED <<callback, registry_vars, pending, gated, use_refs, queue_vars, log>>
         /\ \E g \in FrameSet :
              /\ Push(t, g) /\ g.todo = {}
              /\ \/ g.op = "register" /\ g.at = "register"
                 \/ g.op \in {"process", "wait"} /\ g.at = "poll"
                 \/ g.op = "lose" /\ g.at = "lose"
  <1>1. DataType
    BY DEF IInv, TypeOK
  <1>2. /\ AppRuns(t) /\ begun' \in Nat
        /\ UNCHANGED <<callback, registry_vars, pending, gated, use_refs, queue_vars, log>>
    BY <1>1 DEF BeginRegister, BeginProcess, BeginWait, BeginLose, DataType
  <1>3. CASE BeginRegister(t)
    <2>1. PICK mode \in Modes, kind \in Kinds :
            Push(t, [Frame("register", "register") EXCEPT
                       !.want = [mode |-> mode, kind |-> kind,
                                 outcome |-> IF kind = "refused" THEN "error" ELSE "success",
                                 index |-> IF kind \in Gated THEN latest ELSE 0]])
      BY <1>3 DEF BeginRegister
    <2> DEFINE w == [mode |-> mode, kind |-> kind,
                     outcome |-> IF kind = "refused" THEN "error" ELSE "success",
                     index |-> IF kind \in Gated THEN latest ELSE 0]
    <2>2. w \in Wants
      BY <1>1, CallbacksAssumption DEF Wants, DataType, Gated
    <2>. HIDE DEF w
    <2>3. PICK f : f = Frame("register", "register")
      OBVIOUS
    <2>4. f \in FrameSet /\ f.op = "register" /\ f.at = "register" /\ f.todo = {}
      BY <2>3, FrameIs DEF Calls, Labels
    <2>5. PICK g : g = [f EXCEPT !.want = w]
      OBVIOUS
    <2>6. g \in FrameSet /\ g.op = "register" /\ g.at = "register" /\ g.todo = {}
      BY <2>2, <2>4, <2>5 DEF FrameSet
    <2>7. Push(t, g)
      BY <2>1, <2>3, <2>5 DEF w
    <2>. QED
      BY <1>2, <2>6, <2>7
  <1>4. CASE BeginProcess(t)
    <2>1. PICK g : g = Frame("process", "poll")
      OBVIOUS
    <2>2. g \in FrameSet /\ g.op = "process" /\ g.at = "poll" /\ g.todo = {}
      BY <2>1, FrameIs DEF Calls, Labels
    <2>3. Push(t, g)
      BY <1>4, <2>1 DEF BeginProcess
    <2>. QED
      BY <1>2, <2>2, <2>3
  <1>5. CASE BeginWait(t)
    <2>1. PICK list \in (SUBSET Returned) \ {{}} :
            Push(t, [Frame("wait", "poll") EXCEPT !.list = list])
      BY <1>5 DEF BeginWait
    <2>2. list \in SUBSET Nat
      BY <1>1 DEF Returned, DataType
    <2>3. PICK f : f = Frame("wait", "poll")
      OBVIOUS
    <2>4. f \in FrameSet /\ f.op = "wait" /\ f.at = "poll" /\ f.todo = {}
      BY <2>3, FrameIs DEF Calls, Labels
    <2>5. PICK g : g = [f EXCEPT !.list = list]
      OBVIOUS
    <2>6. g \in FrameSet /\ g.op = "wait" /\ g.at = "poll" /\ g.todo = {}
      BY <2>2, <2>4, <2>5 DEF FrameSet
    <2>7. Push(t, g)
      BY <2>1, <2>3, <2>5
    <2>. QED
      BY <1>2, <2>6, <2>7
  <1>6. CASE BeginLose(t)
    <2>1. PICK g : g = Frame("lose", "lose")
      OBVIOUS
    <2>2. g \in FrameSet /\ g.op = "lose" /\ g.at = "lose" /\ g.todo = {}
      BY <2>1, FrameIs DEF Calls, Labels
    <2>3. Push(t, g)
      BY <1>6, <2>1 DEF BeginLose
    <2>. QED
      BY <1>2, <2>2, <2>3
  <1>. QED
    BY <1>3, <1>4, <1>5, <1>6

LEMMA BeginStep ==
  ASSUME IInv, NEW t \in Threads, BeginRegister(t) \/ BeginProcess(t) \/ BeginWait(t) \/ BeginLose(t)
  PROVE  IInv' /\ Onward
  <1>1. PICK g \in FrameSet :
          /\ Push(t, g) /\ g.todo = {}
          /\ \/ g.op = "register" /\ g.at = "register"
             \/ g.op \in {"process", "wait"} /\ g.at = "poll"
             \/ g.op = "lose" /\ g.at = "lose"
    BY Begun
  <1>. QED
    BY <1>1, Begun, BeginsQuietly

\* A callback returns.
LEMMA ReturnStep ==
  ASSUME IInv, NEW t \in Threads, Return(t)
  PROVE  IInv' /\ Onward
  <1>1. StackType /\ DataType /\ FrameInv
    BY DEF IInv, TypeOK
  <1>2. stack[t] # <<>> /\ Top(t).at \in {"callback", "cancelled"}
    BY DEF Return, At
  <1>3. PICK f : f = Top(t)
    OBVIOUS
  <1>4. PICK n : n = Len(stack[t])
    OBVIOUS
  <1>5. f \in FrameSet /\ n \in DOMAIN stack[t] /\ stack[t][n] = f /\ f.todo \in SUBSET Nat
        /\ Sound(f)
    BY <1>1, <1>2, <1>3, <1>4, TopFacts DEF FrameInv
  <1>6. UNCHANGED <<callback, registry_vars, pending, gated, use_refs, queue_vars, begun, log>>
    BY DEF Return
  <1>7. /\ use_refs' \in Nat /\ latest' \in Nat /\ done' \in Nat /\ done <= done'
        /\ done' <= latest' /\ lost' \in BOOLEAN /\ (lost => lost') /\ (use_refs' = 0 <=> use_refs = 0)
        /\ begun' \in Nat
    BY <1>1, <1>6 DEF DataType
  <1>8. \/ Popped(t) /\ f.todo = {}
        \/ \E label \in Labels :
             /\ Replaced(t, Moved(f, label, f.todo))
             /\ \/ f.at = "callback" /\ label = "fire"
                \/ f.at = "cancelled" /\ label = "cancel_complete"
                \/ f.at = "cancelled" /\ f.todo = {} /\ f.op = "register"
                     /\ label = AfterInsert(t)
    <2>1. /\ "fire" \in Labels /\ "cancel_complete" \in Labels /\ "return" \notin Labels
          /\ AfterInsert(t) \in Labels
      BY DEF Labels, AfterInsert
    <2>2. CASE Top(t).at = "callback"
      <3>1. Loop(t, "fire", f.todo, "return")
        BY <1>3, <2>2 DEF Return, At
      <3>2. /\ f.todo = {} => Gone(t, "return", {})
            /\ f.todo # {} => Replaced(t, Moved(Top(t), "fire", f.todo))
        BY <1>1, <1>2, <1>5, <2>1, <3>1, Loops
      <3>3. Gone(t, "return", {}) => Popped(t)
        BY DEF Gone
      <3>. QED
        BY <1>3, <2>1, <2>2, <3>2, <3>3
    <2>3. CASE Top(t).at = "cancelled"
      <3>1. Loop(t, "cancel_complete", f.todo, AfterCancel(t))
        BY <1>3, <2>3 DEF Return, At
      <3>2. AfterCancel(t) \in Labels \cup {"return"}
        BY <2>1 DEF AfterCancel
      <3>3. /\ f.todo = {} => Gone(t, AfterCancel(t), {})
            /\ f.todo # {} => Replaced(t, Moved(Top(t), "cancel_complete", f.todo))
        BY <1>1, <1>2, <1>5, <2>1, <3>1, <3>2, Loops
      <3>4. CASE f.todo = {} /\ f.op = "register"
        <4>1. AfterCancel(t) = AfterInsert(t) /\ AfterInsert(t) # "return"
          BY <1>3, <2>1, <3>4 DEF AfterCancel
        <4>2. Replaced(t, Moved(f, AfterInsert(t), f.todo))
          BY <1>3, <3>3, <3>4, <4>1 DEF Gone
        <4>. QED
          BY <1>3, <2>1, <2>3, <3>4, <4>2
      <3>5. CASE f.todo = {} /\ f.op # "register"
        <4>1. AfterCancel(t) = "return"
          BY <1>3, <3>5 DEF AfterCancel
        <4>2. Popped(t)
          BY <3>3, <3>5, <4>1 DEF Gone
        <4>. QED
          BY <3>5, <4>2
      <3>. QED
        BY <1>3, <2>1, <2>3, <3>3, <3>4, <3>5
    <2>. QED
      BY <1>2, <2>2, <2>3
  <1>9. CASE Popped(t) /\ f.todo = {}
    <2>1. Kept(t, n) /\ StackType' /\ n \notin DOMAIN stack'[t]
      BY <1>1, <1>4, <1>9, KeptFacts DEF Popped
    <2>2. GoesOn(t, n)
      BY <1>2, <1>3, <1>5, <1>9, <2>1 DEF GoesOn, Hand, Hand2, Carries
    <2>. QED
      BY <1>6, <1>7, <2>1, <2>2, QuietStep
  <1>10. ASSUME NEW label \in Labels, Replaced(t, Moved(f, label, f.todo)),
                \/ f.at = "callback" /\ label = "fire"
                \/ f.at = "cancelled" /\ label = "cancel_complete"
                \/ f.at = "cancelled" /\ f.todo = {} /\ f.op = "register"
                     /\ label = AfterInsert(t)
         PROVE  IInv' /\ Onward
    <2>1. PICK g : g = Moved(f, label, f.todo)
      OBVIOUS
    <2>2. /\ g \in FrameSet /\ g.at = label /\ g.todo = f.todo /\ g.op = f.op /\ g.id = f.id
          /\ g.want = f.want
      BY <1>5, <2>1, MovedType
    <2>3. Kept(t, n) /\ StackType' /\ n \in DOMAIN stack'[t] /\ stack'[t][n] = g
      BY <1>1, <1>4, <1>10, <2>1, KeptFacts DEF Replaced
    <2>4. label \in {"fire", "cancel_complete", "poll", "finish"}
      BY <1>10 DEF AfterInsert
    <2>5. Sound(g)'
      <3>1. Sound(g)
        <4>1. CASE label = "fire"
          BY <1>5, <1>10, <2>2, <4>1 DEF Sound, Delivering, Cancelling, AfterInsert
        <4>2. CASE label = "cancel_complete"
          BY <1>5, <1>10, <2>2, <4>2 DEF Sound, Delivering, Cancelling, AfterInsert
        <4>3. CASE label = "poll"
          BY <1>3, <1>5, <1>10, <2>2, <4>3 DEF Sound, Delivering, Cancelling, AfterInsert
        <4>4. CASE label = "finish"
          BY <1>5, <1>10, <2>2, <4>4 DEF Sound, Delivering, Cancelling, AfterInsert
        <4>. QED
          BY <2>4, <4>1, <4>2, <4>3, <4>4
      <3>. QED
        BY <1>6, <3>1 DEF Sound, Passed
    <2>6. GoesOn(t, n)
      BY <1>5, <1>10, <2>2, <2>3, <2>4 DEF GoesOn, Hand, Hand2, Carries, Registers
    <2>. QED
      BY <1>6, <1>7, <2>3, <2>5, <2>6, QuietStep
  <1>. QED
    BY <1>8, <1>9, <1>10

\* The application and the GPU.
LEMMA OutsideStep ==
  ASSUME IInv, AddRef \/ Submit \/ GpuComplete \/ UNCHANGED vars
  PROVE  IInv' /\ Onward
  <1>1. StackType /\ DataType /\ FrameInv /\ RegisterInv /\ CarryInv /\ PendingInv /\ SeenInv
    BY DEF IInv, TypeOK
  <1>2. UNCHANGED <<callback, futures, complete, pending, gated, log, stack, lost, begun>>
    BY DEF AddRef, Submit, GpuComplete, vars
  <1>3. /\ use_refs' \in Nat /\ (use_refs' = 0 <=> use_refs = 0)
        /\ latest' \in Nat /\ done' \in Nat /\ done <= done' /\ done' <= latest'
    BY <1>1 DEF AddRef, Submit, GpuComplete, vars, DataType
  <1>4. Onward
    BY <1>1, <1>2, <1>3, OnwardData
  <1>5. DataType' /\ StackType'
    BY <1>1, <1>2, <1>3 DEF DataType, Settled, StackType
  <1>6. FrameInv'
    <2>1. SUFFICES ASSUME NEW u \in Threads, NEW k \in DOMAIN stack[u]
                   PROVE  \E g : stack[u][k] = g /\ Sound(g)'
      BY <1>2 DEF FrameInv
    <2>2. PICK g : g = stack[u][k]
      OBVIOUS
    <2>3. Sound(g)
      BY <1>1, <2>2 DEF FrameInv
    <2>4. Sound(g)'
      BY <1>1, <1>2, <1>4, <2>3, SoundKept DEF Sound
    <2>. QED
      BY <2>2, <2>4
  <1>7. RegisterInv' /\ CarryInv' /\ PendingInv'
    <2>1. RegisterInv'
      BY <1>1, <1>2 DEF RegisterInv
    <2>2. CarryInv'
      <3>1. Settled' = Settled /\ DeliveredOnce'
        BY <1>1, <1>2 DEF CarryInv, Settled, DeliveredOnce
      <3>2. \A u \in Threads : \A k : Holds(u, k)' = Holds(u, k)
        BY <1>2 DEF Holds
      <3>. QED
        BY <1>1, <1>2, <3>1, <3>2 DEF CarryInv
    <2>3. \A id : (Taken(id) => Taken(id)') /\ (Completing(id) => Completing(id)')
                  /\ (Finishing(id) => Finishing(id)')
      BY <1>2 DEF Taken, Completing, Finishing
    <2>4. CancelComing => CancelComing'
      BY <1>2 DEF CancelComing
    <2>5. PendingInv'
      BY <1>1, <1>2, <1>3, <2>3, <2>4 DEF PendingInv, CancelComing
    <2>. QED
      BY <2>1, <2>2, <2>5
  <1>8. SeenInv'
    BY <1>1, <1>2, <1>4, SeenOn
  <1>. QED
    BY <1>4, <1>5, <1>6, <1>7, <1>8 DEF IInv, TypeOK

-----------------------------------------------------------------------------
(* Steps of an open call                                                   *)

\* The call on top of thread t, and what a step makes of it.
Open(t, n, f) ==
  /\ stack[t] # <<>> /\ f = Top(t) /\ n = Len(stack[t])
  /\ n \in DOMAIN stack[t] /\ stack[t][n] = f /\ Sound(f)
  /\ f \in FrameSet /\ f.op \in Calls /\ f.at \in Labels /\ f.id \in Nat
  /\ f.want \in Wants /\ f.todo \in SUBSET Nat
Turns(t, n, g) == Kept(t, n) /\ StackType' /\ n \in DOMAIN stack'[t] /\ stack'[t][n] = g
Ends(t, n) == Kept(t, n) /\ StackType' /\ n \notin DOMAIN stack'[t]
Follows(f, g, label, todo) ==
  /\ g \in FrameSet /\ g.at = label /\ g.todo = todo
  /\ g.op = f.op /\ g.id = f.id /\ g.want = f.want

\* The parts of the invariant but for the stack's type.
Parts == DataType /\ FrameInv /\ RegisterInv /\ CarryInv /\ PendingInv /\ SeenInv

LEMMA InParts ==
  /\ IInv <=> StackType /\ Parts
  /\ IInv => StackType /\ DataType /\ FrameInv /\ RegisterInv /\ CarryInv /\ PendingInv /\ SeenInv
  BY DEF IInv, TypeOK, Parts

LEMMA TopOpen ==
  ASSUME IInv, NEW t \in Threads, NEW label, At(t, label)
  PROVE  \E n, f : Open(t, n, f) /\ f.at = label
  <1>1. StackType /\ FrameInv /\ stack[t] # <<>> /\ Top(t).at = label
    BY InParts DEF At
  <1>2. PICK n : n = Len(stack[t])
    OBVIOUS
  <1>3. PICK f : f = Top(t)
    OBVIOUS
  <1>4. n \in DOMAIN stack[t] /\ stack[t][n] = f /\ f \in FrameSet /\ f.op \in Calls
        /\ f.at \in Labels /\ f.id \in Nat /\ f.want \in Wants /\ f.todo \in SUBSET Nat
    BY <1>1, <1>2, <1>3, TopFacts
  <1>5. Sound(f)
    BY <1>1, <1>4 DEF FrameInv
  <1>6. Open(t, n, f)
    BY <1>1, <1>2, <1>3, <1>4, <1>5 DEF Open
  <1>. QED
    BY <1>1, <1>3, <1>6

LEMMA GoesOpen ==
  ASSUME StackType, NEW t \in Threads, NEW n, NEW f, Open(t, n, f),
         NEW label \in Labels, NEW todo \in SUBSET Nat, Go(t, label, todo)
  PROVE  \E g : Turns(t, n, g) /\ Follows(f, g, label, todo)
  <1>1. PICK g : g = Moved(f, label, todo)
    OBVIOUS
  <1>2. Follows(f, g, label, todo)
    BY <1>1, MovedType DEF Open, Follows
  <1>3. stack[t] # <<>> /\ f = Top(t) /\ n = Len(stack[t]) /\ label # "return"
        /\ label \in Labels \cup {"return"}
    BY DEF Open, Labels
  <1>4. Gone(t, label, todo)
    BY <1>3, Goes
  <1>5. Replaced(t, g)
    BY <1>1, <1>3, <1>4 DEF Gone
  <1>6. Turns(t, n, g)
    BY <1>3, <1>5, KeptFacts DEF Turns, Replaced
  <1>. QED
    BY <1>2, <1>6

LEMMA LoopOpen ==
  ASSUME StackType, NEW t \in Threads, NEW n, NEW f, Open(t, n, f), NEW label \in Labels,
         NEW todo \in SUBSET Nat, NEW next \in Labels \cup {"return"}, Loop(t, label, todo, next)
  PROVE  \/ todo # {} /\ \E g : Turns(t, n, g) /\ Follows(f, g, label, todo)
         \/ todo = {} /\ next # "return" /\ \E g : Turns(t, n, g) /\ Follows(f, g, next, {})
         \/ todo = {} /\ next = "return" /\ Ends(t, n)
  <1>1. label # "return" /\ stack[t] # <<>> /\ n = Len(stack[t]) /\ {} \in SUBSET Nat
    BY DEF Labels, Open
  <1>2. CASE todo # {}
    BY <1>1, <1>2, GoesOpen DEF Loop
  <1>3. CASE todo = {} /\ next # "return"
    BY <1>1, <1>3, GoesOpen DEF Loop
  <1>4. CASE todo = {} /\ next = "return"
    <2>1. Popped(t)
      BY <1>1, <1>4, Pops DEF Loop, Go
    <2>. QED
      BY <1>1, <1>4, <2>1, KeptFacts DEF Ends, Popped
  <1>. QED
    BY <1>2, <1>3, <1>4

\* Device::lose
LEMMA LoseStep ==
  ASSUME IInv, NEW t \in Threads, Lose(t)
  PROVE  IInv' /\ Onward
  <1>1. StackType /\ DataType
    BY InParts
  <1>2. PICK n, f : Open(t, n, f) /\ f.at = "lose"
    BY TopOpen DEF Lose
  <1>3. Go(t, "abort", {}) /\ "abort" \in Labels /\ {} \in SUBSET Nat
    BY DEF Lose, Labels
  <1>4. PICK g : Turns(t, n, g) /\ Follows(f, g, "abort", {})
    BY <1>1, <1>2, <1>3, GoesOpen
  <1>5. /\ UNCHANGED <<callback, futures, complete, pending, gated, log>>
        /\ use_refs' \in Nat /\ latest' \in Nat /\ done' \in Nat /\ done <= done'
        /\ done' <= latest' /\ lost' \in BOOLEAN /\ (lost => lost')
        /\ (use_refs' = 0 <=> use_refs = 0) /\ begun' \in Nat
    BY <1>1 DEF Lose, DataType
  <1>6. Sound(g)'
    <2>1. lost'
      BY DEF Lose
    <2>2. f.op = "lose" /\ g.op = "lose" /\ g.at = "abort" /\ g.todo = {}
      BY <1>2, <1>4 DEF Open, Follows, Sound
    <2>. QED
      BY <2>1, <2>2 DEF Sound, Cancelling, Delivering
  <1>7. GoesOn(t, n)
    BY <1>2, <1>4 DEF Open, Turns, Follows, GoesOn, Hand, Hand2, Carries, Registers, Sound
  <1>. QED
    BY <1>4, <1>5, <1>6, <1>7, QuietStep DEF Turns

\* FutureRegistry::register
LEMMA RegisterStep ==
  ASSUME IInv, NEW t \in Threads, Register(t)
  PROVE  IInv' /\ Onward
  <1>1. StackType /\ DataType /\ FrameInv /\ RegisterInv /\ CarryInv /\ PendingInv /\ SeenInv
    BY InParts
  <1>2. PICK n, f : Open(t, n, f) /\ f.at = "register"
    BY TopOpen DEF Register
  <1>3. PICK id : id = Len(callback) + 1
    OBVIOUS
  <1>4. PICK g : g = [f EXCEPT !.at = "insert", !.id = id]
    OBVIOUS
  <1>5. /\ callback' = Append(callback, f.want) /\ futures' = futures \cup {id}
        /\ stack' = [stack EXCEPT ![t][Len(stack[t])] = g]
        /\ UNCHANGED <<complete, pending, gated, use_refs, queue_vars, begun, log>>
    BY <1>2, <1>3, <1>4 DEF Register, Open, Top
  <1>6. /\ id \in Nat /\ id \notin DOMAIN callback /\ DOMAIN callback' = DOMAIN callback \cup {id}
        /\ callback' \in Seq(Wants) /\ callback'[id] = f.want
        /\ \A i \in DOMAIN callback : callback'[i] = callback[i]
    BY <1>1, <1>2, <1>3, <1>5 DEF DataType, Open
  <1>7. /\ g \in FrameSet /\ g.at = "insert" /\ g.id = id /\ g.op = f.op /\ g.want = f.want
        /\ g.todo = f.todo
    BY <1>2, <1>4, <1>6 DEF Open, FrameSet, Labels
  <1>8. Turns(t, n, g)
    <2>1. stack[t] # <<>> /\ n = Len(stack[t])
      BY <1>2 DEF Open
    <2>2. Replaced(t, g)
      BY <1>1, <1>5, <1>7, <2>1, Replaces
    <2>. QED
      BY <1>1, <2>1, <2>2, KeptFacts DEF Turns, Replaced
  <1>9. DataType'
    BY <1>1, <1>5, <1>6 DEF DataType, Settled
  <1>10. Onward
    BY <1>1, <1>5, <1>6 DEF Onward, DataType, Passed
  <1>11. f.op = "register" /\ f.todo \subseteq DOMAIN callback
    BY <1>2 DEF Open, Sound
  <1>12. id \notin complete
    BY <1>1, <1>6 DEF DataType
  <1>13. Sound(g)'
    BY <1>5, <1>6, <1>7, <1>11, <1>12 DEF Sound, Cancelling, Delivering
  <1>14. FrameInv'
    BY <1>1, <1>5, <1>8, <1>10, <1>13, FrameCalm DEF Calm, Turns
  <1>15. RegisterOK(t, n)
    <2>1. ASSUME NEW u \in Threads, NEW k \in DOMAIN stack[u]
          PROVE  /\ Registers(stack[u][k]) => stack[u][k].id # id
                 /\ id \notin stack[u][k].todo
      BY <1>1, <1>6 DEF FrameInv, Sound, Registers
    <2>. QED
      BY <1>7, <1>8, <2>1 DEF RegisterOK, Turns
  <1>16. RegisterInv'
    BY <1>1, <1>8, <1>15, RegisterLift DEF Turns
  <1>17. CarryInv'
    <2>1. Hand(t, n) = {} /\ Hand2(t, n) = {id}
      BY <1>2, <1>7, <1>8 DEF Hand, Hand2, Carries, Open, Turns
    <2>2. Settled' = Settled /\ DeliveredOnce' /\ pending \cap Settled = {}
          /\ Settled \subseteq DOMAIN callback /\ pending \subseteq DOMAIN callback
      BY <1>1, <1>5 DEF Settled, CarryInv, DeliveredOnce, DataType
    <2>3. Hand2(t, n) \cup pending' \cup Settled' = Hand(t, n) \cup pending \cup Settled \cup {id}
      BY <1>5, <2>1, <2>2
    <2>4. /\ Hand2(t, n) \cap (pending' \cup Settled') = {} /\ pending' \cap Settled' = {}
          /\ {id} \cap DOMAIN callback = {}
      BY <1>5, <1>6, <2>1, <2>2
    <2>. QED
      BY <1>1, <1>6, <1>8, <2>2, <2>3, <2>4, CarryMove DEF Turns
  <1>18. PendingInv'
    BY <1>1, <1>2, <1>5, <1>8, PendingSame DEF Turns, Open
  <1>19. SeenInv'
    BY <1>1, <1>5, <1>10, SeenOn
  <1>. QED
    BY <1>8, <1>9, <1>10, <1>14, <1>16, <1>17, <1>18, <1>19 DEF IInv, TypeOK, Turns

\* register_pending_callback
LEMMA InsertStep ==
  ASSUME IInv, NEW t \in Threads, Insert(t)
  PROVE  IInv' /\ Onward
  <1>1. StackType /\ DataType /\ FrameInv /\ RegisterInv /\ CarryInv /\ PendingInv /\ SeenInv
    BY InParts
  <1>2. PICK n, f : Open(t, n, f) /\ f.at = "insert"
    BY TopOpen DEF Insert
  <1>3. f = Top(t) /\ f.op = "register" /\ f.id \in futures \ complete /\ f.id \in DOMAIN callback
    BY <1>2 DEF Open, Sound
  <1>4. UNCHANGED <<callback, registry_vars, use_refs, queue_vars, begun, log>>
    BY DEF Insert
  <1>5. /\ use_refs' \in Nat /\ latest' \in Nat /\ done' \in Nat /\ done <= done'
        /\ done' <= latest' /\ lost' \in BOOLEAN /\ (lost => lost') /\ (use_refs' = 0 <=> use_refs = 0)
        /\ begun' \in Nat
    BY <1>1, <1>4 DEF DataType
  <1>6. Onward
    BY <1>1, <1>4, <1>5, OnwardData
  <1>7. CASE use_refs = 0
    <2>1. Go(t, "cancel_complete", {f.id}) /\ UNCHANGED <<pending, gated>>
      BY <1>3, <1>7 DEF Insert
    <2>2. {f.id} \in SUBSET Nat /\ "cancel_complete" \in Labels
      BY <1>2 DEF Open, Labels
    <2>3. PICK g : Turns(t, n, g) /\ Follows(f, g, "cancel_complete", {f.id})
      BY <1>1, <1>2, <2>1, <2>2, GoesOpen
    <2>4. Sound(g)'
      BY <1>2, <1>3, <1>4, <1>7, <2>3 DEF Open, Follows, Sound, Cancelling, Delivering
    <2>5. GoesOn(t, n)
      BY <1>2, <1>3, <2>3 DEF GoesOn, Hand, Hand2, Carries, Registers, Open, Turns, Follows
    <2>. QED
      BY <1>4, <1>5, <2>1, <2>3, <2>4, <2>5, QuietStep DEF Turns
  <1>8. CASE use_refs # 0
    <2>1. PICK label : label = AfterInsert(t)
      OBVIOUS
    <2>2. /\ label \in {"poll", "finish"} /\ label \in Labels /\ {} \in SUBSET Nat
          /\ (label = "poll" <=> f.want.kind \in Gated)
      BY <1>3, <2>1 DEF AfterInsert, Labels
    <2>3. /\ pending' = pending \cup {f.id}
          /\ gated' = IF f.want.kind \in Gated THEN gated \cup {f.id} ELSE gated
          /\ Go(t, label, {})
      BY <1>3, <1>8, <2>1 DEF Insert
    <2>4. PICK g : Turns(t, n, g) /\ Follows(f, g, label, {})
      BY <1>1, <1>2, <2>2, <2>3, GoesOpen
    <2>5. DataType'
      BY <1>1, <1>3, <1>4, <1>5, <2>3 DEF DataType, Settled
    <2>6. FrameInv'
      <3>1. Sound(g)'
        BY <1>2, <1>3, <1>4, <2>2, <2>4 DEF Open, Follows, Sound, Cancelling, Delivering
      <3>2. ASSUME NEW u \in Threads, NEW k \in DOMAIN stack[u], Apart(u, k, t, n)
            PROVE  /\ stack[u][k].at = "insert" => stack[u][k].id \in futures' \ complete'
                   /\ stack[u][k].at = "take" => stack[u][k].todo \cap pending' \subseteq pending
        <4>1. stack[u][k].at = "insert" => stack[u][k].id \in futures' \ complete'
          BY <1>1, <1>4 DEF FrameInv, Sound
        <4>2. stack[u][k].at = "take" => f.id \notin stack[u][k].todo
          BY <1>1, <1>2, <3>2 DEF RegisterInv, Open, Apart
        <4>. QED
          BY <2>3, <4>1, <4>2
      <3>. QED
        BY <1>1, <1>6, <2>4, <3>1, <3>2, FrameLift DEF Turns
    <2>7. RegisterInv'
      BY <1>1, <1>2, <1>3, <2>2, <2>4, RegisterOn DEF Turns, Follows, Open, Registers
    <2>8. CarryInv'
      <3>1. Hand(t, n) = {f.id} /\ Hand2(t, n) = {}
        BY <1>2, <2>2, <2>4 DEF Hand, Hand2, Carries, Open, Turns, Follows
      <3>2. Settled' = Settled /\ DeliveredOnce' /\ pending \cap Settled = {}
            /\ Hand(t, n) \cap Settled = {}
        BY <1>1, <1>4 DEF Settled, CarryInv, DeliveredOnce, Hand, Holds
      <3>3. Hand2(t, n) \cup pending' \cup Settled' = Hand(t, n) \cup pending \cup Settled \cup {}
        BY <2>3, <3>1, <3>2
      <3>4. /\ Hand2(t, n) \cap (pending' \cup Settled') = {} /\ pending' \cap Settled' = {}
            /\ {} \cap DOMAIN callback = {} /\ DOMAIN callback' = DOMAIN callback \cup {}
        BY <1>4, <2>3, <3>1, <3>2
      <3>. QED
        BY <1>1, <2>4, <3>2, <3>3, <3>4, CarryMove DEF Turns
    <2>9. PendingInv'
      <3>1. \A id : /\ Taken(id) => Taken(id)'
                    /\ Completing(id) => Completing(id)'
                    /\ Finishing(id) => Finishing(id)'
        BY <1>2, <2>4, Persist DEF Turns, Loses, Open
      <3>2. f.want.kind \notin Gated => Finishing(f.id)'
        BY <2>2, <2>4 DEF Finishing, Turns, Follows
      <3>3. f.want.kind \in Gated => f.id \in gated'
        BY <2>3
      <3>4. gated \subseteq gated' /\ f.id \in futures'
        BY <1>3, <1>4, <2>3
      <3>5. ASSUME NEW id \in pending'
            PROVE  /\ id \in futures' \/ Taken(id)'
                   /\ \/ id \in gated' \/ id \in complete' \/ Taken(id)'
                      \/ Completing(id)' \/ Finishing(id)'
        <4>1. CASE id \in pending
          BY <1>1, <1>4, <3>1, <3>4, <4>1 DEF PendingInv
        <4>2. CASE id = f.id
          BY <3>2, <3>3, <3>4, <4>2
        <4>. QED
          BY <2>3, <4>1, <4>2
      <3>. QED
        BY <1>4, <1>8, <3>5 DEF PendingInv
    <2>10. SeenInv'
      BY <1>1, <1>3, <1>4, <1>6, <2>3, SeenOn
    <2>. QED
      BY <1>6, <2>4, <2>5, <2>6, <2>7, <2>8, <2>9, <2>10 DEF IInv, TypeOK, Turns
  <1>. QED
    BY <1>7, <1>8

\* A loop over futures to complete, and what follows it.
Onto(t, n, f, R) ==
  /\ Kept(t, n) /\ StackType' /\ n \in DOMAIN stack[t] /\ stack[t][n] = f
  /\ Hand(t, n) = {} /\ Hand2(t, n) = {}
  /\ n \in DOMAIN stack'[t] => \E g :
       /\ stack'[t][n] = g /\ Sound(g)' /\ g.id = f.id
       /\ Registers(g) => Registers(f)
       /\ \/ g.at = "complete" /\ g.todo = R
          \/ g.at \in {"finish", "take_ready", "take_waited"}
  /\ \A id \in R : Completing(id)'

LEMMA AfterPollIs ==
  ASSUME NEW t \in Threads, NEW n, NEW f, Open(t, n, f), f.op # "release"
  PROVE  /\ AfterPoll(t) \in Labels \cup {"return"}
         /\ \/ AfterPoll(t) = "finish" /\ f.op = "register"
            \/ AfterPoll(t) = "take_ready" /\ f.op = "process"
            \/ AfterPoll(t) = "take_waited" /\ f.op = "wait"
            \/ AfterPoll(t) = "return" /\ f.op = "lose"
  <1>1. f = Top(t) /\ f.op \in {"register", "process", "wait", "lose"}
    BY DEF Open, Calls
  <1>2. CASE f.op = "register"
    BY <1>1, <1>2 DEF AfterPoll, Labels
  <1>3. CASE f.op = "process"
    BY <1>1, <1>3 DEF AfterPoll, Labels
  <1>4. CASE f.op = "wait"
    BY <1>1, <1>4 DEF AfterPoll, Labels
  <1>5. CASE f.op = "lose"
    BY <1>1, <1>5 DEF AfterPoll, Labels
  <1>. QED
    BY <1>1, <1>2, <1>3, <1>4, <1>5

LEMMA GoesOnto ==
  ASSUME StackType, NEW t \in Threads, NEW n, NEW f, Open(t, n, f),
         f.at \in {"poll", "complete", "abort"}, Onward,
         NEW R \in SUBSET DOMAIN callback, R \in SUBSET Nat, \A id \in R : Passed(id)',
         Loop(t, "complete", R, AfterPoll(t))
  PROVE  Onto(t, n, f, R)
  <1>1. /\ f.op # "release" /\ (f.op = "register" => f.want.kind \in Gated)
        /\ f.op = "register" => f.id \in DOMAIN callback' /\ callback'[f.id].kind = f.want.kind
        /\ n \in DOMAIN stack[t] /\ stack[t][n] = f /\ Carries(f) = {}
    BY DEF Open, Sound, Onward, Carries
  <1>2. PICK next : next = AfterPoll(t)
    OBVIOUS
  <1>3. /\ next \in Labels \cup {"return"}
        /\ \/ next = "finish" /\ f.op = "register"
           \/ next = "take_ready" /\ f.op = "process"
           \/ next = "take_waited" /\ f.op = "wait"
           \/ next = "return" /\ f.op = "lose"
    BY <1>1, <1>2, AfterPollIs
  <1>4. \/ R # {} /\ \E g : Turns(t, n, g) /\ Follows(f, g, "complete", R)
        \/ R = {} /\ next # "return" /\ \E g : Turns(t, n, g) /\ Follows(f, g, next, {})
        \/ R = {} /\ next = "return" /\ Ends(t, n)
    BY <1>2, <1>3, LoopOpen DEF Labels
  <1>5. R \subseteq DOMAIN callback'
    BY DEF Onward
  <1>6. ASSUME NEW g, Turns(t, n, g), Follows(f, g, "complete", R) PROVE Onto(t, n, f, R)
    <2>1. g.op = f.op /\ g.id = f.id /\ g.want = f.want /\ g.at = "complete" /\ g.todo = R
      BY <1>6 DEF Follows
    <2>2. Sound(g)'
      BY <1>1, <1>5, <2>1 DEF Sound, Cancelling, Delivering
    <2>3. Carries(g) = {} /\ (Registers(g) => Registers(f))
      BY <2>1 DEF Carries, Registers
    <2>4. \A id \in R : Completing(id)'
      BY <1>6, <2>1 DEF Completing, Turns
    <2>. QED
      BY <1>1, <1>6, <2>1, <2>2, <2>3, <2>4 DEF Onto, Turns, Hand, Hand2
  <1>7. ASSUME NEW g, Turns(t, n, g), Follows(f, g, next, {}), R = {}, next # "return"
        PROVE  Onto(t, n, f, R)
    <2>1. g.op = f.op /\ g.id = f.id /\ g.want = f.want /\ g.at = next /\ g.todo = {}
      BY <1>7 DEF Follows
    <2>2. Sound(g)'
      BY <1>1, <1>3, <1>7, <2>1 DEF Sound, Cancelling, Delivering
    <2>3. Carries(g) = {} /\ (Registers(g) => Registers(f))
          /\ g.at \in {"finish", "take_ready", "take_waited"}
      BY <1>3, <1>7, <2>1 DEF Carries, Registers
    <2>. QED
      BY <1>1, <1>7, <2>1, <2>2, <2>3 DEF Onto, Turns, Hand, Hand2
  <1>8. CASE R = {} /\ Ends(t, n)
    BY <1>1, <1>8 DEF Onto, Ends, Hand, Hand2
  <1>. QED
    BY <1>4, <1>6, <1>7, <1>8

\* Callbacks of the map are resolved, and their futures are completed next.
LEMMA ResolveStep ==
  ASSUME IInv, NEW t \in Threads, NEW n, NEW f, Open(t, n, f), f.at \in {"poll", "abort"},
         Onward, DataType', DOMAIN callback' = DOMAIN callback,
         UNCHANGED <<registry_vars, pending, use_refs, log>>,
         NEW R \in SUBSET pending, \A i \in R : Passed(i)', gated \ R \subseteq gated',
         Loop(t, "complete", R, AfterPoll(t))
  PROVE  IInv'
  <1>1. StackType /\ DataType /\ FrameInv /\ RegisterInv /\ CarryInv /\ PendingInv /\ SeenInv
    BY InParts
  <1>2. R \subseteq DOMAIN callback /\ R \in SUBSET Nat
    BY <1>1 DEF DataType
  <1>3. Onto(t, n, f, R)
    BY <1>1, <1>2, GoesOnto
  <1>4. Kept(t, n) /\ StackType' /\ stack[t][n] = f /\ n \in DOMAIN stack[t]
    BY <1>3 DEF Onto
  <1>5. FrameInv'
    BY <1>1, <1>3, <1>4, FrameCalm DEF Calm, Onto
  <1>6. RegisterInv'
    <2>1. ASSUME NEW u \in Threads, NEW k \in DOMAIN stack[u], Apart(u, k, t, n)
          PROVE  /\ Registers(f) /\ Registers(stack[u][k]) => stack[u][k].id # f.id
                 /\ stack[u][k].at = "insert" => stack[u][k].id \notin R
      <3>1. Registers(f) /\ Registers(stack[u][k]) => stack[u][k].id # f.id
        BY <1>1, <1>4, <2>1 DEF RegisterInv
      <3>2. stack[u][k].at = "insert" => stack[u][k].id \notin pending
        BY <1>1 DEF CarryInv, Holds, Carries
      <3>. QED
        BY <3>1, <3>2
    <2>2. RegisterOK(t, n)
      BY <1>3, <2>1 DEF RegisterOK, Onto
    <2>. QED
      BY <1>1, <1>4, <2>2, RegisterLift
  <1>7. CarryInv'
    BY <1>1, <1>3, <1>4, CarrySame DEF Onto
  <1>8. PendingInv'
    <2>1. \A id : /\ Taken(id) => Taken(id)'
                  /\ Completing(id) => Completing(id)'
                  /\ Finishing(id) => Finishing(id)'
      BY <1>4, Persist DEF Loses
    <2>2. CancelComing => CancelComing'
      BY <1>4, Persist
    <2>3. \A id \in gated : id \in gated' \/ Completing(id)'
      BY <1>3 DEF Onto
    <2>. QED
      BY <1>1, <2>1, <2>2, <2>3 DEF PendingInv, CancelComing
  <1>9. SeenInv'
    BY <1>1, SeenOn
  <1>. QED
    BY <1>4, <1>5, <1>6, <1>7, <1>8, <1>9 DEF IInv, TypeOK

\* A callback that ended, failed or was left alone.
Answered(i) ==
  \/ i \in Attached /\ callback'[i] = Ended(callback[i]) /\ lost'
  \/ callback'[i] = [callback[i] EXCEPT !.outcome = "error"]
  \/ callback'[i] = callback[i]

LEMMA EndedFacts ==
  ASSUME NEW w \in Wants
  PROVE  /\ Ended(w) \in Wants /\ Ended(w).kind = w.kind /\ Ended(w).mode = w.mode
         /\ Ended(w).outcome = IF w.kind = "work_done" THEN "success" ELSE "aborted"
         /\ [w EXCEPT !.outcome = "error"] \in Wants
         /\ [w EXCEPT !.outcome = "error"].kind = w.kind
         /\ [w EXCEPT !.outcome = "error"].mode = w.mode
  BY DEF Wants, Ended

LEMMA AnswerFacts ==
  ASSUME DataType, DOMAIN callback' = DOMAIN callback, callback' = [i \in DOMAIN callback |-> callback'[i]],
         \A i \in DOMAIN callback : Answered(i),
         done' \in Nat, done <= done', lost => lost'
  PROVE  /\ callback' \in Seq(Wants)
         /\ \A i \in DOMAIN callback :
              /\ callback'[i].kind = callback[i].kind /\ callback'[i].mode = callback[i].mode
              /\ Passed(i) => Passed(i)'
              /\ callback'[i] # callback[i] => Passed(i)'
         /\ \A i \in Attached : callback'[i] = Ended(callback[i]) /\ lost' => Passed(i)'
  <1>1. callback \in Seq(Wants) /\ done \in Nat
    BY DEF DataType
  <1>2. ASSUME NEW w \in Wants
        PROVE  /\ Ended(w) \in Wants /\ Ended(w).kind = w.kind /\ Ended(w).mode = w.mode
               /\ Ended(w).outcome = IF w.kind = "work_done" THEN "success" ELSE "aborted"
               /\ [w EXCEPT !.outcome = "error"] \in Wants
    BY EndedFacts
  <1>3. ASSUME NEW i \in DOMAIN callback
        PROVE  /\ callback'[i] \in Wants
               /\ callback'[i].kind = callback[i].kind /\ callback'[i].mode = callback[i].mode
               /\ Passed(i) => Passed(i)'
               /\ callback'[i] # callback[i] => Passed(i)'
               /\ callback'[i] = Ended(callback[i]) /\ lost' => Passed(i)'
    <2>1. PICK w : w = callback[i]
      OBVIOUS
    <2>2. w \in Wants /\ w.index \in Nat
      BY <1>1, <2>1 DEF Wants
    <2>3. callback'[i] = Ended(w) /\ lost' =>
            callback'[i] \in Wants /\ callback'[i].kind = w.kind /\ callback'[i].mode = w.mode
              /\ Passed(i)'
      BY <1>2, <2>2 DEF Passed
    <2>4. CASE callback'[i] = Ended(w) /\ lost'
      BY <2>1, <2>3, <2>4
    <2>5. CASE callback'[i] = [w EXCEPT !.outcome = "error"]
      <3>1. callback'[i] \in Wants /\ callback'[i].kind = w.kind /\ callback'[i].mode = w.mode
            /\ callback'[i].outcome = "error"
        BY <1>2, <2>2, <2>5 DEF Wants
      <3>. QED
        BY <2>1, <2>3, <3>1 DEF Passed
    <2>6. CASE callback'[i] = w
      <3>1. Passed(i) => Passed(i)'
        BY <1>1, <2>1, <2>2, <2>6 DEF Passed
      <3>. QED
        BY <2>1, <2>2, <2>3, <2>6, <3>1
    <2>. QED
      BY <2>1, <2>4, <2>5, <2>6 DEF Answered
  <1>4. callback' \in Seq(Wants)
    <2>1. DOMAIN callback = 1 .. Len(callback) /\ Len(callback) \in Nat
      BY <1>1
    <2>2. callback' \in [1 .. Len(callback) -> Wants]
      BY <1>3, <2>1
    <2>. QED
      BY <2>1, <2>2, SeqDef
  <1>5. Attached \subseteq DOMAIN callback
    BY DEF Attached, DataType
  <1>. QED
    BY <1>3, <1>4, <1>5

\* poll_submission_callbacks
LEMMA PollIs ==
  ASSUME NEW t \in Threads, Poll(t)
  PROVE  \E seen \in Answers, alive \in SUBSET Attached : \E erred \in SUBSET (gated \cap alive) :
       /\ Attached \ alive # {} => lost \/ \E u \in Threads \ {t} : At(u, "lose")
       /\ lost => alive = {}
       /\ \A j \in erred : ~Blocked(seen, alive, erred, j)
       /\ lost' = (lost \/ Attached \ alive # {})
       /\ done' \in done .. latest
       /\ \A i \in gated : seen[i] <= done'
       /\ callback' = [i \in DOMAIN callback |->
            IF i \in Attached \ alive THEN Ended(callback[i])
            ELSE IF i \in erred THEN [callback[i] EXCEPT !.outcome = "error"]
            ELSE callback[i]]
       /\ gated' = gated \ ((Attached \ alive) \cup Resolved(seen, alive, erred))
       /\ Loop(t, "complete", (Attached \ alive) \cup Resolved(seen, alive, erred), AfterPoll(t))
  BY DEF Poll

LEMMA PollStep ==
  ASSUME IInv, NEW t \in Threads, Poll(t)
  PROVE  IInv' /\ Onward
  <1>1. StackType /\ DataType
    BY InParts
  <1>2. PICK n, f : Open(t, n, f) /\ f.at = "poll"
    BY TopOpen DEF Poll
  <1>a3. PICK seen \in Answers, alive \in SUBSET Attached : \E erred \in SUBSET (gated \cap alive) :
       /\ lost' = (lost \/ Attached \ alive # {})
       /\ done' \in done .. latest
       /\ \A i \in gated : seen[i] <= done'
       /\ callback' = [i \in DOMAIN callback |->
            IF i \in Attached \ alive THEN Ended(callback[i])
            ELSE IF i \in erred THEN [callback[i] EXCEPT !.outcome = "error"]
            ELSE callback[i]]
       /\ gated' = gated \ ((Attached \ alive) \cup Resolved(seen, alive, erred))
       /\ Loop(t, "complete", (Attached \ alive) \cup Resolved(seen, alive, erred), AfterPoll(t))
    BY PollIs
  <1>3. PICK erred \in SUBSET (gated \cap alive) :
       /\ lost' = (lost \/ Attached \ alive # {})
       /\ done' \in done .. latest
       /\ \A i \in gated : seen[i] <= done'
       /\ callback' = [i \in DOMAIN callback |->
            IF i \in Attached \ alive THEN Ended(callback[i])
            ELSE IF i \in erred THEN [callback[i] EXCEPT !.outcome = "error"]
            ELSE callback[i]]
       /\ gated' = gated \ ((Attached \ alive) \cup Resolved(seen, alive, erred))
       /\ Loop(t, "complete", (Attached \ alive) \cup Resolved(seen, alive, erred), AfterPoll(t))
    BY <1>a3
  <1>4. UNCHANGED <<registry_vars, pending, use_refs, latest, begun, log>>
    BY DEF Poll
  <1>5. PICK R : R = (Attached \ alive) \cup Resolved(seen, alive, erred)
    OBVIOUS
  <1>6. /\ R \subseteq pending /\ gated \subseteq DOMAIN callback
        /\ done \in Nat /\ latest \in Nat /\ lost \in BOOLEAN /\ callback \in Seq(Wants)
    BY <1>1, <1>5 DEF Attached, Resolved, DataType
  <1>7. done' \in Nat /\ done <= done' /\ done' <= latest' /\ (lost => lost') /\ lost' \in BOOLEAN
        /\ DOMAIN callback' = DOMAIN callback
    <2>1. done' \in Nat /\ done <= done' /\ done' <= latest'
      BY <1>3, <1>4, <1>6
    <2>2. (lost => lost') /\ lost' \in BOOLEAN
      BY <1>3, <1>6
    <2>3. DOMAIN callback' = DOMAIN callback
      BY <1>3
    <2>. QED
      BY <2>1, <2>2, <2>3
  <1>8. \A i \in DOMAIN callback : Answered(i)
    BY <1>3 DEF Answered
  <1>9. /\ callback' \in Seq(Wants)
        /\ \A i \in DOMAIN callback :
             /\ callback'[i].kind = callback[i].kind
             /\ Passed(i) => Passed(i)'
             /\ callback'[i] # callback[i] => Passed(i)'
        /\ \A i \in Attached : callback'[i] = Ended(callback[i]) /\ lost' => Passed(i)'
    BY <1>1, <1>3, <1>7, <1>8, AnswerFacts
  <1>10. ASSUME NEW i \in R PROVE Passed(i)'
    <2>1. i \in DOMAIN callback /\ callback[i] \in Wants
      BY <1>1, <1>6 DEF DataType
    <2>2. CASE i \in Attached \ alive
      BY <1>3, <1>9, <2>1, <2>2
    <2>3. CASE i \in gated \cap alive /\ i \in erred
      <3>1. callback'[i].outcome = "error"
        BY <1>3, <2>1, <2>3 DEF Wants
      <3>. QED
        BY <3>1 DEF Passed
    <2>4. CASE i \in gated \cap alive /\ i \notin erred /\ ~Blocks(seen, i)
      <3>1. callback'[i] = callback[i] /\ callback[i].index \in Nat
        BY <1>3, <2>1, <2>4 DEF Wants
      <3>2. seen[i] \in Nat /\ seen[i] <= done'
        BY <1>3, <1>6, <2>4 DEF Answers
      <3>3. callback[i].index <= seen[i]
        BY <2>4, <3>1, <3>2 DEF Blocks
      <3>. QED
        BY <1>7, <3>1, <3>2, <3>3 DEF Passed
    <2>. QED
      BY <1>5, <2>2, <2>3, <2>4 DEF Resolved
  <1>11. DataType'
    <2>1. gated' \subseteq gated
      BY <1>3
    <2>. QED
      BY <1>1, <1>4, <1>7, <1>9, <2>1 DEF DataType, Settled
  <1>12. Onward
    BY <1>4, <1>7, <1>9 DEF Onward
  <1>13. IInv'
    BY <1>2, <1>3, <1>4, <1>5, <1>6, <1>7, <1>10, <1>11, <1>12, ResolveStep
  <1>. QED
    BY <1>12, <1>13

\* abort_pending_device_callbacks.  The device is lost: the call has lost it.
LEMMA AbortStep ==
  ASSUME IInv, NEW t \in Threads, Abort(t)
  PROVE  IInv' /\ Onward
  <1>1. StackType /\ DataType
    BY InParts
  <1>2. PICK n, f : Open(t, n, f) /\ f.at = "abort"
    BY TopOpen DEF Abort
  <1>3. /\ callback' = [i \in DOMAIN callback |->
                          IF i \in Attached THEN Ended(callback[i]) ELSE callback[i]]
        /\ gated' = gated \ Attached
        /\ Loop(t, "complete", Attached, "return")
        /\ UNCHANGED <<registry_vars, pending, use_refs, queue_vars, begun, log>>
    BY DEF Abort
  <1>4. f.op = "lose" /\ lost
    BY <1>2 DEF Open, Sound
  <1>5. AfterPoll(t) = "return"
    BY <1>2, <1>4, AfterPollIs
  <1>6. /\ Attached \subseteq pending /\ done' \in Nat /\ done <= done' /\ (lost => lost') /\ lost'
        /\ DOMAIN callback' = DOMAIN callback
    BY <1>1, <1>3, <1>4 DEF DataType, Attached
  <1>7. \A i \in DOMAIN callback : Answered(i)
    BY <1>3, <1>6 DEF Answered
  <1>8. /\ callback' \in Seq(Wants)
        /\ \A i \in DOMAIN callback :
             /\ callback'[i].kind = callback[i].kind
             /\ Passed(i) => Passed(i)'
        /\ \A i \in Attached : callback'[i] = Ended(callback[i]) /\ lost' => Passed(i)'
    BY <1>1, <1>3, <1>6, <1>7, AnswerFacts
  <1>9. \A i \in Attached : Passed(i)'
    BY <1>1, <1>3, <1>6, <1>8 DEF DataType
  <1>10. DataType'
    <2>1. gated' \subseteq gated
      BY <1>3
    <2>. QED
      BY <1>1, <1>3, <1>6, <1>8, <2>1 DEF DataType, Settled
  <1>11. Onward
    BY <1>3, <1>6, <1>8 DEF Onward
  <1>12. IInv'
    BY <1>2, <1>3, <1>5, <1>6, <1>9, <1>10, <1>11, ResolveStep
  <1>. QED
    BY <1>11, <1>12

\* complete_future
LEMMA CompleteStep ==
  ASSUME IInv, NEW t \in Threads, Complete(t)
  PROVE  IInv' /\ Onward
  <1>1. StackType /\ DataType /\ FrameInv /\ RegisterInv /\ CarryInv /\ PendingInv /\ SeenInv
    BY InParts
  <1>2. PICK n, f : Open(t, n, f) /\ f.at = "complete"
    BY TopOpen DEF Complete
  <1>3. PICK id \in f.todo :
          /\ complete' = complete \cup ({id} \cap futures)
          /\ Loop(t, "complete", f.todo \ {id}, AfterPoll(t))
    BY <1>2 DEF Complete, Open
  <1>4. UNCHANGED <<callback, futures, pending, gated, use_refs, queue_vars, begun, log>>
    BY DEF Complete
  <1>5. f.todo \subseteq DOMAIN callback /\ Passed(id) /\ \A i \in f.todo : Passed(i)
    BY <1>2, <1>3 DEF Open, Sound
  <1>6. DataType'
    BY <1>1, <1>3, <1>4 DEF DataType, Settled
  <1>7. Onward
    BY <1>1, <1>3, <1>4, OnwardData DEF DataType
  <1>8. PICK R : R = f.todo \ {id}
    OBVIOUS
  <1>9. R \in SUBSET Nat /\ R \subseteq DOMAIN callback /\ (\A i \in R : Passed(i)')
    BY <1>2, <1>4, <1>5, <1>8 DEF Open, Passed
  <1>10. Onto(t, n, f, R)
    BY <1>1, <1>2, <1>3, <1>7, <1>8, <1>9, GoesOnto
  <1>11. Kept(t, n) /\ StackType' /\ stack[t][n] = f /\ n \in DOMAIN stack[t]
    BY <1>10 DEF Onto
  <1>12. FrameInv'
    <2>1. ASSUME NEW u \in Threads, NEW k \in DOMAIN stack[u], Apart(u, k, t, n)
          PROVE  /\ stack[u][k].at = "insert" => stack[u][k].id \in futures' \ complete'
                 /\ stack[u][k].at = "take" => stack[u][k].todo \cap pending' \subseteq pending
      <3>1. stack[u][k].at = "insert" => stack[u][k].id \notin f.todo
        BY <1>1, <1>2, <1>11, <2>1 DEF RegisterInv
      <3>2. stack[u][k].at = "insert" => stack[u][k].id \in futures \ complete
        BY <1>1 DEF FrameInv, Sound
      <3>. QED
        BY <1>3, <1>4, <3>1, <3>2
    <2>. QED
      BY <1>1, <1>7, <1>10, <1>11, <2>1, FrameLift DEF Onto
  <1>13. RegisterInv'
    BY <1>1, <1>2, <1>8, <1>10, <1>11, RegisterOn DEF Onto
  <1>14. CarryInv'
    BY <1>1, <1>4, <1>10, <1>11, CarrySame DEF Onto
  <1>15. PendingInv'
    <2>1. \A i : /\ Taken(i) => Taken(i)'
                 /\ Completing(i) /\ i \notin f.todo => Completing(i)'
                 /\ Finishing(i) => Finishing(i)'
      BY <1>2, <1>11, Persist DEF Loses
    <2>2. CancelComing => CancelComing'
      BY <1>2, <1>11, Persist
    <2>3. \A i \in R : Completing(i)'
      BY <1>10 DEF Onto
    <2>4. ASSUME NEW i \in pending
          PROVE  /\ i \in futures \/ Taken(i)'
                 /\ \/ i \in gated \/ i \in complete' \/ Taken(i)'
                    \/ Completing(i)' \/ Finishing(i)'
      <3>1. i \in futures \/ Taken(i)
        BY <1>1 DEF PendingInv
      <3>2. i \in gated \/ i \in complete \/ Taken(i) \/ Completing(i) \/ Finishing(i)
        BY <1>1 DEF PendingInv
      <3>3. CASE i = id
        BY <1>3, <2>1, <3>1, <3>3
      <3>4. CASE i # id
        BY <1>3, <1>8, <2>1, <2>3, <3>1, <3>2, <3>4
      <3>. QED
        BY <3>3, <3>4
    <2>. QED
      BY <1>1, <1>4, <2>2, <2>4 DEF PendingInv, CancelComing
  <1>16. SeenInv'
    <2>1. Passed(id)'
      BY <1>4, <1>5 DEF Passed
    <2>. QED
      BY <1>1, <1>3, <1>4, <1>7, <2>1, SeenOn
  <1>. QED
    BY <1>6, <1>7, <1>11, <1>12, <1>13, <1>14, <1>15, <1>16 DEF IInv, TypeOK

\* FutureRegistry::process_events and wait_any
LEMMA TakesReady ==
  ASSUME IInv, NEW t \in Threads, NEW n, NEW f, Open(t, n, f),
         f.at \in {"take_ready", "take_waited"}, NEW R \in SUBSET complete,
         futures' = futures \ R, complete' = complete \ R, Loop(t, "take", R, "return"),
         UNCHANGED <<callback, pending, gated, use_refs, queue_vars, begun, log>>
  PROVE  IInv' /\ Onward
  <1>1. StackType /\ DataType /\ FrameInv /\ RegisterInv /\ CarryInv /\ PendingInv /\ SeenInv
    BY InParts
  <1>2. f.op \in {"process", "wait"} /\ R \subseteq DOMAIN callback /\ R \in SUBSET Nat
    BY <1>1 DEF Open, Sound, DataType
  <1>3. DataType'
    BY <1>1 DEF DataType, Settled
  <1>4. Onward
    BY <1>1, OnwardData DEF DataType
  <1>5. \/ R # {} /\ \E g : Turns(t, n, g) /\ Follows(f, g, "take", R)
        \/ R = {} /\ Ends(t, n)
    BY <1>1, <1>2, LoopOpen DEF Labels
  <1>6. Kept(t, n) /\ StackType'
    BY <1>5 DEF Turns, Ends
  <1>7. ASSUME n \in DOMAIN stack'[t]
        PROVE  LET g == stack'[t][n] IN g.at = "take" /\ g.todo = R /\ g.op = f.op
    BY <1>5, <1>7 DEF Turns, Ends, Follows
  <1>8. \A i \in R : n \in DOMAIN stack'[t]
    BY <1>5 DEF Turns
  <1>9. FrameInv'
    <2>1. ASSUME NEW u \in Threads, NEW k \in DOMAIN stack[u], Apart(u, k, t, n)
          PROVE  /\ stack[u][k].at = "insert" => stack[u][k].id \in futures' \ complete'
                 /\ stack[u][k].at = "take" => stack[u][k].todo \cap pending' \subseteq pending
      BY <1>1 DEF FrameInv, Sound
    <2>2. ASSUME n \in DOMAIN stack'[t] PROVE \E g : stack'[t][n] = g /\ Sound(g)'
      <3>1. PICK g : g = stack'[t][n]
        OBVIOUS
      <3>2. g.at = "take" /\ g.todo = R /\ g.op = f.op
        BY <1>7, <2>2, <3>1
      <3>3. \A i \in R \cap pending : Passed(i)'
        BY <1>1 DEF SeenInv, Passed
      <3>4. Sound(g)'
        BY <1>2, <3>2, <3>3 DEF Sound, Cancelling, Delivering
      <3>. QED
        BY <3>1, <3>4
    <2>. QED
      BY <1>1, <1>4, <1>6, <2>1, <2>2, FrameLift
  <1>10. RegisterInv'
    <2>1. RegisterOK(t, n)
      <3>1. ASSUME NEW u \in Threads, NEW k \in DOMAIN stack[u]
            PROVE  stack[u][k].at = "insert" => stack[u][k].id \notin R
        BY <1>1 DEF FrameInv, Sound
      <3>. QED
        BY <1>2, <1>7, <3>1 DEF RegisterOK, Registers
    <2>. QED
      BY <1>1, <1>6, <2>1, RegisterLift
  <1>11. CarryInv'
    <2>1. Hand2(t, n) = Hand(t, n)
      BY <1>7 DEF Hand, Hand2, Open, Carries
    <2>. QED
      BY <1>1, <1>6, <2>1, CarrySame
  <1>12. PendingInv'
    <2>1. \A i : /\ Taken(i) => Taken(i)'
                 /\ Completing(i) => Completing(i)'
                 /\ Finishing(i) => Finishing(i)'
      BY <1>6, Persist DEF Loses, Open
    <2>2. CancelComing => CancelComing'
      BY <1>6, Persist DEF Open
    <2>3. \A i \in R : Taken(i)'
      BY <1>7, <1>8 DEF Taken
    <2>. QED
      BY <1>1, <2>1, <2>2, <2>3 DEF PendingInv, CancelComing
  <1>13. SeenInv'
    BY <1>1, <1>4, SeenOn
  <1>. QED
    BY <1>3, <1>4, <1>6, <1>9, <1>10, <1>11, <1>12, <1>13 DEF IInv, TypeOK

LEMMA TakeReadyStep ==
  ASSUME IInv, NEW t \in Threads, TakeReady(t) \/ TakeWaited(t)
  PROVE  IInv' /\ Onward
  <1>1. CASE TakeReady(t)
    <2>1. PICK n, f : Open(t, n, f) /\ f.at = "take_ready"
      BY <1>1, TopOpen DEF TakeReady
    <2>2. PICK R : R = Processable
      OBVIOUS
    <2>3. R \in SUBSET complete
      BY <2>2 DEF Processable
    <2>4. /\ futures' = futures \ R /\ complete' = complete \ R /\ Loop(t, "take", R, "return")
          /\ UNCHANGED <<callback, pending, gated, use_refs, queue_vars, begun, log>>
      BY <1>1, <2>2 DEF TakeReady
    <2>. QED
      BY <2>1, <2>3, <2>4, TakesReady
  <1>2. CASE TakeWaited(t)
    <2>1. PICK n, f : Open(t, n, f) /\ f.at = "take_waited"
      BY <1>2, TopOpen DEF TakeWaited
    <2>2. PICK R : R = complete \cap Top(t).list
      OBVIOUS
    <2>3. R \in SUBSET complete
      BY <2>2
    <2>4. /\ futures' = futures \ R /\ complete' = complete \ R /\ Loop(t, "take", R, "return")
          /\ UNCHANGED <<callback, pending, gated, use_refs, queue_vars, begun, log>>
      BY <1>2, <2>2 DEF TakeWaited
    <2>. QED
      BY <2>1, <2>3, <2>4, TakesReady
  <1>. QED
    BY <1>1, <1>2

\* A call takes ids out of the map, and holds them.
LEMMA Grabs ==
  ASSUME IInv, NEW t \in Threads, NEW n, NEW f, Open(t, n, f), Carries(f) = {},
         NEW R \in SUBSET pending, NEW label \in {"fire", "cancel_complete"},
         Loop(t, label, R, "return"), pending' = pending \ R, callback' = callback, log' = log,
         f.op = "register" => f.at # "register"
  PROVE  /\ Kept(t, n) /\ StackType' /\ CarryInv' /\ RegisterInv'
         /\ n \in DOMAIN stack'[t] => \E g : stack'[t][n] = g /\ Follows(f, g, label, R)
  <1>1. StackType /\ DataType /\ FrameInv /\ RegisterInv /\ CarryInv
    BY InParts
  <1>2. R \subseteq DOMAIN callback /\ R \in SUBSET Nat /\ label \in Labels
    BY <1>1 DEF DataType, Labels
  <1>3. \/ R # {} /\ \E g : Turns(t, n, g) /\ Follows(f, g, label, R)
        \/ R = {} /\ Ends(t, n)
    BY <1>1, <1>2, LoopOpen
  <1>4. Kept(t, n) /\ StackType'
    BY <1>3 DEF Turns, Ends
  <1>5. n \in DOMAIN stack'[t] => \E g : stack'[t][n] = g /\ Follows(f, g, label, R)
    BY <1>3 DEF Turns, Ends
  <1>6. Hand(t, n) = {} /\ Hand2(t, n) = R
    BY <1>3 DEF Hand, Hand2, Carries, Open, Turns, Ends, Follows
  <1>7. CarryInv'
    <2>1. Settled' = Settled /\ DeliveredOnce' /\ pending \cap Settled = {}
      BY <1>1 DEF Settled, CarryInv, DeliveredOnce
    <2>2. Hand2(t, n) \cup pending' \cup Settled' = Hand(t, n) \cup pending \cup Settled \cup {}
      BY <1>6, <2>1
    <2>3. /\ Hand2(t, n) \cap (pending' \cup Settled') = {} /\ pending' \cap Settled' = {}
          /\ {} \cap DOMAIN callback = {} /\ DOMAIN callback' = DOMAIN callback \cup {}
      BY <1>6, <2>1
    <2>. QED
      BY <1>1, <1>4, <2>1, <2>2, <2>3, CarryMove
  <1>8. RegisterInv'
    BY <1>1, <1>4, <1>5, RegisterOn DEF Open, Follows, Registers
  <1>. QED
    BY <1>4, <1>5, <1>7, <1>8

LEMMA TakeStep ==
  ASSUME IInv, NEW t \in Threads, Take(t)
  PROVE  IInv' /\ Onward
  <1>1. StackType /\ DataType /\ FrameInv /\ RegisterInv /\ CarryInv /\ PendingInv /\ SeenInv
    BY InParts
  <1>2. PICK n, f : Open(t, n, f) /\ f.at = "take"
    BY TopOpen DEF Take
  <1>3. PICK R : R = f.todo \cap pending
    OBVIOUS
  <1>4. /\ pending' = pending \ R /\ gated' = gated \ R /\ Loop(t, "fire", R, "return")
        /\ UNCHANGED <<callback, registry_vars, use_refs, queue_vars, begun, log>>
    BY <1>2, <1>3 DEF Take, Open
  <1>5. /\ f.op \in {"process", "wait"} /\ f.todo \subseteq DOMAIN callback
        /\ f.todo \cap futures = {} /\ \A i \in R : Passed(i)
    BY <1>2, <1>3 DEF Open, Sound
  <1>6. /\ Kept(t, n) /\ StackType' /\ CarryInv' /\ RegisterInv'
        /\ n \in DOMAIN stack'[t] => \E g : stack'[t][n] = g /\ Follows(f, g, "fire", R)
    BY <1>2, <1>3, <1>4, <1>5, Grabs DEF Carries
  <1>7. DataType'
    BY <1>1, <1>4 DEF DataType, Settled
  <1>8. Onward
    BY <1>1, <1>4, OnwardData DEF DataType
  <1>9. FrameInv'
    <2>1. ASSUME NEW g, Follows(f, g, "fire", R) PROVE Sound(g)'
      <3>1. g.at = "fire" /\ g.todo = R /\ g.op = f.op
        BY <2>1 DEF Follows
      <3>2. R \subseteq DOMAIN callback' /\ R \cap futures' = {} /\ \A i \in R : Passed(i)'
        BY <1>3, <1>4, <1>5 DEF Passed
      <3>. QED
        BY <1>5, <3>1, <3>2 DEF Sound, Cancelling, Delivering
    <2>. QED
      BY <1>1, <1>4, <1>6, <1>8, <2>1, FrameCalm DEF Calm
  <1>10. PendingInv'
    <2>1. \A i : /\ Taken(i) /\ i \notin f.todo => Taken(i)'
                 /\ Completing(i) => Completing(i)'
                 /\ Finishing(i) => Finishing(i)'
      BY <1>2, <1>6, Persist DEF Loses, Open
    <2>2. CancelComing => CancelComing'
      BY <1>2, <1>6, Persist DEF Open
    <2>3. \A i \in pending' : i \in pending /\ i \notin f.todo /\ (i \in gated => i \in gated')
      BY <1>3, <1>4
    <2>. QED
      BY <1>1, <1>4, <2>1, <2>2, <2>3 DEF PendingInv, CancelComing
  <1>11. SeenInv'
    BY <1>1, <1>4, <1>8, SeenOn
  <1>. QED
    BY <1>6, <1>7, <1>8, <1>9, <1>10, <1>11 DEF IInv, TypeOK

\* cancel_callbacks
LEMMA CancelTakeStep ==
  ASSUME IInv, NEW t \in Threads, CancelTake(t)
  PROVE  IInv' /\ Onward
  <1>1. StackType /\ DataType /\ FrameInv /\ RegisterInv /\ CarryInv /\ PendingInv /\ SeenInv
    BY InParts
  <1>2. PICK n, f : Open(t, n, f) /\ f.at = "cancel_take"
    BY TopOpen DEF CancelTake
  <1>3. PICK R : R = pending
    OBVIOUS
  <1>4. /\ pending' = pending \ R /\ pending' = {} /\ gated' = {}
        /\ Loop(t, "cancel_complete", R, "return")
        /\ UNCHANGED <<callback, registry_vars, use_refs, queue_vars, begun, log>>
    BY <1>3 DEF CancelTake
  <1>5. f.op = "release" /\ use_refs = 0
    BY <1>2 DEF Open, Sound, Cancelling
  <1>6. /\ Kept(t, n) /\ StackType' /\ CarryInv' /\ RegisterInv'
        /\ n \in DOMAIN stack'[t] => \E g : stack'[t][n] = g /\ Follows(f, g, "cancel_complete", R)
    BY <1>2, <1>3, <1>4, <1>5, Grabs DEF Carries
  <1>7. DataType'
    BY <1>1, <1>4 DEF DataType, Settled
  <1>8. Onward
    BY <1>1, <1>4, OnwardData DEF DataType
  <1>9. FrameInv'
    <2>1. ASSUME NEW g, Follows(f, g, "cancel_complete", R) PROVE Sound(g)'
      <3>1. g.at = "cancel_complete" /\ g.todo = R /\ g.op = f.op
        BY <2>1 DEF Follows
      <3>2. R \subseteq DOMAIN callback' /\ use_refs' = 0
        BY <1>1, <1>3, <1>4, <1>5 DEF DataType
      <3>. QED
        BY <1>5, <3>1, <3>2 DEF Sound, Cancelling, Delivering
    <2>. QED
      BY <1>1, <1>4, <1>6, <1>8, <2>1, FrameCalm DEF Calm
  <1>10. PendingInv'
    BY <1>4 DEF PendingInv
  <1>11. SeenInv'
    BY <1>1, <1>4, <1>8, SeenOn
  <1>. QED
    BY <1>6, <1>7, <1>8, <1>9, <1>10, <1>11 DEF IInv, TypeOK

\* finish_callback_registration
LEMMA FinishStep ==
  ASSUME IInv, NEW t \in Threads, Finish(t)
  PROVE  IInv' /\ Onward
  <1>1. StackType /\ DataType /\ FrameInv /\ RegisterInv /\ CarryInv /\ PendingInv /\ SeenInv
    BY InParts
  <1>2. PICK n, f : Open(t, n, f) /\ f.at = "finish"
    BY TopOpen DEF Finish
  <1>3. PICK own : own = f.id
    OBVIOUS
  <1>4. /\ f = Top(t) /\ f.op = "register" /\ own \in DOMAIN callback
        /\ callback[own].kind = f.want.kind
    BY <1>2, <1>3 DEF Open, Sound
  <1>5. PICK marked : marked = IF f.want.kind \in Gated THEN complete
                               ELSE complete \cup ({own} \cap futures)
    OBVIOUS
  <1>6. PICK R :
          R = IF /\ own \in pending /\ callback[own].mode = "spontaneous"
                 /\ Ready(own, marked)
              THEN {own} \cup {i \in {i \in pending : i < own /\ callback[i].mode = "spontaneous"} :
                                 Ready(i, marked)}
              ELSE {}
    OBVIOUS
  <1>7. /\ complete' = marked \ R /\ futures' = futures \ R /\ pending' = pending \ R
        /\ gated' = gated \ R /\ Loop(t, "fire", R, "return")
        /\ UNCHANGED <<callback, use_refs, queue_vars, begun, log>>
    BY <1>3, <1>4, <1>5, <1>6 DEF Finish
  <1>8. R \subseteq pending /\ \A i \in R : i \notin futures \/ i \in marked
    BY <1>6 DEF Ready
  <1>9. complete \subseteq marked /\ marked \subseteq complete \cup {own} /\ marked \subseteq futures
    BY <1>1, <1>5 DEF DataType
  <1>10. f.want.kind \notin Gated => Passed(own)
    <2>1. callback[own] \in Wants /\ done \in Nat
      BY <1>1, <1>4 DEF DataType
    <2>. QED
      BY <1>4, <2>1 DEF Wants, Passed
  <1>11. ASSUME NEW i \in R PROVE Passed(i)
    <2>1. CASE i \in complete
      BY <1>1, <1>8, <1>11, <2>1 DEF SeenInv
    <2>2. CASE i \in marked \ complete
      <3>1. i = own /\ f.want.kind \notin Gated
        BY <1>5, <2>2
      <3>. QED
        BY <1>10, <3>1
    <2>3. CASE i \notin futures
      <3>1. Taken(i) /\ i \in pending
        BY <1>1, <1>8, <1>11, <2>3 DEF PendingInv
      <3>2. PICK u \in Threads : \E k \in DOMAIN stack[u] :
                   stack[u][k].at = "take" /\ i \in stack[u][k].todo
        BY <3>1 DEF Taken
      <3>3. PICK k \in DOMAIN stack[u] : stack[u][k].at = "take" /\ i \in stack[u][k].todo
        BY <3>2
      <3>. QED
        BY <1>1, <3>1, <3>3 DEF FrameInv, Sound
    <2>. QED
      BY <1>8, <2>1, <2>2, <2>3
  <1>12. /\ Kept(t, n) /\ StackType' /\ CarryInv' /\ RegisterInv'
         /\ n \in DOMAIN stack'[t] => \E g : stack'[t][n] = g /\ Follows(f, g, "fire", R)
    BY <1>2, <1>7, <1>8, Grabs DEF Carries
  <1>13. DataType'
    BY <1>1, <1>7, <1>9 DEF DataType, Settled
  <1>14. Onward
    <2>1. futures' \ complete' \subseteq futures \ complete /\ futures' \subseteq futures
      BY <1>7, <1>9
    <2>. QED
      BY <1>1, <1>7, <2>1, OnwardData DEF DataType
  <1>15. FrameInv'
    <2>1. ASSUME NEW g, Follows(f, g, "fire", R) PROVE Sound(g)'
      <3>1. g.at = "fire" /\ g.todo = R /\ g.op = f.op /\ g.id = f.id /\ g.want = f.want
        BY <2>1 DEF Follows
      <3>2. R \subseteq DOMAIN callback' /\ R \cap futures' = {} /\ \A i \in R : Passed(i)'
        BY <1>1, <1>7, <1>8, <1>11 DEF Passed, DataType
      <3>. QED
        BY <1>3, <1>4, <1>7, <3>1, <3>2 DEF Sound, Cancelling, Delivering
    <2>2. ASSUME NEW u \in Threads, NEW k \in DOMAIN stack[u], Apart(u, k, t, n)
          PROVE  /\ stack[u][k].at = "insert" => stack[u][k].id \in futures' \ complete'
                 /\ stack[u][k].at = "take" => stack[u][k].todo \cap pending' \subseteq pending
      <3>1. ASSUME stack[u][k].at = "insert" PROVE stack[u][k].id \in futures' \ complete'
        <4>1. stack[u][k].id \in futures \ complete /\ stack[u][k].op = "register"
          BY <1>1, <3>1 DEF FrameInv, Sound
        <4>2. stack[u][k].id # own
          BY <1>1, <1>2, <1>3, <1>4, <2>2, <3>1, <4>1 DEF RegisterInv, Registers, Open
        <4>3. stack[u][k].id \notin pending
          BY <1>1, <3>1 DEF CarryInv, Holds, Carries
        <4>. QED
          BY <1>7, <1>8, <1>9, <4>1, <4>2, <4>3
      <3>. QED
        BY <1>7, <3>1
    <2>. QED
      BY <1>1, <1>12, <1>14, <2>1, <2>2, FrameLift
  <1>16. PendingInv'
    <2>1. \A i : /\ Taken(i) => Taken(i)'
                 /\ Completing(i) => Completing(i)'
                 /\ Finishing(i) /\ i # own => Finishing(i)'
      BY <1>2, <1>3, <1>12, Persist DEF Loses, Open
    <2>2. CancelComing => CancelComing'
      BY <1>2, <1>12, Persist DEF Open
    <2>3. ASSUME Finishing(own) PROVE f.want.kind \notin Gated
      <3>1. PICK u \in Threads : \E k \in DOMAIN stack[u] :
                   /\ stack[u][k].at = "finish" /\ stack[u][k].id = own
                   /\ stack[u][k].want.kind \notin Gated
        BY <2>3 DEF Finishing
      <3>2. PICK k \in DOMAIN stack[u] : /\ stack[u][k].at = "finish" /\ stack[u][k].id = own
                                         /\ stack[u][k].want.kind \notin Gated
        BY <3>1
      <3>3. stack[u][k].op = "register"
        BY <1>1, <3>2 DEF FrameInv, Sound
      <3>4. ~Apart(u, k, t, n)
        BY <1>1, <1>2, <1>3, <1>4, <3>2, <3>3 DEF RegisterInv, Registers, Open
      <3>. QED
        BY <1>2, <3>2, <3>4 DEF Apart, Open
    <2>4. ASSUME NEW i \in pending'
          PROVE  /\ i \in futures' \/ Taken(i)'
                 /\ \/ i \in gated' \/ i \in complete' \/ Taken(i)'
                    \/ Completing(i)' \/ Finishing(i)'
      <3>1. i \in pending /\ i \notin R
        BY <1>7
      <3>2. i \in futures \/ Taken(i)
        BY <1>1, <3>1 DEF PendingInv
      <3>3. i \in gated \/ i \in complete \/ Taken(i) \/ Completing(i) \/ Finishing(i)
        BY <1>1, <3>1 DEF PendingInv
      <3>4. i = own /\ Finishing(i) => i \in marked \/ Taken(i)
        BY <1>5, <2>3, <3>2
      <3>. QED
        BY <1>7, <1>9, <2>1, <3>1, <3>2, <3>3, <3>4
    <2>. QED
      BY <1>1, <1>7, <2>2, <2>4 DEF PendingInv, CancelComing
  <1>17. SeenInv'
    <2>1. ASSUME NEW i \in complete' \cap pending' PROVE i \in complete \cap pending \/ Passed(i)'
      <3>1. i \in marked /\ i \in pending
        BY <1>7
      <3>2. i \notin complete => i = own /\ f.want.kind \notin Gated
        BY <1>5, <3>1
      <3>. QED
        BY <1>7, <1>10, <3>1, <3>2 DEF Passed
    <2>. QED
      BY <1>1, <1>7, <1>14, <2>1, SeenOn
  <1>. QED
    BY <1>12, <1>13, <1>14, <1>15, <1>16, <1>17 DEF IInv, TypeOK

-----------------------------------------------------------------------------
(* Deliveries and cancellations                                            *)

LEMMA LogGrows ==
  ASSUME DataType, DeliveredOnce, NEW id \in DOMAIN callback, id \notin Settled,
         NEW how \in Calls \cup {"cancel"}, log' = Append(log, [id |-> id, how |-> how])
  PROVE  /\ log' \in Seq(Deliveries) /\ Settled' = Settled \cup {id} /\ DeliveredOnce'
         /\ \A k \in DOMAIN log : k \in DOMAIN log' /\ log'[k] = log[k]
         /\ \A k \in DOMAIN log' : \/ k \in DOMAIN log /\ log'[k] = log[k]
                                   \/ log'[k] = [id |-> id, how |-> how]
         /\ \E k \in DOMAIN log' : log'[k] = [id |-> id, how |-> how]
  <1>1. log \in Seq(Deliveries) /\ callback \in Seq(Wants) /\ id \in Nat
    BY DEF DataType
  <1>2. PICK e : e = [id |-> id, how |-> how]
    OBVIOUS
  <1>3. e \in Deliveries /\ e.id = id /\ log' = Append(log, e)
    BY <1>1, <1>2 DEF Deliveries
  <1>4. PICK n : n = Len(log)
    OBVIOUS
  <1>5. /\ log' \in Seq(Deliveries) /\ n \in Nat /\ DOMAIN log = 1 .. n
        /\ DOMAIN log' = 1 .. n + 1 /\ log'[n + 1] = e
        /\ \A k \in 1 .. n : log'[k] = log[k]
    BY <1>1, <1>3, <1>4
  <1>6. Settled' = Settled \cup {id}
    <2>1. \A i : i \in Settled' => i \in Settled \cup {id}
      BY <1>3, <1>5 DEF Settled
    <2>2. \A i : i \in Settled => i \in Settled'
      BY <1>5 DEF Settled
    <2>3. id \in Settled'
      BY <1>3, <1>5 DEF Settled
    <2>. QED
      BY <2>1, <2>2, <2>3
  <1>7. \A k \in 1 .. n : log[k].id # id
    BY <1>5 DEF Settled
  <1>8. DeliveredOnce'
    <2>1. SUFFICES ASSUME NEW j \in 1 .. n + 1, NEW k \in 1 .. n + 1, log'[j].id = log'[k].id
                   PROVE  j = k
      BY <1>5 DEF DeliveredOnce
    <2>2. CASE j \in 1 .. n /\ k \in 1 .. n
      BY <1>5, <2>1, <2>2 DEF DeliveredOnce
    <2>3. CASE j = n + 1 /\ k \in 1 .. n
      BY <1>3, <1>5, <1>7, <2>1, <2>3
    <2>4. CASE j \in 1 .. n /\ k = n + 1
      BY <1>3, <1>5, <1>7, <2>1, <2>4
    <2>. QED
      BY <1>5, <2>1, <2>2, <2>3, <2>4
  <1>9. \A k \in DOMAIN log : k \in DOMAIN log' /\ log'[k] = log[k]
    BY <1>5
  <1>10. \A k \in DOMAIN log' : (k \in DOMAIN log /\ log'[k] = log[k]) \/ log'[k] = e
    BY <1>5
  <1>11. \E k \in DOMAIN log' : log'[k] = e
    BY <1>5
  <1>. QED
    BY <1>2, <1>5, <1>6, <1>8, <1>9, <1>10, <1>11

\* A callback is called: its id goes from the hands of the call to the history.
LEMMA Settles ==
  ASSUME IInv, NEW t \in Threads, NEW n, NEW f, Open(t, n, f), NEW id \in f.todo,
         NEW how, NEW label,
         \/ f.at = "fire" /\ how \in Calls \cup {"cancel"} /\ label = "callback"
         \/ f.at = "cancel" /\ how = "cancel" /\ label = "cancelled",
         id \notin futures \ complete, how # "cancel" => Passed(id),
         log' = Append(log, [id |-> id, how |-> how]), Go(t, label, f.todo \ {id}),
         callback' \in Seq(Wants), DOMAIN callback' = DOMAIN callback,
         \A i \in DOMAIN callback :
           callback'[i].kind = callback[i].kind /\ (Passed(i) => Passed(i)'),
         UNCHANGED <<registry_vars, pending, gated, queue_vars, begun>>,
         use_refs' \in Nat, use_refs' = 0 <=> use_refs = 0
  PROVE  IInv' /\ Onward
  <1>1. StackType /\ DataType /\ FrameInv /\ RegisterInv /\ CarryInv /\ PendingInv /\ SeenInv
    BY InParts
  <1>2. PICK R : R = f.todo \ {id}
    OBVIOUS
  <1>3. /\ f.todo \subseteq DOMAIN callback /\ id \in DOMAIN callback /\ R \in SUBSET Nat
        /\ label \in Labels /\ how \in Calls \cup {"cancel"}
    BY <1>2 DEF Open, Sound, Labels
  <1>4. Carries(f) = f.todo /\ Hand(t, n) = f.todo
    BY DEF Carries, Hand, Open
  <1>5. f.todo \cap (pending \cup Settled) = {}
    BY <1>1, <1>4 DEF CarryInv, Holds, Open
  <1>6. /\ log' \in Seq(Deliveries) /\ Settled' = Settled \cup {id} /\ DeliveredOnce'
        /\ \A k \in DOMAIN log' : \/ k \in DOMAIN log /\ log'[k] = log[k]
                                  \/ log'[k] = [id |-> id, how |-> how]
    <2>1. DeliveredOnce /\ id \notin Settled
      BY <1>1, <1>5 DEF CarryInv
    <2>. QED
      BY <1>1, <1>3, <2>1, LogGrows
  <1>7. PICK g : Turns(t, n, g) /\ Follows(f, g, label, R)
    BY <1>1, <1>2, <1>3, GoesOpen
  <1>8. DataType'
    BY <1>1, <1>3, <1>6 DEF DataType
  <1>9. Onward
    BY DEF Onward
  <1>10. FrameInv'
    <2>1. g.at = label /\ g.todo = R /\ g.op = f.op /\ g.id = f.id /\ g.want = f.want
      BY <1>7 DEF Follows
    <2>2. R \subseteq f.todo
      BY <1>2
    <2>3. CASE f.at = "fire" /\ label = "callback"
      <3>1. Sound(g)
        BY <2>1, <2>2, <2>3 DEF Open, Sound, Cancelling, Delivering
      <3>2. Sound(g)'
        BY <1>1, <1>9, <2>1, <2>3, <3>1, SoundKept
      <3>. QED
        BY <1>1, <1>7, <1>9, <3>2, FrameCalm DEF Calm, Turns
    <2>4. CASE f.at = "cancel" /\ label = "cancelled"
      <3>1. Sound(g)
        BY <2>1, <2>2, <2>4 DEF Open, Sound, Cancelling, Delivering
      <3>2. Sound(g)'
        BY <1>1, <1>9, <2>1, <2>4, <3>1, SoundKept
      <3>. QED
        BY <1>1, <1>7, <1>9, <3>2, FrameCalm DEF Calm, Turns
    <2>. QED
      BY <2>3, <2>4
  <1>11. RegisterInv'
    BY <1>1, <1>7, RegisterOn DEF Turns, Follows, Open, Registers
  <1>12. CarryInv'
    <2>1. Hand2(t, n) = R
      BY <1>7 DEF Hand2, Carries, Turns, Follows
    <2>2. Hand2(t, n) \cup pending' \cup Settled' = Hand(t, n) \cup pending \cup Settled \cup {}
      BY <1>2, <1>4, <1>6, <2>1
    <2>3. pending \cap Settled = {}
      BY <1>1 DEF CarryInv
    <2>4. /\ Hand2(t, n) \cap (pending' \cup Settled') = {} /\ pending' \cap Settled' = {}
          /\ {} \cap DOMAIN callback = {} /\ DOMAIN callback' = DOMAIN callback \cup {}
      BY <1>2, <1>5, <1>6, <2>1, <2>3
    <2>. QED
      BY <1>1, <1>6, <1>7, <2>2, <2>4, CarryMove DEF Turns
  <1>13. PendingInv'
    BY <1>1, <1>7, PendingSame DEF Turns, Open
  <1>14. SeenInv'
    <2>1. \A i \in complete' \cap pending' : Passed(i)'
      BY <1>1, <1>9 DEF SeenInv, Onward, DataType
    <2>2. ASSUME NEW k \in DOMAIN log', log'[k].how # "cancel" PROVE Passed(log[k].id)'
      <3>1. PICK i : i = log'[k].id
        OBVIOUS
      <3>2. i \in DOMAIN callback /\ Passed(i)
        BY <1>1, <1>3, <1>6, <2>2, <3>1 DEF SeenInv, DataType, Settled
      <3>. QED
        BY <1>9, <3>1, <3>2 DEF Onward
    <2>3. Settled' \cap futures' \subseteq complete'
      BY <1>1, <1>6 DEF SeenInv
    <2>. QED
      BY <2>1, <2>2, <2>3 DEF SeenInv
  <1>. QED
    BY <1>7, <1>8, <1>9, <1>10, <1>11, <1>12, <1>13, <1>14 DEF IInv, TypeOK, Turns

\* What a callback that is called reports.
LEMMA ShownFacts ==
  ASSUME DataType, NEW id \in DOMAIN callback, callback' = [callback EXCEPT ![id] = Shown(@)],
         UNCHANGED queue_vars
  PROVE  /\ callback' \in Seq(Wants) /\ DOMAIN callback' = DOMAIN callback
         /\ \A i \in DOMAIN callback :
              /\ callback'[i].kind = callback[i].kind /\ callback'[i].mode = callback[i].mode
              /\ Passed(i) => Passed(i)'
  <1>1. PICK w : w = callback[id]
    OBVIOUS
  <1>2. callback \in Seq(Wants) /\ w \in Wants
    BY <1>1 DEF DataType
  <1>3. PICK v : v = Shown(w)
    OBVIOUS
  <1>4. /\ v \in Wants /\ v.kind = w.kind /\ v.mode = w.mode /\ v.index = w.index
        /\ v.outcome = w.outcome \/ v.outcome = "aborted"
    BY <1>2, <1>3 DEF Shown, Wants
  <1>5. /\ callback' = [callback EXCEPT ![id] = v]
        /\ callback' \in Seq(Wants) /\ DOMAIN callback' = DOMAIN callback
        /\ callback'[id] = v /\ \A i \in DOMAIN callback : i # id => callback'[i] = callback[i]
    BY <1>1, <1>2, <1>3, <1>4
  <1>. QED
    BY <1>1, <1>4, <1>5 DEF Passed

\* PendingCallback::fire
LEMMA FireStep ==
  ASSUME IInv, NEW t \in Threads, Fire(t)
  PROVE  IInv' /\ Onward
  <1>1. DataType
    BY InParts
  <1>2. PICK n, f : Open(t, n, f) /\ f.at = "fire"
    BY TopOpen DEF Fire
  <1>3. PICK id \in f.todo :
          LET refused == callback[id].kind = "request" /\ use_refs = 0
          IN  /\ log' = Append(log, [id |-> id, how |-> IF refused THEN "cancel" ELSE f.op])
              /\ use_refs' = IF callback[id].kind = "request" /\ ~refused
                             THEN use_refs + 1 ELSE use_refs
              /\ callback' = [callback EXCEPT ![id] = Shown(@)]
              /\ Go(t, "callback", f.todo \ {id})
    BY <1>2 DEF Fire, Open
  <1>4. PICK how : how = IF callback[id].kind = "request" /\ use_refs = 0 THEN "cancel" ELSE f.op
    OBVIOUS
  <1>5. log' = Append(log, [id |-> id, how |-> how]) /\ Go(t, "callback", f.todo \ {id})
    BY <1>3, <1>4
  <1>6. use_refs' \in Nat /\ (use_refs' = 0 <=> use_refs = 0)
    BY <1>1, <1>3 DEF DataType
  <1>7. id \notin futures /\ Passed(id) /\ how \in Calls \cup {"cancel"}
    BY <1>2, <1>4 DEF Open, Sound, Delivering
  <1>8. UNCHANGED <<registry_vars, pending, gated, queue_vars, begun>>
    BY DEF Fire
  <1>9. /\ callback' \in Seq(Wants) /\ DOMAIN callback' = DOMAIN callback
        /\ \A i \in DOMAIN callback :
             callback'[i].kind = callback[i].kind /\ (Passed(i) => Passed(i)')
    <2>1. id \in DOMAIN callback /\ callback' = [callback EXCEPT ![id] = Shown(@)]
      BY <1>2, <1>3 DEF Open, Sound
    <2>. QED
      BY <1>1, <1>8, <2>1, ShownFacts
  <1>. QED
    BY <1>2, <1>5, <1>6, <1>7, <1>8, <1>9, Settles

\* PendingCallback::cancel
LEMMA CancelStep ==
  ASSUME IInv, NEW t \in Threads, Cancel(t)
  PROVE  IInv' /\ Onward
  <1>1. DataType
    BY InParts
  <1>2. PICK n, f : Open(t, n, f) /\ f.at = "cancel"
    BY TopOpen DEF Cancel
  <1>3. PICK id \in f.todo :
          /\ IsNext(f, id) /\ log' = Append(log, [id |-> id, how |-> "cancel"])
          /\ Go(t, "cancelled", f.todo \ {id})
    BY <1>2 DEF Cancel, Open
  <1>4. f.op # "wait"
    BY <1>2 DEF Open, Sound, Cancelling
  <1>5. id \notin futures \ complete
    BY <1>2, <1>3, <1>4 DEF Open, Sound, IsNext
  <1>6. use_refs' \in Nat /\ (use_refs' = 0 <=> use_refs = 0)
    BY <1>1 DEF Cancel, DataType
  <1>7. UNCHANGED <<callback, registry_vars, pending, gated, queue_vars, begun>>
    BY DEF Cancel
  <1>8. /\ callback' \in Seq(Wants)
        /\ \A i \in DOMAIN callback : Passed(i) => Passed(i)'
    BY <1>1, <1>7 DEF DataType, Passed
  <1>. QED
    BY <1>2, <1>3, <1>5, <1>6, <1>7, <1>8, Settles

LEMMA CancelCompleteStep ==
  ASSUME IInv, NEW t \in Threads, CancelComplete(t)
  PROVE  IInv' /\ Onward
  <1>1. StackType /\ DataType /\ FrameInv /\ RegisterInv /\ CarryInv /\ PendingInv /\ SeenInv
    BY InParts
  <1>2. PICK n, f : Open(t, n, f) /\ f.at = "cancel_complete"
    BY TopOpen DEF CancelComplete
  <1>3. PICK id \in f.todo :
          IsNext(f, id) /\ complete' = complete \cup ({id} \cap futures)
    BY <1>2 DEF CancelComplete, Open
  <1>4. /\ Go(t, "cancel", f.todo) /\ f.todo \in SUBSET Nat /\ "cancel" \in Labels
        /\ UNCHANGED <<callback, futures, pending, gated, use_refs, queue_vars, begun, log>>
    BY <1>2 DEF CancelComplete, Open, Labels
  <1>5. /\ f.op \in {"register", "release"} /\ f.todo \subseteq DOMAIN callback /\ use_refs = 0
        /\ \A j \in f.todo : id <= j
    BY <1>2, <1>3 DEF Open, Sound, Cancelling, IsNext
  <1>6. PICK g : Turns(t, n, g) /\ Follows(f, g, "cancel", f.todo)
    BY <1>1, <1>2, <1>4, GoesOpen
  <1>7. DataType'
    BY <1>1, <1>3, <1>4 DEF DataType, Settled
  <1>8. Onward
    BY <1>1, <1>3, <1>4, OnwardData DEF DataType
  <1>9. FrameInv'
    <2>1. g.at = "cancel" /\ g.todo = f.todo /\ g.op = f.op /\ g.id = f.id /\ g.want = f.want
      BY <1>6 DEF Follows
    <2>2. ASSUME NEW i \in f.todo, \A j \in f.todo : i <= j
          PROVE  i \notin futures' \ complete'
      <3>1. i = id
        BY <1>3, <1>4, <1>5, <2>2
      <3>. QED
        BY <1>3, <1>4, <3>1
    <2>3. Sound(g)'
      BY <1>2, <1>4, <1>5, <2>1, <2>2 DEF Open, Sound, Cancelling, Delivering
    <2>4. ASSUME NEW u \in Threads, NEW k \in DOMAIN stack[u], Apart(u, k, t, n)
          PROVE  /\ stack[u][k].at = "insert" => stack[u][k].id \in futures' \ complete'
                 /\ stack[u][k].at = "take" => stack[u][k].todo \cap pending' \subseteq pending
      <3>1. ASSUME stack[u][k].at = "insert" PROVE stack[u][k].id \in futures' \ complete'
        <4>1. stack[u][k].id \in Holds(u, k) /\ id \in Holds(t, n)
          BY <1>2, <3>1 DEF Holds, Carries, Open
        <4>2. stack[u][k].id # id
          BY <1>1, <1>2, <2>4, <4>1 DEF CarryInv, Open
        <4>3. stack[u][k].id \in futures \ complete
          BY <1>1, <3>1 DEF FrameInv, Sound
        <4>. QED
          BY <1>3, <1>4, <4>2, <4>3
      <3>. QED
        BY <1>4, <3>1
    <2>. QED
      BY <1>1, <1>6, <1>8, <2>3, <2>4, FrameLift DEF Turns
  <1>10. RegisterInv'
    BY <1>1, <1>2, <1>6, RegisterOn DEF Turns, Follows, Open, Registers
  <1>11. CarryInv'
    <2>1. Hand2(t, n) = Hand(t, n)
      BY <1>2, <1>6 DEF Hand, Hand2, Carries, Open, Turns, Follows
    <2>. QED
      BY <1>1, <1>4, <1>6, <2>1, CarrySame DEF Turns
  <1>12. PendingInv'
    BY <1>1, <1>2, <1>3, <1>4, <1>6, PendingSame DEF Turns, Open
  <1>13. SeenInv'
    <2>1. id \notin pending
      BY <1>1, <1>2 DEF CarryInv, Holds, Carries, Open
    <2>. QED
      BY <1>1, <1>3, <1>4, <1>8, <2>1, SeenOn
  <1>. QED
    BY <1>6, <1>7, <1>8, <1>9, <1>10, <1>11, <1>12, <1>13 DEF IInv, TypeOK, Turns

\* release_use_ref
LEMMA ReleaseStep ==
  ASSUME IInv, NEW t \in Threads, Release(t)
  PROVE  IInv' /\ Onward
  <1>1. StackType /\ DataType /\ FrameInv /\ RegisterInv /\ CarryInv /\ PendingInv /\ SeenInv
    BY InParts
  <1>2. use_refs \in Nat /\ use_refs > 0 /\ use_refs' = use_refs - 1
    <2>1. PICK B : B = {u \in Threads \ {t} : \E f \in Frames(u) : Borrows(f)}
      OBVIOUS
    <2>2. IsFiniteSet(B)
      BY <2>1, CallbacksAssumption, FS_Subset
    <2>3. Cardinality(B) \in Nat
      BY <2>2, FS_CardinalityType
    <2>4. use_refs > Cardinality(B) /\ use_refs' = use_refs - 1 /\ use_refs \in Nat
      BY <1>1, <2>1 DEF Release, DataType
    <2>. QED
      BY <2>3, <2>4
  <1>3. UNCHANGED <<callback, registry_vars, pending, gated, queue_vars, begun, log>>
    BY DEF Release
  <1>4. /\ use_refs' \in Nat /\ latest' \in Nat /\ done' \in Nat /\ done <= done'
        /\ done' <= latest' /\ lost' \in BOOLEAN /\ begun' \in Nat
    BY <1>1, <1>2, <1>3 DEF DataType
  <1>5. CASE use_refs # 1
    <2>1. stack' = stack /\ 0 \notin DOMAIN stack[t]
      BY <1>1, <1>5 DEF Release, StackType
    <2>2. Kept(t, 0) /\ StackType'
      BY <1>1, <2>1, KeptFacts DEF StackType
    <2>3. GoesOn(t, 0)
      BY <2>1 DEF GoesOn, Hand, Hand2
    <2>4. use_refs' = 0 <=> use_refs = 0
      BY <1>2, <1>5
    <2>. QED
      BY <1>3, <1>4, <2>1, <2>2, <2>3, <2>4, QuietStep
  <1>6. CASE use_refs = 1
    <2>1. PICK g : g = Frame("release", "cancel_take")
      OBVIOUS
    <2>2. g \in FrameSet /\ g.op = "release" /\ g.at = "cancel_take" /\ g.todo = {}
      BY <2>1, FrameIs DEF Calls, Labels
    <2>3. Push(t, g) /\ use_refs' = 0
      BY <1>2, <1>6, <2>1 DEF Release
    <2>4. PICK n : n = Len(stack[t]) + 1
      OBVIOUS
    <2>5. /\ Kept(t, n) /\ StackType' /\ n \in DOMAIN stack'[t] /\ n \notin DOMAIN stack[t]
          /\ stack'[t][n] = g
      <3>1. Pushed(t, g)
        BY <1>1, <2>2, <2>3, Pushes
      <3>. QED
        BY <1>1, <2>4, <3>1, KeptFacts DEF Pushed
    <2>6. DataType'
      BY <1>1, <1>3, <1>4 DEF DataType, Settled
    <2>7. Onward
      BY <1>1, <1>3, <1>4, <2>3, OnwardData
    <2>8. FrameInv'
      <3>1. Sound(g)'
        BY <2>2, <2>3 DEF Sound, Cancelling, Delivering
      <3>. QED
        BY <1>1, <1>3, <2>5, <2>7, <3>1, FrameCalm DEF Calm
    <2>9. RegisterInv'
      BY <1>1, <2>2, <2>5, RegisterOn DEF Registers
    <2>10. CarryInv'
      <3>1. Hand2(t, n) = Hand(t, n)
        BY <2>2, <2>5 DEF Hand, Hand2, Carries
      <3>. QED
        BY <1>1, <1>3, <2>5, <3>1, CarrySame
    <2>11. PendingInv'
      <3>1. \A i : /\ Taken(i) => Taken(i)'
                   /\ Completing(i) => Completing(i)'
                   /\ Finishing(i) => Finishing(i)'
        BY <2>5, Persist DEF Loses
      <3>2. CancelComing'
        BY <2>2, <2>5 DEF CancelComing
      <3>. QED
        BY <1>1, <1>3, <3>1, <3>2 DEF PendingInv, CancelComing
    <2>12. SeenInv'
      BY <1>1, <1>3, <2>7, SeenOn
    <2>. QED
      BY <2>5, <2>6, <2>7, <2>8, <2>9, <2>10, <2>11, <2>12 DEF IInv, TypeOK
  <1>. QED
    BY <1>5, <1>6

-----------------------------------------------------------------------------
(* The specification                                                       *)

LEMMA InitInv ==
  ASSUME Init
  PROVE  IInv
  <1>1. \A t \in Threads : stack[t] = <<>>
    BY DEF Init
  <1>2. \A t \in Threads : DOMAIN stack[t] = {}
    BY <1>1
  <1>3. callback = <<>> /\ DOMAIN callback = {} /\ DOMAIN log = {} /\ Settled = {}
    BY DEF Init, Settled
  <1>4. StackType
    BY DEF Init, StackType
  <1>5. DataType
    <2>1. callback = <<>> /\ log = <<>> /\ lost \in BOOLEAN
      BY DEF Init
    <2>2. callback \in Seq(Wants) /\ log \in Seq(Deliveries)
        BY <2>1, EmptySeq
    <2>3. /\ futures = {} /\ complete = {} /\ pending = {} /\ gated = {} /\ use_refs = 1
          /\ latest = 0 /\ done = 0 /\ begun = 0
      BY DEF Init
    <2>. QED
      BY <1>3, <2>1, <2>2, <2>3 DEF DataType
  <1>6. FrameInv /\ RegisterInv
    BY <1>2 DEF FrameInv, RegisterInv
  <1>7. CarryInv
    BY <1>2, <1>3 DEF Init, CarryInv, DeliveredOnce
  <1>8. PendingInv
    BY DEF Init, PendingInv
  <1>9. SeenInv
    BY <1>3 DEF Init, SeenInv
  <1>. QED
    BY <1>4, <1>5, <1>6, <1>7, <1>8, <1>9 DEF IInv, TypeOK

LEMMA NextInv ==
  ASSUME IInv, [Next]_vars
  PROVE  IInv' /\ Onward
  <1>1. CASE AddRef \/ Submit \/ GpuComplete \/ Finished \/ UNCHANGED vars
    BY <1>1, OutsideStep DEF Finished
  <1>2. ASSUME NEW t \in Threads,
               \/ BeginRegister(t) \/ BeginProcess(t) \/ BeginWait(t) \/ BeginLose(t)
               \/ Release(t)
        PROVE  IInv' /\ Onward
    BY <1>2, BeginStep, ReleaseStep
  <1>3. ASSUME NEW t \in Threads, Step(t)
        PROVE  IInv' /\ Onward
    <2>1. CASE Register(t) \/ Insert(t) \/ Poll(t) \/ Complete(t) \/ Finish(t)
      BY <2>1, RegisterStep, InsertStep, PollStep, CompleteStep, FinishStep
    <2>2. CASE TakeReady(t) \/ TakeWaited(t) \/ Take(t)
      BY <2>2, TakeReadyStep, TakeStep
    <2>3. CASE Fire(t) \/ Return(t)
      BY <2>3, FireStep, ReturnStep
    <2>4. CASE CancelTake(t) \/ CancelComplete(t) \/ Cancel(t)
      BY <2>4, CancelTakeStep, CancelCompleteStep, CancelStep
    <2>5. CASE Lose(t) \/ Abort(t)
      BY <2>5, LoseStep, AbortStep
    <2>. QED
      BY <1>3, <2>1, <2>2, <2>3, <2>4, <2>5 DEF Step
  <1>. QED
    BY <1>1, <1>2, <1>3 DEF Next

\* The inductive invariant: an id of a future is in the map, in the hands of one
\* open call or in the history, and what each open call has read still holds.
THEOREM CallbackInvariance == Spec => []IInv
  <1>1. IInv /\ [Next]_vars => IInv'
    BY NextInv
  <1>. QED
    BY InitInv, <1>1, PTL DEF Spec

\* A callback is called at most once, whichever of ProcessEvents, WaitAny, its
\* registration and the end of use gets to it first.
THEOREM CalledOnce == Spec => []DeliveredOnce
  <1>1. IInv => DeliveredOnce
    BY InParts DEF CarryInv
  <1>. QED
    BY CallbackInvariance, <1>1, PTL

\* With no call under way, every callback not yet called can still be found, and
\* there is none when the instance is not in use.
THEOREM NoneLeft == Spec => []NothingStranded
  <1>1. ASSUME IInv PROVE NothingStranded
    <2>1. SUFFICES ASSUME \A t \in Threads : stack[t] = <<>>, NEW id \in DOMAIN callback \ Settled
                   PROVE  /\ use_refs > 0
                          /\ id \in pending \cap futures
                          /\ id \in gated \/ id \in complete
      BY DEF NothingStranded
    <2>2. \A u \in Threads : DOMAIN stack[u] = {}
      BY <2>1
    <2>3. id \in pending
      BY <1>1, <2>1, <2>2, InParts DEF CarryInv
    <2>4. ~Taken(id) /\ ~Completing(id) /\ ~Finishing(id)
      BY <2>2 DEF Taken, Completing, Finishing
    <2>5. id \in futures /\ (id \in gated \/ id \in complete)
      BY <1>1, <2>3, <2>4, InParts DEF PendingInv
    <2>6. use_refs # 0 /\ use_refs \in Nat
      BY <1>1, <2>2, <2>3, InParts DEF PendingInv, DataType
    <2>. QED
      BY <2>3, <2>5, <2>6
  <1>. QED
    BY CallbackInvariance, <1>1, PTL

\* A callback that reports success reports work the GPU has completed, but for an
\* OnSubmittedWorkDone that the loss of the device has ended.
THEOREM GatesHold == Spec => []GateHonored
  <1>1. ASSUME IInv PROVE GateHonored
    <2>1. SeenInv
      BY <1>1, InParts
    <2>. QED
      BY <2>1 DEF SeenInv, Passed, GateHonored
  <1>. QED
    BY CallbackInvariance, <1>1, PTL

\* The future of a callback that was called is complete wherever it is observed.
THEOREM Observable == Spec => []FutureObservable
  <1>1. IInv => FutureObservable
    BY InParts DEF SeenInv, FutureObservable
  <1>. QED
    BY CallbackInvariance, <1>1, PTL

\* No reference brings an instance back into use: AddRef asks for one, and a
\* request that is delivered too late is cancelled.
THEOREM EndOfUseIsFinal == Spec => NoResurrection
  <1>1. IInv /\ [Next]_vars => [use_refs = 0 => use_refs' = 0]_vars
    BY NextInv DEF Onward
  <1>. QED
    BY CallbackInvariance, <1>1, PTL DEF Spec, NoResurrection

-----------------------------------------------------------------------------
(* The order of the callbacks                                              *)

\* One thread makes every call: a call that runs is on top of those that wait for
\* a callback to return.  With two threads either order is seen.
OneThread == \A u, v \in Threads : u = v

Waiting(f) == f.at \in {"callback", "cancelled"}
NestInv ==
  \A u \in Threads : \A k, l \in DOMAIN stack[u] : k < l => Waiting(stack[u][k])

\* What a call works on is past its gate; what ProcessEvents and a registration
\* collect leaves nothing behind that comes before it.
Clears(f) == f.at \in Delivering /\ f.op \in {"process", "register"}
InOrder(f) ==
  /\ f.at = "insert" => f.id = Len(callback)
  /\ f.at \in {"complete", "take"} => f.todo \cap gated = {}
  /\ f.at = "take" /\ f.op = "process" =>
       \A k \in f.todo \cap pending, i \in pending : Before(i, k) => i \in f.todo
  /\ Clears(f) => \A k \in f.todo, i \in pending : ~Before(i, k)
FrameOrder == \A u \in Threads : \A k \in DOMAIN stack[u] : InOrder(stack[u][k])

\* A gate that is closed keeps the later ones closed.
Inserting(id) == \E u \in Threads : \E k \in DOMAIN stack[u] :
                   stack[u][k].at = "insert" /\ stack[u][k].id = id
GateInv ==
  \A i \in gated :
    /\ callback[i].kind \in Gated /\ i \notin complete
    /\ \A k \in DOMAIN callback : i < k /\ callback[k].kind \in Gated => k \in gated \/ Inserting(k)

OrderInv == NestInv /\ FrameOrder /\ GateInv

\* A step leaves the kinds and the modes of the callbacks what they are, and puts
\* none into the map but the youngest.
SameKinds ==
  \A i \in DOMAIN callback :
    callback'[i].kind = callback[i].kind /\ callback'[i].mode = callback[i].mode
Alike == DOMAIN callback' = DOMAIN callback /\ SameKinds
Later ==
  /\ DOMAIN callback \subseteq DOMAIN callback' /\ SameKinds
  /\ \A i \in pending' \ pending : i = Len(callback)

LEMMA BeforeLater ==
  ASSUME DataType, Later, NEW k \in DOMAIN callback, NEW i \in pending',
         Before(i, k)'
  PROVE  i \in pending /\ Before(i, k)
  <1>1. i < k /\ k \in 1 .. Len(callback) /\ Len(callback) \in Nat
    BY DEF Before, DataType
  <1>2. i \in pending
    <2>1. SUFFICES ASSUME i \notin pending PROVE FALSE
      OBVIOUS
    <2>2. i = Len(callback)
      BY <2>1 DEF Later
    <2>. QED
      BY <1>1, <2>2
  <1>3. i \in DOMAIN callback
    BY <1>2 DEF DataType
  <1>. QED
    BY <1>2, <1>3 DEF Before, Later, SameKinds

\* A call that waits for a callback to return.
LEMMA WaitsInOrder ==
  ASSUME DataType, Later, NEW f, Waiting(f), InOrder(f), f.todo \subseteq DOMAIN callback
  PROVE  InOrder(f)'
  <1>1. f.at \notin {"insert", "complete", "take"}
    BY DEF Waiting
  <1>2. ASSUME Clears(f), NEW k \in f.todo, NEW i \in pending', Before(i, k)'
        PROVE  FALSE
    <2>1. i \in pending /\ Before(i, k)
      BY <1>2, BeforeLater
    <2>. QED
      BY <1>2, <2>1 DEF InOrder
  <1>. QED
    BY <1>1, <1>2 DEF InOrder, Clears

\* The n-th frame of the one thread is the last before and after a step, and the
\* others wait.
Alone(t, n) ==
  /\ \A k \in DOMAIN stack[t] \cup DOMAIN stack'[t] : k \in Nat /\ k <= n
  /\ \A k \in DOMAIN stack[t] : k # n => Waiting(stack[t][k])

LEMMA OrderStep ==
  ASSUME OneThread, IInv, OrderInv, NEW t \in Threads, NEW n \in Nat, Kept(t, n), Alone(t, n),
         Later, GateInv',
         n \in DOMAIN stack'[t] => \E g : stack'[t][n] = g /\ InOrder(g)'
  PROVE  OrderInv'
  <1>1. DataType /\ FrameInv /\ CarryInv
    BY InParts
  <1>2. \A u \in Threads : u = t
    BY DEF OneThread
  <1>3. NestInv'
    <2>1. SUFFICES ASSUME NEW k \in DOMAIN stack'[t], NEW l \in DOMAIN stack'[t], k < l
                   PROVE  Waiting(stack'[t][k])
      BY <1>2 DEF NestInv, Waiting
    <2>2. k # n
      BY <2>1 DEF Alone
    <2>3. k \in DOMAIN stack[t] /\ stack'[t][k] = stack[t][k]
      BY <2>2 DEF Kept, Apart
    <2>. QED
      BY <2>2, <2>3 DEF Alone
  <1>4. FrameOrder'
    <2>1. SUFFICES ASSUME NEW k \in DOMAIN stack'[t]
                   PROVE  \E g : stack'[t][k] = g /\ InOrder(g)'
      BY <1>2 DEF FrameOrder
    <2>2. CASE k = n
      BY <2>2
    <2>3. CASE k # n
      <3>1. k \in DOMAIN stack[t] /\ stack'[t][k] = stack[t][k]
        BY <2>3 DEF Kept, Apart
      <3>2. PICK f : f = stack[t][k]
        OBVIOUS
      <3>3. Waiting(f) /\ InOrder(f) /\ Sound(f)
        BY <1>1, <2>3, <3>1, <3>2 DEF Alone, FrameOrder, FrameInv, OrderInv
      <3>4. f.todo \subseteq DOMAIN callback
        BY <3>3 DEF Sound
      <3>5. InOrder(f)'
        BY <1>1, <3>3, <3>4, WaitsInOrder
      <3>. QED
        BY <3>1, <3>2, <3>5
    <2>. QED
      BY <2>2, <2>3
  <1>. QED
    BY <1>3, <1>4 DEF OrderInv

\* A step that puts nothing into the map.
LEMMA GateKept ==
  ASSUME GateInv, DataType, Alike, gated' = gated \/ gated' = {},
         \A id : ~Inserting(id), \A i \in gated : i \notin complete'
  PROVE  GateInv'
  BY DEF GateInv, Alike, SameKinds, DataType

LEMMA PlainStep ==
  ASSUME OneThread, IInv, OrderInv, NEW t \in Threads, NEW n \in Nat, Kept(t, n), Alone(t, n),
         n \in DOMAIN stack[t] => stack[t][n].at # "insert",
         Alike, pending' \subseteq pending, gated' = gated \/ gated' = {},
         \A i \in gated : i \notin complete',
         n \in DOMAIN stack'[t] => \E g : stack'[t][n] = g /\ InOrder(g)'
  PROVE  OrderInv'
  <1>1. DataType /\ GateInv
    BY InParts DEF OrderInv
  <1>2. Later
    BY DEF Later, Alike
  <1>3. \A id : ~Inserting(id)
    <2>1. SUFFICES ASSUME NEW k \in DOMAIN stack[t], stack[t][k].at = "insert" PROVE FALSE
      BY DEF Inserting, OneThread
    <2>. QED
      BY <2>1 DEF Alone, Waiting
  <1>4. GateInv'
    BY <1>1, <1>3, GateKept
  <1>. QED
    BY <1>2, <1>4, OrderStep

LEMMA OnTop ==
  ASSUME OneThread, IInv, NestInv, NEW t \in Threads, NEW n, NEW f, Open(t, n, f)
  PROVE  /\ n \in Nat
         /\ \A u \in Threads : \A k \in DOMAIN stack[u] :
              (u = t /\ k = n /\ stack[u][k] = f) \/ Waiting(stack[u][k])
         /\ Kept(t, n) => Alone(t, n)
  <1>1. StackType
    BY InParts
  <1>2. stack[t] \in Seq(FrameSet) /\ DOMAIN stack[t] = 1 .. n /\ n \in Nat \ {0}
    BY <1>1, TopFacts DEF Open
  <1>3. \A k \in DOMAIN stack[t] : k = n \/ Waiting(stack[t][k])
    <2>1. ASSUME NEW k \in DOMAIN stack[t], k # n PROVE Waiting(stack[t][k])
      <3>1. k < n /\ n \in DOMAIN stack[t]
        BY <1>2, <2>1
      <3>. QED
        BY <3>1 DEF NestInv
    <2>. QED
      BY <2>1
  <1>4. ASSUME Kept(t, n) PROVE Alone(t, n)
    <2>1. \A k \in DOMAIN stack'[t] : k = n \/ k \in DOMAIN stack[t]
      BY <1>4 DEF Kept, Apart
    <2>. QED
      BY <1>2, <1>3, <2>1 DEF Alone
  <1>. QED
    BY <1>2, <1>3, <1>4 DEF OneThread, Open

\* The call on top goes on to another label, or returns.
Resumes(t, n, f, label, todo) ==
  IF label = "return" THEN Ends(t, n)
  ELSE \E g : Turns(t, n, g) /\ Follows(f, g, label, todo)

LEMMA TopStep ==
  ASSUME OneThread, IInv, OrderInv, NEW t \in Threads, NEW n, NEW f, Open(t, n, f),
         f.at # "insert", NEW label, NEW todo, Resumes(t, n, f, label, todo),
         callback' = callback \/ Alike, todo \subseteq DOMAIN callback,
         pending' \subseteq pending, gated' = gated \/ gated' = {},
         \A i \in gated : i \notin complete',
         label # "insert",
         label \in {"complete", "take"} => todo \cap gated' = {},
         label = "take" /\ f.op = "process" =>
           \A k \in todo \cap pending', i \in pending' : Before(i, k) => i \in todo,
         label \in Delivering /\ f.op \in {"process", "register"} =>
           \A k \in todo, i \in pending' : ~Before(i, k)
  PROVE  OrderInv'
  <1>1. Kept(t, n) /\ Alone(t, n) /\ n \in Nat /\ stack[t][n] = f
    BY OnTop DEF Resumes, Turns, Ends, OrderInv, Open
  <1>a. Alike /\ pending' \subseteq DOMAIN callback
    BY InParts DEF Alike, SameKinds, DataType
  <1>2. \A k \in todo, i \in pending' : Before(i, k)' <=> Before(i, k)
    BY <1>a DEF Before, Alike, SameKinds
  <1>3. n \in DOMAIN stack'[t] => \E g : stack'[t][n] = g /\ InOrder(g)'
    <2>1. SUFFICES ASSUME n \in DOMAIN stack'[t]
                   PROVE  \E g : stack'[t][n] = g /\ InOrder(g)'
      OBVIOUS
    <2>2. PICK g : Turns(t, n, g) /\ Follows(f, g, label, todo)
      BY <2>1 DEF Resumes, Ends
    <2>3. g.at = label /\ g.todo = todo /\ g.op = f.op
      BY <2>2 DEF Follows
    <2>4. InOrder(g)'
      BY <1>2, <2>3 DEF InOrder, Clears, Delivering
    <2>. QED
      BY <2>2, <2>4 DEF Turns
  <1>. QED
    BY <1>1, <1>a, <1>3, PlainStep

LEMMA LoopResumes ==
  ASSUME StackType, NEW t \in Threads, NEW n, NEW f, Open(t, n, f), NEW label \in Labels,
         NEW todo \in SUBSET Nat, NEW next \in Labels \cup {"return"}, Loop(t, label, todo, next)
  PROVE  \/ todo # {} /\ Resumes(t, n, f, label, todo)
         \/ todo = {} /\ Resumes(t, n, f, next, {})
  <1>1. label # "return"
    BY DEF Labels
  <1>. QED
    BY <1>1, LoopOpen DEF Resumes

LEMMA GoResumes ==
  ASSUME StackType, NEW t \in Threads, NEW n, NEW f, Open(t, n, f), NEW label \in Labels,
         NEW todo \in SUBSET Nat, Go(t, label, todo)
  PROVE  Resumes(t, n, f, label, todo)
  <1>1. label # "return"
    BY DEF Labels
  <1>. QED
    BY <1>1, GoesOpen DEF Resumes

\* A callback in the map whose gate was passed is complete, when the call on top has
\* polled and taken nothing yet.
LEMMA PassedComplete ==
  ASSUME OneThread, IInv, OrderInv, NEW t \in Threads, NEW n, NEW f, Open(t, n, f),
         f.at \in {"take_ready", "finish"}, NEW i \in pending
  PROVE  /\ i \in futures
         /\ callback[i].kind \in Gated /\ i \notin gated => i \in complete
  <1>1. \A u \in Threads : \A k \in DOMAIN stack[u] : stack[u][k] = f \/ Waiting(stack[u][k])
    BY OnTop DEF OrderInv
  <1>2. ~Taken(i) /\ ~Completing(i)
    BY <1>1 DEF Taken, Completing, Waiting
  <1>3. Finishing(i) => callback[i].kind \notin Gated
    <2>1. SUFFICES ASSUME Finishing(i) PROVE callback[i].kind \notin Gated
      OBVIOUS
    <2>2. f.at = "finish" /\ f.id = i /\ f.want.kind \notin Gated
      BY <1>1, <2>1 DEF Finishing, Waiting
    <2>. QED
      BY <2>2 DEF Open, Sound
  <1>. QED
    BY <1>2, <1>3, InParts DEF PendingInv

\* So what comes before one whose gate was passed is complete too.
LEMMA EarlierComplete ==
  ASSUME OneThread, IInv, OrderInv, NEW t \in Threads, NEW n, NEW f, Open(t, n, f),
         f.at \in {"take_ready", "finish"}, NEW k \in complete,
         NEW i \in pending, Before(i, k)
  PROVE  i \in complete
  <1>1. ~Inserting(k)
    BY OnTop DEF Inserting, Waiting, OrderInv
  <1>2. k \in DOMAIN callback
    BY InParts DEF DataType
  <1>3. i \notin gated
    BY <1>1, <1>2 DEF GateInv, OrderInv, Before
  <1>4. callback[i].kind \in Gated
    BY DEF Before
  <1>. QED
    BY <1>3, <1>4, PassedComplete

-----------------------------------------------------------------------------
(* Steps that keep the order                                               *)

\* A call that begins.
LEMMA PushOrder ==
  ASSUME OneThread, IInv, OrderInv, NEW t \in Threads, AppRuns(t), NEW g \in FrameSet, Push(t, g),
         g.at \in {"register", "poll", "cancel_take", "lose"},
         UNCHANGED <<callback, registry_vars, pending, gated, log>>
  PROVE  OrderInv'
  <1>1. StackType /\ NestInv
    BY InParts DEF OrderInv
  <1>2. PICK m : m = Len(stack[t])
    OBVIOUS
  <1>3. stack[t] \in Seq(FrameSet) /\ DOMAIN stack[t] = 1 .. m /\ m \in Nat
    BY <1>1, <1>2 DEF StackType
  <1>4. Pushed(t, g)
    BY <1>1, Pushes
  <1>5. Kept(t, m + 1) /\ m + 1 \in DOMAIN stack'[t] /\ stack'[t][m + 1] = g
        /\ m + 1 \notin DOMAIN stack[t] /\ DOMAIN stack'[t] = DOMAIN stack[t] \cup {m + 1}
    BY <1>1, <1>2, <1>4, KeptFacts DEF Pushed
  <1>6. \A k \in DOMAIN stack[t] : Waiting(stack[t][k])
    <2>1. SUFFICES ASSUME NEW k \in DOMAIN stack[t] PROVE Waiting(stack[t][k])
      OBVIOUS
    <2>2. stack[t] # <<>> /\ m \in DOMAIN stack[t]
      BY <1>3, <2>1
    <2>3. Waiting(stack[t][m])
      BY <1>2, <2>2 DEF AppRuns, At, Top, Waiting
    <2>4. k = m \/ k < m
      BY <1>3, <2>1
    <2>. QED
      BY <1>1, <2>2, <2>3, <2>4 DEF NestInv
  <1>7. Alone(t, m + 1)
    BY <1>3, <1>5, <1>6 DEF Alone
  <1>8. InOrder(g)'
    BY DEF InOrder, Clears, Delivering
  <1>9. \A i \in gated : i \notin complete'
    BY DEF OrderInv, GateInv
  <1>10. Alike
    BY DEF Alike, SameKinds
  <1>. QED
    BY <1>3, <1>5, <1>7, <1>8, <1>9, <1>10, PlainStep

\* The application and the GPU.
LEMMA OutsideOrder ==
  ASSUME OrderInv, AddRef \/ Submit \/ GpuComplete \/ UNCHANGED vars
  PROVE  OrderInv'
  <1>1. UNCHANGED <<callback, futures, complete, pending, gated, log, stack>>
    BY DEF AddRef, Submit, GpuComplete, vars
  <1>2. NestInv'
    BY <1>1 DEF OrderInv, NestInv
  <1>3. \A f : InOrder(f) => InOrder(f)'
    BY <1>1 DEF InOrder, Before, Clears
  <1>4. FrameOrder'
    BY <1>1, <1>3 DEF OrderInv, FrameOrder
  <1>5. GateInv'
    <2>1. \A id : Inserting(id)' <=> Inserting(id)
      BY <1>1 DEF Inserting
    <2>. QED
      BY <1>1, <2>1 DEF OrderInv, GateInv
  <1>. QED
    BY <1>2, <1>4, <1>5 DEF OrderInv

LEMMA BeginOrder ==
  ASSUME OneThread, IInv, OrderInv, NEW t \in Threads,
         BeginRegister(t) \/ BeginProcess(t) \/ BeginWait(t) \/ BeginLose(t)
  PROVE  OrderInv'
  <1>1. PICK g \in FrameSet : Push(t, g) /\ g.at \in {"register", "poll", "lose"}
    BY Begun
  <1>. QED
    BY <1>1, Begun, PushOrder

LEMMA ReleaseOrder ==
  ASSUME OneThread, IInv, OrderInv, NEW t \in Threads, Release(t)
  PROVE  OrderInv'
  <1>1. UNCHANGED <<callback, registry_vars, pending, gated, log>> /\ AppRuns(t)
    BY DEF Release
  <1>2. CASE use_refs = 1
    <2>1. PICK g : g = Frame("release", "cancel_take")
      OBVIOUS
    <2>2. g \in FrameSet /\ g.at = "cancel_take"
      BY <2>1, FrameIs DEF Calls, Labels
    <2>3. Push(t, g)
      BY <1>2, <2>1 DEF Release
    <2>. QED
      BY <1>1, <2>2, <2>3, PushOrder
  <1>3. CASE use_refs # 1
    <2>1. stack' = stack
      BY <1>3 DEF Release
    <2>2. NestInv'
      BY <2>1 DEF OrderInv, NestInv
    <2>3. \A f : InOrder(f) => InOrder(f)'
      BY <1>1 DEF InOrder, Before, Clears
    <2>4. FrameOrder'
      BY <2>1, <2>3 DEF OrderInv, FrameOrder
    <2>5. \A id : Inserting(id)' <=> Inserting(id)
      BY <2>1 DEF Inserting
    <2>6. GateInv'
      BY <1>1, <2>5 DEF OrderInv, GateInv
    <2>. QED
      BY <2>2, <2>4, <2>6 DEF OrderInv
  <1>. QED
    BY <1>2, <1>3

LEMMA RegisterOrder ==
  ASSUME OneThread, IInv, OrderInv, NEW t \in Threads, Register(t)
  PROVE  OrderInv'
  <1>1. StackType /\ DataType /\ CarryInv /\ NestInv /\ GateInv
    BY InParts DEF OrderInv
  <1>2. PICK n, f : Open(t, n, f) /\ f.at = "register"
    BY TopOpen DEF Register
  <1>3. PICK id : id = Len(callback) + 1
    OBVIOUS
  <1>4. PICK g : g = [f EXCEPT !.at = "insert", !.id = id]
    OBVIOUS
  <1>5. /\ callback' = Append(callback, f.want)
        /\ stack' = [stack EXCEPT ![t][Len(stack[t])] = g]
        /\ UNCHANGED <<complete, pending, gated, log>>
    BY <1>2, <1>3, <1>4 DEF Register, Open, Top
  <1>6. /\ id \in Nat /\ id \notin DOMAIN callback /\ DOMAIN callback' = DOMAIN callback \cup {id}
        /\ id = Len(callback')
        /\ \A i \in DOMAIN callback : callback'[i] = callback[i]
    BY <1>1, <1>2, <1>3, <1>5 DEF DataType, Open
  <1>7. g \in FrameSet /\ g.at = "insert" /\ g.id = id
    BY <1>2, <1>4, <1>6 DEF Open, FrameSet, Labels
  <1>8. stack[t] # <<>> /\ n = Len(stack[t])
    BY <1>2 DEF Open
  <1>9. Replaced(t, g)
    BY <1>1, <1>5, <1>7, <1>8, Replaces
  <1>10. Kept(t, n) /\ n \in DOMAIN stack'[t] /\ stack'[t][n] = g
    BY <1>1, <1>8, <1>9, KeptFacts DEF Replaced
  <1>11. n \in Nat /\ Alone(t, n) /\ \A k : ~Inserting(k)
    BY <1>1, <1>2, <1>10, OnTop DEF Inserting, Waiting
  <1>12. Later
    BY <1>5, <1>6 DEF Later, SameKinds
  <1>13. Inserting(id)'
    BY <1>7, <1>10 DEF Inserting
  <1>14. GateInv'
    <2>1. SUFFICES ASSUME NEW i \in gated
                   PROVE  /\ callback'[i].kind \in Gated /\ i \notin complete
                          /\ \A k \in DOMAIN callback' : i < k /\ callback'[k].kind \in Gated =>
                               k \in gated \/ Inserting(k)'
      BY <1>5 DEF GateInv
    <2>2. i \in DOMAIN callback
      BY <1>1 DEF DataType
    <2>3. ASSUME NEW k \in DOMAIN callback, i < k, callback'[k].kind \in Gated PROVE k \in gated
      BY <1>1, <1>6, <1>11, <2>3 DEF GateInv
    <2>. QED
      BY <1>1, <1>6, <1>13, <2>2, <2>3 DEF GateInv
  <1>15. InOrder(g)'
    BY <1>6, <1>7 DEF InOrder, Clears, Delivering
  <1>. QED
    BY <1>10, <1>11, <1>12, <1>14, <1>15, OrderStep

LEMMA InsertOrder ==
  ASSUME OneThread, IInv, OrderInv, NEW t \in Threads, Insert(t)
  PROVE  OrderInv'
  <1>1. StackType /\ DataType /\ CarryInv /\ PendingInv /\ NestInv /\ FrameOrder /\ GateInv
    BY InParts DEF OrderInv
  <1>2. PICK n, f : Open(t, n, f) /\ f.at = "insert"
    BY TopOpen DEF Insert
  <1>3. /\ f = Top(t) /\ f.op = "register" /\ f.id \in futures \ complete
        /\ f.id \in DOMAIN callback /\ callback[f.id].kind = f.want.kind
    BY <1>2 DEF Open, Sound
  <1>4. f.id = Len(callback) /\ Len(callback) \in Nat /\ DOMAIN callback = 1 .. Len(callback)
    BY <1>1, <1>2 DEF FrameOrder, InOrder, Open, DataType
  <1>5. UNCHANGED <<callback, complete, log>>
    BY DEF Insert
  <1>6. \A k : Inserting(k) => k = f.id
    BY <1>1, <1>2, OnTop DEF Inserting, Waiting
  <1>7. CASE use_refs = 0
    <2>1. Go(t, "cancel_complete", {f.id}) /\ UNCHANGED <<pending, gated>>
      BY <1>3, <1>7 DEF Insert
    <2>2. {f.id} \in SUBSET Nat /\ "cancel_complete" \in Labels
      BY <1>2 DEF Open, Labels
    <2>3. PICK g : Turns(t, n, g) /\ Follows(f, g, "cancel_complete", {f.id})
      BY <1>1, <1>2, <2>1, <2>2, GoesOpen
    <2>4. pending = {} /\ gated = {}
      <3>1. ~\E u \in Threads : \E k \in DOMAIN stack[u] : stack[u][k].at = "cancel_take"
        BY <1>1, <1>2, OnTop DEF Waiting
      <3>. QED
        BY <1>1, <1>7, <3>1 DEF PendingInv, DataType
    <2>5. Later /\ GateInv'
      BY <1>5, <2>1, <2>4 DEF Later, SameKinds, GateInv
    <2>6. InOrder(g)'
      BY <2>3 DEF Follows, InOrder, Clears, Delivering
    <2>7. n \in Nat /\ Alone(t, n)
      BY <1>1, <1>2, <2>3, OnTop DEF Turns
    <2>. QED
      BY <2>3, <2>5, <2>6, <2>7, OrderStep DEF Turns
  <1>8. CASE use_refs # 0
    <2>1. PICK label : label = AfterInsert(t)
      OBVIOUS
    <2>2. label \in {"poll", "finish"} /\ label \in Labels /\ {} \in SUBSET Nat
      BY <1>3, <2>1 DEF AfterInsert, Labels
    <2>3. /\ pending' = pending \cup {f.id}
          /\ gated' = IF f.want.kind \in Gated THEN gated \cup {f.id} ELSE gated
          /\ Go(t, label, {})
      BY <1>3, <1>8, <2>1 DEF Insert
    <2>4. PICK g : Turns(t, n, g) /\ Follows(f, g, label, {})
      BY <1>1, <1>2, <2>2, <2>3, GoesOpen
    <2>5. Later
      BY <1>4, <1>5, <2>3 DEF Later, SameKinds
    <2>6. GateInv'
      <3>1. SUFFICES ASSUME NEW i \in gated'
                     PROVE  /\ callback[i].kind \in Gated /\ i \notin complete
                            /\ \A k \in DOMAIN callback : i < k /\ callback[k].kind \in Gated => k \in gated'
        BY <1>5 DEF GateInv
      <3>2. CASE i \in gated
        <4>1. ASSUME NEW k \in DOMAIN callback, i < k, callback[k].kind \in Gated PROVE k \in gated'
          <5>1. k \in gated \/ k = f.id
            BY <1>1, <1>6, <3>2, <4>1 DEF GateInv
          <5>2. k = f.id => f.want.kind \in Gated
            BY <1>3, <4>1
          <5>. QED
            BY <2>3, <5>1, <5>2
        <4>. QED
          BY <1>1, <3>2, <4>1 DEF GateInv
      <3>3. CASE i \notin gated
        <4>1. i = f.id /\ f.want.kind \in Gated
          BY <2>3, <3>1, <3>3
        <4>. QED
          BY <1>3, <1>4, <4>1
      <3>. QED
        BY <3>2, <3>3
    <2>7. InOrder(g)'
      BY <2>2, <2>4 DEF Follows, InOrder, Clears, Delivering
    <2>8. n \in Nat /\ Alone(t, n)
      BY <1>1, <1>2, <2>4, OnTop DEF Turns
    <2>. QED
      BY <2>4, <2>5, <2>6, <2>7, <2>8, OrderStep DEF Turns
  <1>. QED
    BY <1>7, <1>8

\* A closed gate blocks the later ones of the queue, and a lost device leaves none.
LEMMA PollGates ==
  ASSUME GateInv, DataType, \A id : ~Inserting(id),
         NEW seen, NEW alive \in SUBSET Attached, NEW erred \in SUBSET (gated \cap alive),
         alive = {} \/ Attached \ alive = {},
         \A j \in erred : ~Blocked(seen, alive, erred, j),
         callback' = [i \in DOMAIN callback |->
            IF i \in Attached \ alive THEN Ended(callback[i])
            ELSE IF i \in erred THEN [callback[i] EXCEPT !.outcome = "error"]
            ELSE callback[i]],
         gated' = gated \ ((Attached \ alive) \cup Resolved(seen, alive, erred)),
         complete' = complete, pending' = pending
  PROVE  Later /\ GateInv'
  <1>1. gated \subseteq DOMAIN callback /\ callback \in Seq(Wants)
        /\ DOMAIN callback = 1 .. Len(callback) /\ Len(callback) \in Nat
    BY DEF DataType
  <1>2. DOMAIN callback' = DOMAIN callback
    OBVIOUS
  <1>3. ASSUME NEW i \in DOMAIN callback
        PROVE  callback'[i].kind = callback[i].kind /\ callback'[i].mode = callback[i].mode
    <2>1. PICK w : w = callback[i]
      OBVIOUS
    <2>2. w \in Wants
      BY <1>1, <2>1
    <2>3. CASE i \in Attached \ alive
      <3>1. callback'[i] = Ended(w)
        BY <2>1, <2>3
      <3>. QED
        BY <2>1, <2>2, <3>1, EndedFacts
    <2>4. CASE i \notin Attached \ alive /\ i \in erred
      <3>1. callback'[i] = [w EXCEPT !.outcome = "error"]
        BY <2>1, <2>4
      <3>. QED
        BY <2>1, <2>2, <3>1, EndedFacts
    <2>5. CASE i \notin Attached \ alive /\ i \notin erred
      BY <2>5
    <2>. QED
      BY <2>3, <2>4, <2>5
  <1>4. Later
    BY <1>2, <1>3 DEF Later, SameKinds
  <1>5. gated \subseteq Attached
    BY DEF Attached, GateInv, DataType
  <1>6. ASSUME NEW i \in gated', NEW k \in DOMAIN callback, i < k, callback[k].kind \in Gated
        PROVE  k \in gated'
    <2>1. i \in gated /\ i \notin Resolved(seen, alive, erred) /\ i \in Nat /\ k \in Nat
      BY <1>1
    <2>2. k \in gated
      BY <1>6, <2>1 DEF GateInv
    <2>3. i \in alive /\ k \in alive
      BY <1>5, <1>6, <2>1, <2>2
    <2>4. i \in (gated \cap alive) \ erred
      BY <2>1, <2>3 DEF Resolved
    <2>5. Blocked(seen, alive, erred, k)
      <3>1. CASE Blocks(seen, i)
        BY <1>6, <2>4, <3>1 DEF Blocked
      <3>2. CASE ~Blocks(seen, i)
        <4>1. Blocked(seen, alive, erred, i)
          BY <2>1, <2>4, <3>2 DEF Resolved
        <4>2. PICK l \in (gated \cap alive) \ erred : l < i /\ Blocks(seen, l)
          BY <4>1 DEF Blocked
        <4>3. l < k
          BY <1>1, <1>6, <2>1, <4>2
        <4>. QED
          BY <4>2, <4>3 DEF Blocked
      <3>. QED
        BY <3>1, <3>2
    <2>6. k \notin Resolved(seen, alive, erred)
      BY <2>3, <2>5 DEF Resolved
    <2>. QED
      BY <2>2, <2>3, <2>6
  <1>7. ASSUME NEW i \in gated' PROVE callback'[i].kind \in Gated /\ i \notin complete'
    BY <1>1, <1>3, <1>7 DEF GateInv
  <1>. QED
    BY <1>2, <1>3, <1>4, <1>6, <1>7 DEF GateInv

LEMMA PollOrder ==
  ASSUME OneThread, IInv, OrderInv, NEW t \in Threads, Poll(t)
  PROVE  OrderInv'
  <1>1. StackType /\ DataType /\ NestInv /\ GateInv
    BY InParts DEF OrderInv
  <1>2. PICK n, f : Open(t, n, f) /\ f.at = "poll"
    BY TopOpen DEF Poll
  <1>3. \A id : ~Inserting(id)
    BY <1>1, <1>2, OnTop DEF Inserting, Waiting
  <1>a4. PICK seen \in Answers, alive \in SUBSET Attached : \E erred \in SUBSET (gated \cap alive) :
       /\ Attached \ alive # {} => lost \/ \E u \in Threads \ {t} : At(u, "lose")
       /\ lost => alive = {}
       /\ \A j \in erred : ~Blocked(seen, alive, erred, j)
       /\ callback' = [i \in DOMAIN callback |->
            IF i \in Attached \ alive THEN Ended(callback[i])
            ELSE IF i \in erred THEN [callback[i] EXCEPT !.outcome = "error"]
            ELSE callback[i]]
       /\ gated' = gated \ ((Attached \ alive) \cup Resolved(seen, alive, erred))
       /\ Loop(t, "complete", (Attached \ alive) \cup Resolved(seen, alive, erred), AfterPoll(t))
    BY PollIs
  <1>4. PICK erred \in SUBSET (gated \cap alive) :
       /\ Attached \ alive # {} => lost \/ \E u \in Threads \ {t} : At(u, "lose")
       /\ lost => alive = {}
       /\ \A j \in erred : ~Blocked(seen, alive, erred, j)
       /\ callback' = [i \in DOMAIN callback |->
            IF i \in Attached \ alive THEN Ended(callback[i])
            ELSE IF i \in erred THEN [callback[i] EXCEPT !.outcome = "error"]
            ELSE callback[i]]
       /\ gated' = gated \ ((Attached \ alive) \cup Resolved(seen, alive, erred))
       /\ Loop(t, "complete", (Attached \ alive) \cup Resolved(seen, alive, erred), AfterPoll(t))
    BY <1>a4
  <1>5. UNCHANGED <<complete, pending>>
    BY DEF Poll
  <1>6. PICK R : R = (Attached \ alive) \cup Resolved(seen, alive, erred)
    OBVIOUS
  <1>7. R \in SUBSET Nat
    BY <1>1, <1>6 DEF Resolved, Attached, DataType
  <1>8. Later /\ GateInv'
    <2>1. alive = {} \/ Attached \ alive = {}
      BY <1>4 DEF OneThread
    <2>. QED
      BY <1>1, <1>3, <1>4, <1>5, <2>1, PollGates
  <1>9. f.op \in {"register", "process", "wait"}
    BY <1>2 DEF Open, Sound, Calls
  <1>10. AfterPoll(t) \in {"finish", "take_ready", "take_waited"}
    BY <1>2, <1>9, AfterPollIs
  <1>11. PICK g : /\ Turns(t, n, g)
                  /\ \/ Follows(f, g, "complete", R)
                     \/ Follows(f, g, AfterPoll(t), {})
    BY <1>1, <1>2, <1>4, <1>6, <1>7, <1>10, LoopOpen DEF Labels
  <1>12. InOrder(g)'
    <2>1. CASE Follows(f, g, "complete", R)
      <3>1. g.at = "complete" /\ g.todo = R
        BY <2>1 DEF Follows
      <3>. QED
        BY <1>4, <1>6, <3>1 DEF InOrder, Clears, Delivering
    <2>2. CASE Follows(f, g, AfterPoll(t), {})
      <3>1. g.at \in {"finish", "take_ready", "take_waited"}
        BY <1>10, <2>2 DEF Follows
      <3>. QED
        BY <3>1 DEF InOrder, Clears, Delivering
    <2>. QED
      BY <1>11, <2>1, <2>2
  <1>13. n \in Nat /\ Alone(t, n)
    BY <1>1, <1>2, <1>11, OnTop DEF Turns
  <1>. QED
    BY <1>8, <1>11, <1>12, <1>13, OrderStep DEF Turns

\* The loss of the device.
LEMMA LossOrder ==
  ASSUME OneThread, IInv, OrderInv, NEW t \in Threads, Lose(t) \/ Abort(t)
  PROVE  OrderInv'
  <1>1. StackType /\ DataType /\ GateInv
    BY InParts DEF OrderInv
  <1>2. "abort" \in Labels /\ "complete" \in Labels /\ {} \in SUBSET Nat
        /\ "return" \in Labels \cup {"return"}
    BY DEF Labels
  <1>3. \A i \in gated : i \notin complete
    BY <1>1 DEF GateInv
  <1>4. CASE Lose(t)
    <2>1. PICK n, f : Open(t, n, f) /\ f.at = "lose"
      BY <1>4, TopOpen DEF Lose
    <2>2. Go(t, "abort", {}) /\ UNCHANGED <<callback, complete, pending, gated>>
      BY <1>4 DEF Lose
    <2>3. Resumes(t, n, f, "abort", {})
      BY <1>1, <1>2, <2>1, <2>2, GoResumes
    <2>. QED
      BY <1>3, <2>1, <2>2, <2>3, TopStep DEF Delivering
  <1>5. CASE Abort(t)
    <2>1. PICK n, f : Open(t, n, f) /\ f.at = "abort"
      BY <1>5, TopOpen DEF Abort
    <2>2. /\ callback' = [i \in DOMAIN callback |->
                            IF i \in Attached THEN Ended(callback[i]) ELSE callback[i]]
          /\ gated' = gated \ Attached /\ Loop(t, "complete", Attached, "return")
          /\ UNCHANGED <<complete, pending>>
      BY <1>5 DEF Abort
    <2>3. gated' = {} /\ Attached \subseteq DOMAIN callback /\ Attached \in SUBSET Nat
      BY <1>1, <2>2 DEF Attached, GateInv, DataType
    <2>4. Alike
      <3>1. ASSUME NEW i \in DOMAIN callback
            PROVE  callback'[i].kind = callback[i].kind /\ callback'[i].mode = callback[i].mode
        <4>1. callback[i] \in Wants
          BY <1>1 DEF DataType
        <4>. QED
          BY <2>2, <4>1, EndedFacts
      <3>. QED
        BY <2>2, <3>1 DEF Alike, SameKinds
    <2>5. Resumes(t, n, f, "complete", Attached) \/ Resumes(t, n, f, "return", {})
      BY <1>1, <1>2, <2>1, <2>2, <2>3, LoopResumes
    <2>6. CASE Resumes(t, n, f, "complete", Attached)
      BY <1>3, <2>1, <2>2, <2>3, <2>4, <2>6, TopStep DEF Delivering
    <2>7. CASE Resumes(t, n, f, "return", {})
      BY <1>3, <2>1, <2>2, <2>3, <2>4, <2>7, TopStep DEF Delivering
    <2>. QED
      BY <2>5, <2>6, <2>7
  <1>. QED
    BY <1>4, <1>5

LEMMA CompleteOrder ==
  ASSUME OneThread, IInv, OrderInv, NEW t \in Threads, Complete(t)
  PROVE  OrderInv'
  <1>1. StackType /\ FrameOrder /\ GateInv
    BY InParts DEF OrderInv
  <1>2. PICK n, f : Open(t, n, f) /\ f.at = "complete"
    BY TopOpen DEF Complete
  <1>3. PICK id \in f.todo :
          /\ complete' = complete \cup ({id} \cap futures)
          /\ Loop(t, "complete", f.todo \ {id}, AfterPoll(t))
    BY <1>2 DEF Complete, Open
  <1>4. UNCHANGED <<callback, pending, gated, log>>
    BY DEF Complete
  <1>5. f.op # "release" /\ f.todo \cap gated = {} /\ f.todo \subseteq DOMAIN callback
    BY <1>1, <1>2 DEF Open, Sound, FrameOrder, InOrder
  <1>6. PICK R : R = f.todo \ {id}
    OBVIOUS
  <1>7. R \in SUBSET Nat /\ R \cap gated = {} /\ R \subseteq DOMAIN callback /\ "complete" \in Labels
    BY <1>2, <1>5, <1>6 DEF Open, Labels
  <1>8. PICK label, todo : /\ Resumes(t, n, f, label, todo) /\ todo \cap gated = {}
                           /\ todo \subseteq DOMAIN callback
                           /\ label \in {"complete", "finish", "take_ready", "take_waited",
                                          "return"}
    <2>1. Resumes(t, n, f, "complete", R) \/ Resumes(t, n, f, AfterPoll(t), {})
      BY <1>1, <1>2, <1>3, <1>5, <1>6, <1>7, AfterPollIs, LoopResumes
    <2>2. AfterPoll(t) \in {"finish", "take_ready", "take_waited", "return"} /\ {} \cap gated = {}
      BY <1>2, <1>5, AfterPollIs
    <2>. QED
      BY <1>7, <2>1, <2>2
  <1>9. \A i \in gated : i \notin complete'
    BY <1>1, <1>3, <1>5 DEF GateInv
  <1>10. label \notin {"take", "fire", "callback", "insert"}
    BY <1>8
  <1>. QED
    BY <1>2, <1>4, <1>8, <1>9, <1>10, TopStep DEF Delivering

LEMMA TakeReadyOrder ==
  ASSUME OneThread, IInv, OrderInv, NEW t \in Threads, TakeReady(t) \/ TakeWaited(t)
  PROVE  OrderInv'
  <1>1. StackType /\ DataType /\ GateInv
    BY InParts DEF OrderInv
  <1>2. UNCHANGED <<callback, pending, gated, log>> /\ complete' \subseteq complete
    BY DEF TakeReady, TakeWaited
  <1>3. \A i \in gated : i \notin complete'
    BY <1>1, <1>2 DEF GateInv
  <1>4. \A R \in SUBSET complete : R \in SUBSET Nat /\ R \cap gated = {} /\ R \subseteq DOMAIN callback
    BY <1>1 DEF GateInv, DataType
  <1>5. "take" \in Labels /\ "return" \in Labels \cup {"return"}
    BY DEF Labels
  <1>6. CASE TakeReady(t)
    <2>1. PICK n, f : Open(t, n, f) /\ f.at = "take_ready"
      BY <1>6, TopOpen DEF TakeReady
    <2>2. PICK R : R = Processable
      OBVIOUS
    <2>3. R \in SUBSET complete
      BY <2>2 DEF Processable
    <2>4. ASSUME NEW k \in R, NEW i \in pending, Before(i, k) PROVE i \in R
      <3>1. i \in complete /\ callback[i].mode = callback[k].mode
        BY <2>1, <2>3, <2>4, EarlierComplete DEF Before
      <3>. QED
        BY <2>2, <2>4, <3>1 DEF Processable
    <2>5. Loop(t, "take", R, "return")
      BY <1>6, <2>2 DEF TakeReady
    <2>6. Resumes(t, n, f, "take", R) \/ Resumes(t, n, f, "return", {})
      BY <1>1, <1>4, <1>5, <2>1, <2>3, <2>5, LoopResumes
    <2>7. CASE Resumes(t, n, f, "take", R)
      BY <1>2, <1>3, <1>4, <2>1, <2>3, <2>4, <2>7, TopStep DEF Delivering
    <2>8. CASE Resumes(t, n, f, "return", {})
      BY <1>2, <1>3, <2>1, <2>8, TopStep DEF Delivering
    <2>. QED
      BY <2>6, <2>7, <2>8
  <1>7. CASE TakeWaited(t)
    <2>1. PICK n, f : Open(t, n, f) /\ f.at = "take_waited"
      BY <1>7, TopOpen DEF TakeWaited
    <2>2. f.op # "process"
      BY <2>1 DEF Open, Sound
    <2>3. PICK R : R = complete \cap Top(t).list
      OBVIOUS
    <2>4. Loop(t, "take", R, "return") /\ R \in SUBSET complete
      BY <1>7, <2>3 DEF TakeWaited
    <2>5. Resumes(t, n, f, "take", R) \/ Resumes(t, n, f, "return", {})
      BY <1>1, <1>4, <1>5, <2>1, <2>4, LoopResumes
    <2>6. CASE Resumes(t, n, f, "take", R)
      BY <1>2, <1>3, <1>4, <2>1, <2>2, <2>4, <2>6, TopStep DEF Delivering
    <2>7. CASE Resumes(t, n, f, "return", {})
      BY <1>2, <1>3, <2>1, <2>7, TopStep DEF Delivering
    <2>. QED
      BY <2>5, <2>6, <2>7
  <1>. QED
    BY <1>6, <1>7

LEMMA TakeOrder ==
  ASSUME OneThread, IInv, OrderInv, NEW t \in Threads, Take(t)
  PROVE  OrderInv'
  <1>1. StackType /\ DataType /\ FrameOrder /\ GateInv
    BY InParts DEF OrderInv
  <1>2. PICK n, f : Open(t, n, f) /\ f.at = "take"
    BY TopOpen DEF Take
  <1>3. PICK R : R = f.todo \cap pending
    OBVIOUS
  <1>12. R \subseteq DOMAIN callback
    BY <1>1, <1>3 DEF DataType
  <1>4. /\ pending' = pending \ R /\ gated' = gated \ R /\ Loop(t, "fire", R, "return")
        /\ UNCHANGED <<callback, complete, log>>
    BY <1>2, <1>3 DEF Take, Open
  <1>5. InOrder(f) /\ f.op \in {"process", "wait"}
    BY <1>1, <1>2 DEF FrameOrder, Open, Sound
  <1>6. gated' = gated
    BY <1>2, <1>3, <1>4, <1>5 DEF InOrder
  <1>7. \A i \in gated : i \notin complete'
    BY <1>1, <1>4 DEF GateInv
  <1>8. ASSUME f.op = "process", NEW k \in R, NEW i \in pending'
        PROVE  ~Before(i, k)
    BY <1>2, <1>3, <1>4, <1>5, <1>8 DEF InOrder
  <1>9. Resumes(t, n, f, "fire", R) \/ Resumes(t, n, f, "return", {})
    <2>1. R \in SUBSET Nat /\ "fire" \in Labels /\ "return" \in Labels \cup {"return"}
      BY <1>1, <1>3 DEF Labels, DataType
    <2>. QED
      BY <1>1, <1>2, <1>4, <2>1, LoopResumes
  <1>10. CASE Resumes(t, n, f, "fire", R)
    BY <1>2, <1>12, <1>4, <1>5, <1>6, <1>7, <1>8, <1>10, TopStep
  <1>11. CASE Resumes(t, n, f, "return", {})
    BY <1>2, <1>4, <1>6, <1>7, <1>11, TopStep DEF Delivering
  <1>. QED
    BY <1>9, <1>10, <1>11

LEMMA FinishOrder ==
  ASSUME OneThread, IInv, OrderInv, NEW t \in Threads, Finish(t)
  PROVE  OrderInv'
  <1>1. StackType /\ DataType /\ GateInv
    BY InParts DEF OrderInv
  <1>2. PICK n, f : Open(t, n, f) /\ f.at = "finish"
    BY TopOpen DEF Finish
  <1>3. PICK own : own = f.id
    OBVIOUS
  <1>4. /\ f = Top(t) /\ f.op = "register" /\ own \in DOMAIN callback
        /\ callback[own].kind = f.want.kind
    BY <1>2, <1>3 DEF Open, Sound
  <1>5. PICK marked : marked = IF f.want.kind \in Gated THEN complete
                               ELSE complete \cup ({own} \cap futures)
    OBVIOUS
  <1>6. PICK R :
          R = IF /\ own \in pending /\ callback[own].mode = "spontaneous"
                 /\ Ready(own, marked)
              THEN {own} \cup {i \in {i \in pending : i < own /\ callback[i].mode = "spontaneous"} :
                                 Ready(i, marked)}
              ELSE {}
    OBVIOUS
  <1>7. /\ complete' = marked \ R /\ pending' = pending \ R
        /\ gated' = gated \ R /\ Loop(t, "fire", R, "return") /\ UNCHANGED <<callback, log>>
    BY <1>3, <1>4, <1>5, <1>6 DEF Finish
  <1>8. R \subseteq pending /\ \A i \in R : i \notin futures \/ i \in marked
    BY <1>6 DEF Ready
  <1>18. R \subseteq DOMAIN callback
    BY <1>1, <1>8 DEF DataType
  <1>9. \A i \in pending : i \in futures
    BY <1>2, PassedComplete
  <1>10. \A i \in marked : callback[i].kind \in Gated => i \in complete
    BY <1>4, <1>5
  <1>11. \A i \in R : i \in marked
    BY <1>8, <1>9
  <1>12. gated' = gated
    BY <1>1, <1>7, <1>10, <1>11 DEF GateInv
  <1>13. \A i \in gated : i \notin complete'
    BY <1>1, <1>7, <1>10 DEF GateInv
  <1>14. ASSUME NEW k \in R, NEW i \in pending' PROVE ~Before(i, k)
    <2>1. SUFFICES ASSUME Before(i, k) PROVE FALSE
      OBVIOUS
    <2>2. i \in pending /\ i \notin R /\ k \in pending
      BY <1>7, <1>8
    <2>3. k \in complete
      BY <1>10, <1>11, <1>14, <2>1 DEF Before
    <2>4. i \in complete
      BY <1>2, <1>14, <2>1, <2>2, <2>3, EarlierComplete
    <2>5. Ready(i, marked)
      BY <1>5, <2>4 DEF Ready
    <2>6. callback[k].mode = "spontaneous" /\ (k = own \/ k < own)
      BY <1>6
    <2>7. i < k /\ callback[i].mode = "spontaneous"
      BY <2>1, <2>6 DEF Before
    <2>8. i \in Nat /\ k \in Nat /\ own \in Nat
      BY <1>1, <1>4, <2>2 DEF DataType
    <2>9. i < own
      BY <2>6, <2>7, <2>8
    <2>. QED
      BY <1>6, <1>14, <2>2, <2>5, <2>7, <2>9
  <1>15. Resumes(t, n, f, "fire", R) \/ Resumes(t, n, f, "return", {})
    <2>1. R \in SUBSET Nat /\ "fire" \in Labels /\ "return" \in Labels \cup {"return"}
      BY <1>1, <1>8 DEF Labels, DataType
    <2>. QED
      BY <1>1, <1>2, <1>7, <2>1, LoopResumes
  <1>16. CASE Resumes(t, n, f, "fire", R)
    BY <1>2, <1>7, <1>12, <1>13, <1>14, <1>16, <1>18, TopStep
  <1>17. CASE Resumes(t, n, f, "return", {})
    BY <1>2, <1>7, <1>12, <1>13, <1>17, TopStep DEF Delivering
  <1>. QED
    BY <1>15, <1>16, <1>17

LEMMA CancelOrder ==
  ASSUME OneThread, IInv, OrderInv, NEW t \in Threads, CancelTake(t) \/ CancelComplete(t)
  PROVE  OrderInv'
  <1>1. StackType /\ DataType /\ CarryInv /\ GateInv
    BY InParts DEF OrderInv
  <1>2. {"cancel", "cancel_complete"} \subseteq Labels /\ "return" \in Labels \cup {"return"}
    BY DEF Labels
  <1>3. CASE CancelTake(t)
    <2>1. PICK n, f : Open(t, n, f) /\ f.at = "cancel_take"
      BY <1>3, TopOpen DEF CancelTake
    <2>2. /\ pending' = {} /\ gated' = {} /\ Loop(t, "cancel_complete", pending, "return")
          /\ UNCHANGED <<callback, complete, log>>
      BY <1>3 DEF CancelTake
    <2>3. pending \in SUBSET Nat /\ pending \subseteq DOMAIN callback
      BY <1>1 DEF DataType
    <2>4. \/ Resumes(t, n, f, "cancel_complete", pending)
          \/ Resumes(t, n, f, "return", {})
      BY <1>1, <1>2, <2>1, <2>2, <2>3, LoopResumes
    <2>5. \A i \in gated : i \notin complete'
      BY <1>1, <2>2 DEF GateInv
    <2>6. CASE Resumes(t, n, f, "cancel_complete", pending)
      BY <2>1, <2>2, <2>3, <2>5, <2>6, TopStep DEF Delivering
    <2>7. CASE Resumes(t, n, f, "return", {})
      BY <2>1, <2>2, <2>5, <2>7, TopStep DEF Delivering
    <2>. QED
      BY <2>4, <2>6, <2>7
  <1>4. CASE CancelComplete(t)
    <2>1. PICK n, f : Open(t, n, f) /\ f.at = "cancel_complete"
      BY <1>4, TopOpen DEF CancelComplete
    <2>2. PICK id \in f.todo : complete' = complete \cup ({id} \cap futures)
      BY <1>4, <2>1 DEF CancelComplete, Open
    <2>3. Go(t, "cancel", f.todo) /\ f.todo \in SUBSET Nat
          /\ f.todo \subseteq DOMAIN callback
          /\ UNCHANGED <<callback, pending, gated, log>>
      BY <1>4, <2>1 DEF CancelComplete, Open, Sound
    <2>4. Resumes(t, n, f, "cancel", f.todo)
      BY <1>1, <1>2, <2>1, <2>3, GoResumes
    <2>5. id \notin gated
      BY <1>1, <2>1 DEF CarryInv, Holds, Carries, Open, DataType
    <2>6. \A i \in gated : i \notin complete'
      BY <1>1, <2>2, <2>5 DEF GateInv
    <2>. QED
      BY <2>1, <2>3, <2>4, <2>6, TopStep DEF Delivering
  <1>. QED
    BY <1>3, <1>4

LEMMA ReturnOrder ==
  ASSUME OneThread, IInv, OrderInv, NEW t \in Threads, Return(t)
  PROVE  OrderInv'
  <1>1. StackType /\ FrameOrder /\ GateInv
    BY InParts DEF OrderInv
  <1>2. UNCHANGED <<callback, complete, pending, gated, log>>
    BY DEF Return
  <1>3. \A i \in gated : i \notin complete'
    BY <1>1, <1>2 DEF GateInv
  <1>4. {"fire", "cancel_complete", "poll", "finish"} \subseteq Labels
        /\ "return" \in Labels \cup {"return"}
    BY DEF Labels
  <1>5. CASE At(t, "callback") /\ Loop(t, "fire", Top(t).todo, "return")
    <2>1. PICK n, f : Open(t, n, f) /\ f.at = "callback"
      BY <1>5, TopOpen
    <2>2. Loop(t, "fire", f.todo, "return") /\ f.todo \in SUBSET Nat
          /\ f.todo \subseteq DOMAIN callback
      BY <1>5, <2>1 DEF Open, Sound
    <2>3. Resumes(t, n, f, "fire", f.todo) \/ Resumes(t, n, f, "return", {})
      BY <1>1, <1>4, <2>1, <2>2, LoopResumes
    <2>4. f.op \in {"process", "register"} =>
            \A k \in f.todo, i \in pending' : ~Before(i, k)
      BY <1>1, <1>2, <2>1 DEF FrameOrder, InOrder, Clears, Delivering, Open
    <2>5. CASE Resumes(t, n, f, "fire", f.todo)
      BY <1>2, <1>3, <2>1, <2>2, <2>4, <2>5, TopStep
    <2>6. CASE Resumes(t, n, f, "return", {})
      BY <1>2, <1>3, <2>1, <2>6, TopStep DEF Delivering
    <2>. QED
      BY <2>3, <2>5, <2>6
  <1>6. CASE At(t, "cancelled") /\ Loop(t, "cancel_complete", Top(t).todo, AfterCancel(t))
    <2>1. PICK n, f : Open(t, n, f) /\ f.at = "cancelled"
      BY <1>6, TopOpen
    <2>2. Loop(t, "cancel_complete", f.todo, AfterCancel(t)) /\ f.todo \in SUBSET Nat
          /\ f.todo \subseteq DOMAIN callback
      BY <1>6, <2>1 DEF Open, Sound
    <2>3. AfterCancel(t) \in {"return", "poll", "finish"}
      BY DEF AfterCancel, AfterInsert
    <2>4. PICK label, todo : Resumes(t, n, f, label, todo) /\ todo \subseteq DOMAIN callback
                             /\ label \in {"cancel_complete", "return", "poll", "finish"}
      BY <1>1, <1>4, <2>1, <2>2, <2>3, LoopResumes
    <2>5. label \notin {"take", "complete", "fire", "callback", "insert"}
      BY <2>4
    <2>. QED
      BY <1>2, <1>3, <2>1, <2>4, <2>5, TopStep DEF Delivering
  <1>. QED
    BY <1>5, <1>6 DEF Return

\* A callback is called, or cancelled.
LEMMA SettleOrder ==
  ASSUME OneThread, IInv, OrderInv, NEW t \in Threads, NEW n, NEW f, Open(t, n, f),
         NEW id \in f.todo, NEW label,
         \/ f.at = "fire" /\ label = "callback"
         \/ f.at = "cancel" /\ label = "cancelled",
         Go(t, label, f.todo \ {id}), Alike, UNCHANGED <<complete, pending, gated>>
  PROVE  OrderInv'
  <1>1. StackType /\ FrameOrder /\ GateInv
    BY InParts DEF OrderInv
  <1>2. /\ label \in Labels /\ f.todo \ {id} \in SUBSET Nat
        /\ f.todo \ {id} \subseteq DOMAIN callback
    BY DEF Open, Sound, Labels
  <1>3. Resumes(t, n, f, label, f.todo \ {id})
    BY <1>1, <1>2, GoResumes
  <1>4. InOrder(f)
    BY <1>1 DEF FrameOrder, Open
  <1>5. \A i \in gated : i \notin complete'
    BY <1>1 DEF GateInv
  <1>6. f.op \in {"process", "register"} /\ label \in Delivering =>
          \A k \in f.todo \ {id}, i \in pending' : ~Before(i, k)
    BY <1>4 DEF InOrder, Clears, Delivering
  <1>7. label \notin {"complete", "take", "insert"} /\ f.at # "insert"
    OBVIOUS
  <1>. QED
    BY <1>2, <1>3, <1>5, <1>6, <1>7, TopStep

LEMMA FireOrder ==
  ASSUME OneThread, IInv, OrderInv, NEW t \in Threads, Fire(t) \/ Cancel(t)
  PROVE  OrderInv'
  <1>1. UNCHANGED <<complete, pending, gated, queue_vars>> /\ DataType
    BY InParts DEF Fire, Cancel
  <1>2. CASE Fire(t)
    <2>1. PICK n, f : Open(t, n, f) /\ f.at = "fire"
      BY <1>2, TopOpen DEF Fire
    <2>2. PICK id \in f.todo : /\ callback' = [callback EXCEPT ![id] = Shown(@)]
                               /\ Go(t, "callback", f.todo \ {id})
      BY <1>2, <2>1 DEF Fire, Open
    <2>3. Alike
      <3>1. id \in DOMAIN callback
        BY <2>1, <2>2 DEF Open, Sound
      <3>. QED
        BY <1>1, <2>2, <3>1, ShownFacts DEF Alike, SameKinds
    <2>. QED
      BY <1>1, <2>1, <2>2, <2>3, SettleOrder
  <1>3. CASE Cancel(t)
    <2>1. PICK n, f : Open(t, n, f) /\ f.at = "cancel"
      BY <1>3, TopOpen DEF Cancel
    <2>2. PICK id \in f.todo : Go(t, "cancelled", f.todo \ {id})
      BY <1>3, <2>1 DEF Cancel, Open
    <2>3. Alike
      BY <1>3 DEF Cancel, Alike, SameKinds
    <2>. QED
      BY <1>1, <2>1, <2>2, <2>3, SettleOrder
  <1>. QED
    BY <1>2, <1>3

LEMMA InitOrder ==
  ASSUME Init
  PROVE  OrderInv
  <1>1. \A t \in Threads : DOMAIN stack[t] = {}
    BY DEF Init
  <1>2. gated = {}
    BY DEF Init
  <1>. QED
    BY <1>1, <1>2 DEF OrderInv, NestInv, FrameOrder, GateInv

LEMMA NextOrder ==
  ASSUME OneThread, IInv, OrderInv, [Next]_vars
  PROVE  OrderInv'
  <1>1. CASE AddRef \/ Submit \/ GpuComplete \/ Finished \/ UNCHANGED vars
    BY <1>1, OutsideOrder DEF Finished
  <1>2. ASSUME NEW t \in Threads,
               \/ BeginRegister(t) \/ BeginProcess(t) \/ BeginWait(t) \/ BeginLose(t)
               \/ Release(t)
        PROVE  OrderInv'
    BY <1>2, BeginOrder, ReleaseOrder
  <1>3. ASSUME NEW t \in Threads, Step(t)
        PROVE  OrderInv'
    <2>1. CASE Register(t) \/ Insert(t) \/ Poll(t) \/ Complete(t) \/ Finish(t)
      BY <2>1, RegisterOrder, InsertOrder, PollOrder, CompleteOrder, FinishOrder
    <2>2. CASE TakeReady(t) \/ TakeWaited(t) \/ Take(t)
      BY <2>2, TakeReadyOrder, TakeOrder
    <2>3. CASE Fire(t) \/ Cancel(t) \/ Return(t)
      BY <2>3, FireOrder, ReturnOrder
    <2>4. CASE CancelTake(t) \/ CancelComplete(t)
      BY <2>4, CancelOrder
    <2>5. CASE Lose(t) \/ Abort(t)
      BY <2>5, LossOrder
    <2>. QED
      BY <1>3, <2>1, <2>2, <2>3, <2>4, <2>5 DEF Step
  <1>. QED
    BY <1>1, <1>2, <1>3 DEF Next

\* A callback that is called by the call on top is the next of its batch.
LEMMA DeliversNext ==
  ASSUME OneThread, IInv, Next, NEW t \in Threads, NEW id, Delivers(t, id)
  PROVE  id \in Top(t).todo /\ IsNext(Top(t), id)
  <1>1. log \in Seq(Deliveries) /\ At(t, "fire")
    BY InParts DEF DataType, Delivers
  <1>2. log' # log
    <2>1. Len(log') = Len(log) + 1
      BY <1>1 DEF Delivers
    <2>. QED
      BY <1>1, <2>1
  <1>3. Fire(t)
    <2>1. \A u \in Threads : u = t
      BY DEF OneThread
    <2>2. ~Cancel(t)
      BY <1>1 DEF At, Cancel
    <2>3. ~(AddRef \/ Submit \/ GpuComplete \/ Finished)
      BY <1>2 DEF AddRef, Submit, GpuComplete, Finished, vars
    <2>4. ~(BeginRegister(t) \/ BeginProcess(t) \/ BeginWait(t) \/ BeginLose(t) \/ Release(t))
      BY <1>2 DEF BeginRegister, BeginProcess, BeginWait, BeginLose, Release
    <2>5. Step(t)
      BY <2>1, <2>3, <2>4 DEF Next
    <2>6. ~(\/ Register(t) \/ Insert(t) \/ Poll(t) \/ Complete(t) \/ Finish(t) \/ TakeReady(t)
            \/ TakeWaited(t) \/ Take(t) \/ Return(t) \/ CancelTake(t) \/ CancelComplete(t)
            \/ Lose(t) \/ Abort(t))
      BY <1>2 DEF Register, Insert, Poll, Complete, Finish, TakeReady, TakeWaited, Take, Return,
                  CancelTake, CancelComplete, Lose, Abort
    <2>. QED
      BY <2>2, <2>5, <2>6 DEF Step
  <1>4. PICK j \in Top(t).todo : IsNext(Top(t), j) /\ \E how : log' = Append(log, [id |-> j, how |-> how])
    BY <1>3 DEF Fire
  <1>5. PICK how : log' = Append(log, [id |-> j, how |-> how])
    BY <1>4
  <1>6. log' = Append(log, [id |-> id, how |-> Top(t).op])
    BY DEF Delivers
  <1>7. log'[Len(log) + 1] = [id |-> j, how |-> how]
        /\ log'[Len(log) + 1] = [id |-> id, how |-> Top(t).op]
    BY <1>1, <1>5, <1>6
  <1>8. j = id
    <2>1. [id |-> j, how |-> how].id = [id |-> id, how |-> Top(t).op].id
      BY <1>7
    <2>. QED
      BY <2>1
  <1>. QED
    BY <1>4, <1>8

\* When one thread makes the calls, ProcessEvents and the registrations deliver the
\* callbacks of a queue and mode in the order of their registration, whatever those
\* callbacks call: an earlier one that has not been called is in the hands of an outer
\* call, whose turn has not come back.
THEOREM NoneOvertaken ==
  ASSUME OneThread
  PROVE  Spec => CallbackOrder
  <1>1. ASSUME IInv, OrderInv, Next, NEW t \in Threads, NEW i \in DOMAIN callback,
               NEW id \in DOMAIN callback, Delivers(t, id), Before(i, id)
        PROVE  i \in Settled \cup CollectedOutside(t)
    <2>1. DataType /\ CarryInv /\ FrameOrder /\ NestInv /\ StackType
      BY <1>1, InParts DEF OrderInv
    <2>2. PICK n, f : Open(t, n, f) /\ f.at = "fire"
      BY <1>1, TopOpen DEF Delivers
    <2>3. f = Top(t) /\ n = Len(stack[t]) /\ f.op \in {"process", "register"}
          /\ DOMAIN stack[t] = 1 .. n /\ n \in Nat \ {0}
      BY <1>1, <2>1, <2>2, TopFacts DEF Open, Delivers
    <2>4. id \in f.todo /\ IsNext(f, id)
      BY <1>1, <2>3, DeliversNext
    <2>5. i \notin pending
      <3>1. InOrder(f)
        BY <2>1, <2>2 DEF FrameOrder, Open
      <3>. QED
        BY <1>1, <2>2, <2>3, <2>4, <3>1 DEF InOrder, Clears, Delivering
    <2>6. i \notin f.todo
      <3>1. \A j \in f.todo : id <= j
        BY <2>3, <2>4 DEF IsNext
      <3>2. i < id /\ i \in Nat /\ id \in Nat
        BY <1>1, <2>1 DEF Before, DataType
      <3>. QED
        BY <3>1, <3>2
    <2>7. CASE \E u \in Threads : \E l \in DOMAIN stack[u] : i \in Holds(u, l)
      <3>1. PICK l \in DOMAIN stack[t] : i \in Holds(t, l)
        BY <2>7 DEF OneThread
      <3>2. l # n
        BY <2>2, <2>6, <3>1 DEF Holds, Carries, Open
      <3>3. Waiting(stack[t][l])
        BY <1>1, <2>1, <2>2, <3>2, OnTop DEF Open
      <3>4. i \in stack[t][l].todo /\ l \in 1 .. Len(stack[t]) - 1
        BY <2>3, <3>1, <3>2, <3>3 DEF Holds, Carries, Waiting
      <3>. QED
        BY <3>4 DEF CollectedOutside
    <2>. QED
      BY <1>1, <2>1, <2>5, <2>7 DEF CarryInv
  <1>2. OrderInv /\ IInv /\ [Next]_vars => OrderInv'
    BY NextOrder
  <1>3. OrderInv /\ IInv /\ [Next]_vars =>
          [\A t \in Threads, i, id \in DOMAIN callback :
             Delivers(t, id) /\ Before(i, id) => i \in Settled \cup CollectedOutside(t)]_vars
    BY <1>1
  <1>. QED
    BY CallbackInvariance, InitOrder, <1>2, <1>3, PTL DEF Spec, CallbackOrder

-----------------------------------------------------------------------------
(* The promises of Futures                                                 *)

\* What a step is for the instance's promises.
Same == /\ DOMAIN callback' = DOMAIN callback /\ log' = log
        /\ futures' \ complete' = futures \ complete
Idles     == Same /\ (use_refs' > 0 <=> use_refs > 0)
EndsUse   == Same /\ use_refs > 0 /\ ~(use_refs' > 0)
Starts(i) ==
  /\ i \notin DOMAIN callback /\ DOMAIN callback' = DOMAIN callback \cup {i}
  /\ futures' \ complete' = (futures \ complete) \cup {i}
  /\ log' = log /\ (use_refs' > 0 <=> use_refs > 0)
Resolves(i) ==
  /\ i \in futures \ complete
  /\ futures' \ complete' = (futures \ complete) \ {i}
  /\ DOMAIN callback' = DOMAIN callback /\ log' = log /\ (use_refs' > 0 <=> use_refs > 0)
SettlesAs(i, how) ==
  /\ i \in DOMAIN callback \ Settled /\ i \notin futures \ complete
  /\ how \in Calls \cup {"cancel"} /\ (how = "cancel" => ~(use_refs > 0))
  /\ log' = Append(log, [id |-> i, how |-> how])
  /\ DOMAIN callback' = DOMAIN callback /\ futures' \ complete' = futures \ complete
  /\ (use_refs' > 0 <=> use_refs > 0)

Outcome ==
  \/ Idles \/ EndsUse
  \/ \E i \in Nat : Starts(i)
  \/ \E i \in Nat : Resolves(i)
  \/ \E i \in Nat : \E how : SettlesAs(i, how)

LEMMA QuietOutcome ==
  ASSUME IInv, NEW t \in Threads,
         \/ BeginRegister(t) \/ BeginProcess(t) \/ BeginWait(t) \/ BeginLose(t) \/ Release(t)
         \/ Insert(t) \/ Poll(t) \/ Lose(t) \/ Abort(t) \/ TakeReady(t) \/ TakeWaited(t)
         \/ Take(t) \/ Return(t) \/ CancelTake(t)
  PROVE  Outcome
  <1>1. CASE BeginRegister(t) \/ BeginProcess(t) \/ BeginWait(t) \/ BeginLose(t) \/ Insert(t)
               \/ Lose(t) \/ Take(t) \/ Return(t) \/ CancelTake(t)
    <2>1. UNCHANGED <<callback, futures, complete, use_refs, log>>
      BY <1>1 DEF BeginRegister, BeginProcess, BeginWait, BeginLose, Insert, Lose, Take, Return,
                  CancelTake
    <2>. QED
      BY <2>1 DEF Outcome, Idles, Same
  <1>2. CASE Poll(t) \/ Abort(t)
    <2>1. UNCHANGED <<futures, complete, use_refs, log>> /\ DOMAIN callback' = DOMAIN callback
      BY <1>2 DEF Poll, Abort
    <2>. QED
      BY <2>1 DEF Outcome, Idles, Same
  <1>3. CASE TakeReady(t)
    <2>1. /\ futures' = futures \ Processable /\ complete' = complete \ Processable
          /\ UNCHANGED <<callback, use_refs, log>>
      BY <1>3 DEF TakeReady
    <2>2. Processable \subseteq complete
      BY DEF Processable
    <2>. QED
      BY <2>1, <2>2 DEF Outcome, Idles, Same
  <1>4. CASE TakeWaited(t)
    <2>1. PICK R : R = complete \cap Top(t).list
      OBVIOUS
    <2>2. /\ futures' = futures \ R /\ complete' = complete \ R
          /\ UNCHANGED <<callback, use_refs, log>>
      BY <1>4, <2>1 DEF TakeWaited
    <2>. QED
      BY <2>1, <2>2 DEF Outcome, Idles, Same
  <1>5. CASE Release(t)
    <2>1. Same
      BY <1>5 DEF Release, Same
    <2>2. use_refs' > 0 => use_refs > 0
      BY <1>5, NextInv, InParts DEF Next, Onward, DataType
    <2>. QED
      BY <2>1, <2>2 DEF Outcome, Idles, EndsUse
  <1>. QED
    BY <1>1, <1>2, <1>3, <1>4, <1>5

LEMMA RegistryOutcome ==
  ASSUME IInv, NEW t \in Threads,
         Register(t) \/ Complete(t) \/ CancelComplete(t) \/ Finish(t)
  PROVE  Outcome
  <1>1. DataType
    BY InParts
  <1>2. CASE Register(t)
    <2>1. PICK id : id = Len(callback) + 1
      OBVIOUS
    <2>2. /\ callback' = Append(callback, Top(t).want) /\ futures' = futures \cup {id}
          /\ UNCHANGED <<complete, use_refs, log>>
      BY <1>2, <2>1 DEF Register
    <2>3. /\ id \in Nat /\ id \notin DOMAIN callback
          /\ DOMAIN callback' = DOMAIN callback \cup {id}
      BY <1>1, <2>1, <2>2 DEF DataType
    <2>4. Starts(id)
      BY <1>1, <2>2, <2>3 DEF Starts, DataType
    <2>. QED
      BY <2>3, <2>4 DEF Outcome
  <1>3. ASSUME NEW id,
               complete' = complete \cup ({id} \cap futures),
               UNCHANGED <<callback, futures, use_refs, log>>
        PROVE  Outcome
    <2>1. CASE id \in futures \ complete
      <3>1. Resolves(id) /\ id \in Nat
        BY <1>1, <1>3, <2>1 DEF Resolves, DataType
      <3>. QED
        BY <3>1 DEF Outcome
    <2>2. CASE id \notin futures \ complete
      BY <1>3, <2>2 DEF Outcome, Idles, Same
    <2>. QED
      BY <2>1, <2>2
  <1>4. CASE Complete(t)
    BY <1>3, <1>4 DEF Complete
  <1>5. CASE CancelComplete(t)
    BY <1>3, <1>5 DEF CancelComplete
  <1>6. CASE Finish(t)
    <2>1. PICK own : own = Top(t).id
      OBVIOUS
    <2>2. PICK marked : marked = IF Top(t).want.kind \in Gated THEN complete
                                 ELSE complete \cup ({own} \cap futures)
      OBVIOUS
    <2>3. PICK R :
            R = IF /\ own \in pending /\ callback[own].mode = "spontaneous"
                   /\ Ready(own, marked)
                THEN {own} \cup {i \in {i \in pending : i < own /\ callback[i].mode = "spontaneous"} :
                                   Ready(i, marked)}
                ELSE {}
      OBVIOUS
    <2>4. /\ complete' = marked \ R /\ futures' = futures \ R
          /\ UNCHANGED <<callback, use_refs, log>>
      BY <1>6, <2>1, <2>2, <2>3 DEF Finish
    <2>5. \A i \in R : i \notin futures \/ i \in marked
      BY <2>3 DEF Ready
    <2>6. futures' \ complete' = futures \ marked
      BY <2>4, <2>5
    <2>7. CASE own \in futures \ complete /\ own \in marked
      <3>1. futures \ marked = (futures \ complete) \ {own}
        BY <2>2, <2>7
      <3>2. Resolves(own) /\ own \in Nat
        BY <1>1, <2>4, <2>6, <2>7, <3>1 DEF Resolves, DataType
      <3>. QED
        BY <3>2 DEF Outcome
    <2>8. CASE ~(own \in futures \ complete /\ own \in marked)
      <3>1. futures \ marked = futures \ complete
        BY <2>2, <2>8
      <3>. QED
        BY <2>4, <2>6, <3>1 DEF Outcome, Idles, Same
    <2>. QED
      BY <2>7, <2>8
  <1>. QED
    BY <1>2, <1>4, <1>5, <1>6

LEMMA SettleOutcome ==
  ASSUME IInv, NEW t \in Threads, Fire(t) \/ Cancel(t)
  PROVE  Outcome
  <1>1. DataType /\ CarryInv
    BY InParts
  <1>2. CASE Fire(t)
    <2>1. PICK n, f : Open(t, n, f) /\ f.at = "fire"
      BY <1>2, TopOpen DEF Fire
    <2>2. PICK id \in f.todo :
            LET refused == callback[id].kind = "request" /\ use_refs = 0
            IN  /\ log' = Append(log, [id |-> id, how |-> IF refused THEN "cancel" ELSE f.op])
                /\ use_refs' = IF callback[id].kind = "request" /\ ~refused
                               THEN use_refs + 1 ELSE use_refs
      BY <1>2, <2>1 DEF Fire, Open
    <2>3. PICK how :
            how = IF callback[id].kind = "request" /\ use_refs = 0 THEN "cancel" ELSE f.op
      OBVIOUS
    <2>4. log' = Append(log, [id |-> id, how |-> how])
      BY <2>2, <2>3
    <2>5. how \in Calls \cup {"cancel"} /\ (how = "cancel" => ~(use_refs > 0))
      BY <2>1, <2>3 DEF Open, Calls
    <2>6. use_refs' > 0 <=> use_refs > 0
      BY <1>1, <2>2 DEF DataType
    <2>7. id \in DOMAIN callback /\ id \notin futures /\ id \in Nat
      BY <2>1 DEF Open, Sound, Delivering
    <2>8. id \notin Settled
      BY <1>1, <2>1 DEF CarryInv, Holds, Carries, Open
    <2>9. DOMAIN callback' = DOMAIN callback /\ UNCHANGED <<futures, complete>>
      BY <1>2 DEF Fire
    <2>10. SettlesAs(id, how)
      BY <2>4, <2>5, <2>6, <2>7, <2>8, <2>9 DEF SettlesAs
    <2>. QED
      BY <2>7, <2>10 DEF Outcome
  <1>3. CASE Cancel(t)
    <2>1. PICK n, f : Open(t, n, f) /\ f.at = "cancel"
      BY <1>3, TopOpen DEF Cancel
    <2>2. PICK id \in f.todo :
            IsNext(f, id) /\ log' = Append(log, [id |-> id, how |-> "cancel"])
      BY <1>3, <2>1 DEF Cancel, Open
    <2>3. /\ id \in DOMAIN callback /\ id \notin futures \ complete /\ id \in Nat
          /\ use_refs = 0
      BY <2>1, <2>2 DEF Open, Sound, Cancelling, IsNext
    <2>4. id \notin Settled
      BY <1>1, <2>1 DEF CarryInv, Holds, Carries, Open
    <2>5. UNCHANGED <<callback, futures, complete, use_refs>>
      BY <1>3 DEF Cancel
    <2>6. SettlesAs(id, "cancel")
      BY <2>2, <2>3, <2>4, <2>5 DEF SettlesAs
    <2>. QED
      BY <2>3, <2>6 DEF Outcome
  <1>. QED
    BY <1>2, <1>3

LEMMA NextOutcome ==
  ASSUME IInv, [Next]_vars
  PROVE  Outcome
  <1>1. CASE AddRef \/ Submit \/ GpuComplete \/ Finished \/ UNCHANGED vars
    <2>1. UNCHANGED <<callback, futures, complete, log>>
      BY <1>1 DEF AddRef, Submit, GpuComplete, Finished, vars
    <2>2. use_refs' > 0 <=> use_refs > 0
      BY <1>1, InParts DEF AddRef, Submit, GpuComplete, Finished, vars, DataType
    <2>. QED
      BY <2>1, <2>2 DEF Outcome, Idles, Same
  <1>2. ASSUME NEW t \in Threads,
               \/ BeginRegister(t) \/ BeginProcess(t) \/ BeginWait(t) \/ Release(t)
               \/ BeginLose(t)
        PROVE  Outcome
    BY <1>2, QuietOutcome
  <1>3. ASSUME NEW t \in Threads, Step(t)
        PROVE  Outcome
    <2>1. CASE \/ Insert(t) \/ Poll(t) \/ Lose(t) \/ Abort(t) \/ TakeReady(t)
               \/ TakeWaited(t) \/ Take(t) \/ Return(t) \/ CancelTake(t)
      BY <2>1, QuietOutcome
    <2>2. CASE Register(t) \/ Complete(t) \/ Finish(t) \/ CancelComplete(t)
      BY <2>2, RegistryOutcome
    <2>3. CASE Fire(t) \/ Cancel(t)
      BY <2>3, SettleOutcome
    <2>. QED
      BY <1>3, <2>1, <2>2, <2>3 DEF Step
  <1>. QED
    BY <1>1, <1>2, <1>3 DEF Next

\* Whether a future's callback was cancelled.
Cancelled(i) == \E k \in DOMAIN log : log[k] = [id |-> i, how |-> "cancel"]

LEMMA StatusIs ==
  ASSUME NEW i
  PROVE  /\ Status(i) = IF i \notin DOMAIN callback THEN "none"
                        ELSE IF Cancelled(i) THEN "cancelled"
                        ELSE IF i \in Settled THEN "delivered"
                        ELSE IF i \in futures \ complete THEN "pending" ELSE "ready"
         /\ Cancelled(i) => i \in Settled
  BY DEF Status, Cancelled, Settled

LEMMA StatusSame ==
  ASSUME NEW i, i \in DOMAIN callback' <=> i \in DOMAIN callback,
         Cancelled(i)' <=> Cancelled(i), i \in Settled' <=> i \in Settled,
         i \in futures' \ complete' <=> i \in futures \ complete
  PROVE  Status(i)' = Status(i)
  <1>1. Status(i)' = IF i \notin DOMAIN callback' THEN "none"
                     ELSE IF Cancelled(i)' THEN "cancelled"
                     ELSE IF i \in Settled' THEN "delivered"
                     ELSE IF i \in futures' \ complete' THEN "pending" ELSE "ready"
    BY DEF Status, Cancelled, Settled
  <1>. QED
    BY <1>1, StatusIs

\* One future's status changes; none does.
Moves(i, from, to) ==
  /\ Status(i) = from /\ Status(i)' = to
  /\ \A j \in 1 .. MaxFutures : j # i => Status(j)' = Status(j)
  /\ (use_refs' > 0 <=> use_refs > 0)
Stays == /\ \A j \in 1 .. MaxFutures : Status(j)' = Status(j)
         /\ (use_refs' > 0 <=> use_refs > 0)

FutureStep == [Promise!FutureNext]_(Promise!future_vars)

LEMMA MoveMaps ==
  ASSUME NEW i \in 1 .. MaxFutures, NEW from, NEW to, Moves(i, from, to)
  PROVE  Promise!Change(i, from, to)
  <1>1. [j \in 1 .. MaxFutures |-> Status(j)]' = [j \in 1 .. MaxFutures |-> Status(j)']
    OBVIOUS
  <1>2. [j \in 1 .. MaxFutures |-> Status(j)']
          = [[j \in 1 .. MaxFutures |-> Status(j)] EXCEPT ![i] = to]
    BY DEF Moves
  <1>3. [j \in 1 .. MaxFutures |-> Status(j)][i] = from
    BY DEF Moves
  <1>4. (use_refs > 0)' = (use_refs > 0)
    BY DEF Moves
  <1>. QED
    BY <1>1, <1>2, <1>3, <1>4 DEF Promise!Change

LEMMA StayMaps ==
  ASSUME Stays
  PROVE  FutureStep
  <1>1. [j \in 1 .. MaxFutures |-> Status(j)]' = [j \in 1 .. MaxFutures |-> Status(j)']
    OBVIOUS
  <1>2. [j \in 1 .. MaxFutures |-> Status(j)'] = [j \in 1 .. MaxFutures |-> Status(j)]
    BY DEF Stays
  <1>3. (use_refs > 0)' = (use_refs > 0)
    BY DEF Stays
  <1>. QED
    BY <1>1, <1>2, <1>3 DEF FutureStep, Promise!future_vars

\* An id beyond the bound on futures is not one of the promised ones.
LEMMA MovesOrStays ==
  ASSUME NEW i, NEW from, NEW to, Moves(i, from, to), i \notin 1 .. MaxFutures
  PROVE  Stays
  BY DEF Moves, Stays

LEMMA SameLog ==
  ASSUME log' = log
  PROVE  \A j : (Cancelled(j)' <=> Cancelled(j)) /\ (j \in Settled' <=> j \in Settled)
  BY DEF Cancelled, Settled

LEMMA IdlesMaps ==
  ASSUME Idles
  PROVE  FutureStep
  <1>1. \A j : Status(j)' = Status(j)
    BY SameLog, StatusSame DEF Idles, Same
  <1>. QED
    BY <1>1, StayMaps DEF Idles, Stays

LEMMA EndsMaps ==
  ASSUME EndsUse
  PROVE  FutureStep
  <1>1. \A j : Status(j)' = Status(j)
    BY SameLog, StatusSame DEF EndsUse, Same
  <1>2. [j \in 1 .. MaxFutures |-> Status(j)]' = [j \in 1 .. MaxFutures |-> Status(j)']
    OBVIOUS
  <1>3. [j \in 1 .. MaxFutures |-> Status(j)'] = [j \in 1 .. MaxFutures |-> Status(j)]
    BY <1>1
  <1>4. use_refs > 0 /\ (use_refs > 0)' = FALSE
    BY DEF EndsUse
  <1>5. Promise!EndOfUse
    BY <1>2, <1>3, <1>4 DEF Promise!EndOfUse
  <1>. QED
    BY <1>5 DEF FutureStep, Promise!FutureNext

LEMMA StartsMaps ==
  ASSUME DataType, NEW i \in Nat, Starts(i)
  PROVE  FutureStep
  <1>1. Moves(i, "none", "pending")
    <2>1. ASSUME NEW j, j # i PROVE Status(j)' = Status(j)
      BY <2>1, SameLog, StatusSame DEF Starts
    <2>2. Status(i) = "none"
      BY StatusIs DEF Starts
    <2>3. i \in DOMAIN callback' /\ i \in futures' \ complete'
      BY DEF Starts
    <2>4. i \notin Settled' /\ ~Cancelled(i)'
      BY SameLog, StatusIs DEF Starts, DataType
    <2>5. Status(i)' = "pending"
      BY <2>3, <2>4 DEF Status, Cancelled, Settled
    <2>. QED
      BY <2>1, <2>2, <2>5 DEF Moves, Starts
  <1>2. CASE i \in 1 .. MaxFutures
    BY <1>1, <1>2, MoveMaps DEF FutureStep, Promise!FutureNext, Promise!Start
  <1>. QED
    BY <1>1, <1>2, MovesOrStays, StayMaps

LEMMA ResolvesMaps ==
  ASSUME DataType, SeenInv, NEW i \in Nat, Resolves(i)
  PROVE  FutureStep
  <1>1. Moves(i, "pending", "ready")
    <2>1. ASSUME NEW j, j # i PROVE Status(j)' = Status(j)
      BY <2>1, SameLog, StatusSame DEF Resolves
    <2>2. i \in DOMAIN callback /\ i \in futures \ complete /\ i \notin Settled
      BY DEF Resolves, DataType, SeenInv
    <2>3. Status(i) = "pending"
      BY <2>2, StatusIs
    <2>4. /\ i \in DOMAIN callback' /\ i \notin futures' \ complete'
          /\ i \notin Settled' /\ ~Cancelled(i)'
      BY <2>2, SameLog, StatusIs DEF Resolves
    <2>5. Status(i)' = "ready"
      BY <2>4 DEF Status, Cancelled, Settled
    <2>. QED
      BY <2>1, <2>3, <2>5 DEF Moves, Resolves
  <1>2. CASE i \in 1 .. MaxFutures
    BY <1>1, <1>2, MoveMaps DEF FutureStep, Promise!FutureNext, Promise!Resolve
  <1>. QED
    BY <1>1, <1>2, MovesOrStays, StayMaps

LEMMA SettlesMaps ==
  ASSUME DataType, DeliveredOnce, NEW i \in Nat, NEW how, SettlesAs(i, how)
  PROVE  FutureStep
  <1>1. /\ Settled' = Settled \cup {i}
        /\ \A k \in DOMAIN log : k \in DOMAIN log' /\ log'[k] = log[k]
        /\ \A k \in DOMAIN log' : \/ k \in DOMAIN log /\ log'[k] = log[k]
                                  \/ log'[k] = [id |-> i, how |-> how]
        /\ \E k \in DOMAIN log' : log'[k] = [id |-> i, how |-> how]
    BY LogGrows DEF SettlesAs
  <1>2. ASSUME NEW j, j # i PROVE Status(j)' = Status(j)
    <2>1. Cancelled(j)' <=> Cancelled(j)
      BY <1>1, <1>2 DEF Cancelled
    <2>. QED
      BY <1>1, <1>2, <2>1, StatusSame DEF SettlesAs
  <1>3. Status(i) = "ready"
    BY StatusIs DEF SettlesAs
  <1>4. i \in DOMAIN callback' /\ i \in Settled'
    BY <1>1 DEF SettlesAs
  <1>5. CASE how = "cancel"
    <2>1. Cancelled(i)'
      BY <1>1, <1>5 DEF Cancelled
    <2>2. Status(i)' = "cancelled"
      BY <1>4, <2>1 DEF Status, Cancelled
    <2>3. Moves(i, "ready", "cancelled") /\ ~(use_refs > 0)
      BY <1>2, <1>3, <1>5, <2>2 DEF Moves, SettlesAs
    <2>4. CASE i \in 1 .. MaxFutures
      BY <2>3, <2>4, MoveMaps DEF FutureStep, Promise!FutureNext, Promise!Cancel
    <2>. QED
      BY <2>3, <2>4, MovesOrStays, StayMaps
  <1>6. CASE how # "cancel"
    <2>1. ~Cancelled(i)'
      <3>1. \A k \in DOMAIN log : log[k].id # i
        BY DEF SettlesAs, Settled
      <3>2. \A k \in DOMAIN log' : log'[k] # [id |-> i, how |-> "cancel"]
        BY <1>1, <1>6, <3>1
      <3>. QED
        BY <3>2 DEF Cancelled
    <2>2. Status(i)' = "delivered"
      BY <1>4, <2>1 DEF Status, Cancelled, Settled
    <2>3. Moves(i, "ready", "delivered")
      BY <1>2, <1>3, <2>2 DEF Moves, SettlesAs
    <2>4. CASE i \in 1 .. MaxFutures
      BY <2>3, <2>4, MoveMaps DEF FutureStep, Promise!FutureNext, Promise!Deliver
    <2>. QED
      BY <2>3, <2>4, MovesOrStays, StayMaps
  <1>. QED
    BY <1>5, <1>6

\* The registry, the map and all their races implement Futures: a future is resolved
\* before its callback is called, called once, and cancelled only when the instance
\* is not in use.
THEOREM PromisesKept == Spec => ImplementsFutures
  <1>1. Init => Promise!FutureInit
    <2>1. SUFFICES ASSUME Init PROVE Promise!FutureInit
      OBVIOUS
    <2>2. use_refs > 0 /\ DOMAIN callback = {}
      BY <2>1 DEF Init
    <2>3. \A i : Status(i) = "none"
      BY <2>2, StatusIs
    <2>4. [i \in 1 .. MaxFutures |-> Status(i)] = [i \in 1 .. MaxFutures |-> "none"]
      BY <2>3
    <2>5. (use_refs > 0) = TRUE
      BY <2>2
    <2>. QED
      BY <2>4, <2>5 DEF Promise!FutureInit
  <1>2. IInv /\ [Next]_vars => FutureStep
    <2>1. SUFFICES ASSUME IInv, [Next]_vars PROVE FutureStep
      OBVIOUS
    <2>2. DataType /\ SeenInv /\ DeliveredOnce
      BY <2>1, InParts DEF CarryInv
    <2>3. Outcome
      BY <2>1, NextOutcome
    <2>4. CASE Idles \/ EndsUse
      BY <2>4, IdlesMaps, EndsMaps
    <2>5. CASE \E i \in Nat : Starts(i)
      BY <2>2, <2>5, StartsMaps
    <2>6. CASE \E i \in Nat : Resolves(i)
      BY <2>2, <2>6, ResolvesMaps
    <2>7. CASE \E i \in Nat : \E how : SettlesAs(i, how)
      BY <2>2, <2>7, SettlesMaps
    <2>. QED
      BY <2>3, <2>4, <2>5, <2>6, <2>7 DEF Outcome
  <1>. QED
    BY <1>1, <1>2, CallbackInvariance, PTL DEF Spec, ImplementsFutures, Promise!FutureSafety, FutureStep
=============================================================================
