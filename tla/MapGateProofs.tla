--------------------------- MODULE MapGateProofs ---------------------------
(***************************************************************************)
(* The inductive invariant of MapGate, layer by layer, and from it: the    *)
(* map state of a buffer is consistent, and while it is mapped no work     *)
(* that uses it is on its way to the GPU or running there.  Then two more  *)
(* invariants over it: the books of the map requests (what a callback      *)
(* reports is what happened, and only a request itself ends it), and where *)
(* the newest write is (a mapping shows it).                               *)
(***************************************************************************)
EXTENDS MapGate, TLAPS


\* What a step of Poll leaves alone.
PollFrame ==
  UNCHANGED <<fixed_vars, life_vars, data_vars, queue_vars, gpu_vars, call,
              history_vars, error_vars>>

Outcomes == {"none", "success", "error", "aborted", "cancelled"}

\* Every step is a step of one of these actions.
LEMMA StepCases ==
  ASSUME [Next]_vars
  PROVE
    \/ \E t \in Threads : Unmap(t)
    \/ \E t \in Threads : Destroy(t)
    \/ \E t \in Threads : Release(t)
    \/ \E t \in Threads : MappedRange(t)
    \/ \E t \in Threads : WriteMapped(t)
    \/ \E t \in Threads : BeginWrite(t)
    \/ \E t \in Threads : BeginQueueCall(t)
    \/ \E t \in Threads : Lose(t)
    \/ \E t \in Threads : BeginMapAsync(t)
    \/ \E t \in Threads : Take(t)
    \/ \E t \in Threads : FreeHost(t)
    \/ \E t \in Threads : Enter(t)
    \/ \E t \in Threads : Stage(t)
    \/ \E t \in Threads : Lower(t)
    \/ \E t \in Threads : HalSubmit(t)
    \/ \E t \in Threads : Record(t)
    \/ \E t \in Threads : BeginMap(t)
    \/ \E t \in Threads : Abort(t)
    \/ \E t \in Threads : Gate(t)
    \/ \E t \in Threads : Register(t)
    \/ \E t \in Threads : Fire(t)
    \/ \E t \in Threads : ResolveTest(t)
    \/ \E t \in Threads : ResolveMap(t)
    \/ \E r \in DOMAIN requests : PollLost(r) /\ PollFrame
    \/ \E r \in DOMAIN requests : PollPassed(r) /\ PollFrame
    \/ \E r \in DOMAIN requests : PollFails(r) /\ PollFrame
    \/ \E r \in DOMAIN requests : Cancel(r) /\ PollFrame
    \/ Complete
    \/ EndOfUse
    \/ UNCHANGED vars
  BY DEF Next, Step, Call, Poll, Finished, PollFrame

\* The labels and operations of a call, one by one.
LEMMA LabelFacts ==
  /\ "idle" \in Labels /\ "free_host" \in Labels /\ "begin_map" \in Labels
  /\ "enter" \in Labels /\ "stage" \in Labels /\ "lower" \in Labels
  /\ "hal_submit" \in Labels /\ "record" \in Labels /\ "abort" \in Labels
  /\ "gate" \in Labels /\ "register" \in Labels /\ "fire" \in Labels
  /\ "resolve" \in Labels /\ "map" \in Labels
  /\ "none" \in Ops /\ "map" \in Ops /\ "unmap" \in Ops /\ "write" \in Ops
  /\ "submit" \in Ops /\ "flush" \in Ops /\ "fire" \in Ops
  BY DEF Labels, Ops

LEMMA AppendFacts ==
  ASSUME NEW S, NEW s \in Seq(S), NEW e \in S
  PROVE  /\ Append(s, e) \in Seq(S) /\ Len(Append(s, e)) = Len(s) + 1
         /\ DOMAIN s = 1 .. Len(s) /\ DOMAIN Append(s, e) = 1 .. (Len(s) + 1)
         /\ Len(s) \in Nat
         /\ \A i \in 1 .. Len(s) : Append(s, e)[i] = s[i]
         /\ Append(s, e)[Len(s) + 1] = e
  OBVIOUS

LEMMA ExceptFacts ==
  ASSUME NEW S, NEW s \in Seq(S), NEW e \in S, NEW i \in DOMAIN s
  PROVE  /\ [s EXCEPT ![i] = e] \in Seq(S)
         /\ DOMAIN [s EXCEPT ![i] = e] = DOMAIN s
  OBVIOUS

\* Shape, as the provers use it.
LEMMA ShapeFacts ==
  ASSUME Shape
  PROVE  /\ DOMAIN requests = 1 .. Len(requests) /\ Len(requests) \in Nat
         /\ DOMAIN gpu = 1 .. Len(gpu) /\ Len(gpu) \in Nat
         /\ \A r \in DOMAIN requests : requests[r] \in RequestSet
         /\ \A r \in DOMAIN gpu : gpu[r] \in Works
         /\ \A t \in Threads : call[t] \in Calls
  BY DEF Shape

LEMMA EndedTyped ==
  ASSUME NEW s \in Nat, NEW o \in Outcomes
  PROVE  Ended(s, o) \in RequestSet
  BY DEF Ended, RequestSet, Outcomes

LEMMA OutcomeTyped ==
  ASSUME Shape, FireInv, NEW t \in Threads, Fires(t)
  PROVE  /\ Mine(t).status \in Outcomes
         /\ \A o \in Outcomes : Outcome(Mine(t), o) \in Outcomes
  <1>1. Mine(t) \in RequestSet
    BY ShapeFacts DEF FireInv, Mine
  <1>2. QED
    BY <1>1 DEF RequestSet, Outcomes, Outcome

LEMMA CallNext ==
  ASSUME Shape, FireInv, [Next]_vars
  PROVE  call' \in [Threads -> Calls]
  <1>0. call \in [Threads -> Calls] /\ latest \in Nat /\ gpu \in Seq(Works) /\ next_map_serial \in Nat
    BY DEF Shape
  <1>01. Idle \in Calls
    BY LabelFacts DEF Idle, Calls
  <1>1. ASSUME NEW t \in Threads, Unmap(t) PROVE call' \in [Threads -> Calls]
    <2>1. \/ call' = call
          \/ call' = [call EXCEPT ![t].at = "free_host", ![t].op = "unmap"]
      BY <1>1, LabelFacts DEF Unmap, UnmapCall, Begin
    <2>2. CASE call' = call
      BY <2>2, <1>0, <1>01, LabelFacts DEF Calls
    <2>3. CASE call' = [call EXCEPT ![t].at = "free_host", ![t].op = "unmap"]
      BY <2>3, <1>0, <1>01, LabelFacts DEF Calls
    <2>4. QED
      BY <2>1, <2>2, <2>3
  <1>2. ASSUME NEW t \in Threads, Destroy(t) PROVE call' \in [Threads -> Calls]
    BY <1>2, <1>0, <1>01, LabelFacts
      DEF Destroy, ClearMap, EndPending, Calls
  <1>3. ASSUME NEW t \in Threads, Release(t) PROVE call' \in [Threads -> Calls]
    BY <1>3, <1>0, <1>01, LabelFacts
      DEF Release, ClearMap, EndPending, Calls
  <1>4. ASSUME NEW t \in Threads, MappedRange(t) PROVE call' \in [Threads -> Calls]
    BY <1>4, <1>0, <1>01, LabelFacts
      DEF MappedRange, Calls
  <1>5. ASSUME NEW t \in Threads, WriteMapped(t) PROVE call' \in [Threads -> Calls]
    BY <1>5, <1>0, <1>01, LabelFacts
      DEF WriteMapped, Calls
  <1>6. ASSUME NEW t \in Threads, BeginWrite(t) PROVE call' \in [Threads -> Calls]
    BY <1>6, <1>0, <1>01, LabelFacts
      DEF BeginWrite, Begin, Calls
  <1>7. ASSUME NEW t \in Threads, BeginQueueCall(t) PROVE call' \in [Threads -> Calls]
    <2>1. \/ call' = [call EXCEPT ![t].at = "enter", ![t].op = "submit"]
          \/ call' = [call EXCEPT ![t].at = "enter", ![t].op = "flush"]
      BY <1>7, LabelFacts DEF BeginQueueCall, Begin
    <2>2. CASE call' = [call EXCEPT ![t].at = "enter", ![t].op = "submit"]
      BY <2>2, <1>0, <1>01, LabelFacts DEF Calls
    <2>3. CASE call' = [call EXCEPT ![t].at = "enter", ![t].op = "flush"]
      BY <2>3, <1>0, <1>01, LabelFacts DEF Calls
    <2>4. QED
      BY <2>1, <2>2, <2>3
  <1>8. ASSUME NEW t \in Threads, Lose(t) PROVE call' \in [Threads -> Calls]
    BY <1>8, <1>0, <1>01, LabelFacts
      DEF Lose, Calls
  <1>9. ASSUME NEW t \in Threads, BeginMapAsync(t) PROVE call' \in [Threads -> Calls]
    BY <1>9, <1>0, <1>01, LabelFacts
      DEF BeginMapAsync, Begin, Calls
  <1>10. ASSUME NEW t \in Threads, Take(t) PROVE call' \in [Threads -> Calls]
    <2>1. PICK r \in DOMAIN requests :
            call' = [call EXCEPT ![t] =
                       [@ EXCEPT !.at = "fire", !.op = "fire", !.request = r]]
      BY <1>10 DEF Take
    <2>2. r \in Nat
      BY ShapeFacts
    <2>3. [call[t] EXCEPT !.at = "fire", !.op = "fire", !.request = r] \in Calls
      BY <2>2, <1>0, LabelFacts DEF Calls
    <2>4. QED
      BY <2>1, <2>3, <1>0
  <1>11. ASSUME NEW t \in Threads, FreeHost(t) PROVE call' \in [Threads -> Calls]
    BY <1>11, <1>0, <1>01, LabelFacts
      DEF FreeHost, Return, Calls
  <1>12. ASSUME NEW t \in Threads, Enter(t) PROVE call' \in [Threads -> Calls]
    <2>1. \/ call' = [call EXCEPT ![t] = Idle]
          \/ \E l \in Labels : call' = [call EXCEPT ![t].at = l]
      <3>1. ASSUME NEW l \in Labels, Leave(t, l)
            PROVE  \/ call' = [call EXCEPT ![t] = Idle]
                   \/ call' = [call EXCEPT ![t].at = l]
        BY <3>1 DEF Leave, Goto, Return
      <3>2. \/ Leave(t, "gate") \/ Leave(t, "idle") \/ Goto(t, "stage")
            \/ Goto(t, "lower") \/ Goto(t, "hal_submit")
        BY <1>12 DEF Enter, Flush
      <3>3. CASE Leave(t, "gate") \/ Leave(t, "idle")
        BY <3>3, <3>1, LabelFacts
      <3>4. CASE Goto(t, "stage") \/ Goto(t, "lower") \/ Goto(t, "hal_submit")
        BY <3>4, LabelFacts DEF Goto
      <3>5. QED
        BY <3>2, <3>3, <3>4
    <2>2. CASE call' = [call EXCEPT ![t] = Idle]
      BY <2>2, <1>0, <1>01, LabelFacts DEF Calls
    <2>3. ASSUME NEW l \in Labels, call' = [call EXCEPT ![t].at = l] PROVE call' \in [Threads -> Calls]
      BY <2>3, <1>0 DEF Calls
    <2>4. QED
      BY <2>1, <2>2, <2>3
  <1>13. ASSUME NEW t \in Threads, Stage(t) PROVE call' \in [Threads -> Calls]
    <2>1. \/ call' = [call EXCEPT ![t] = Idle]
          \/ \E l \in Labels : call' = [call EXCEPT ![t].at = l]
      BY <1>13, LabelFacts DEF Stage, Leave, Goto, Return
    <2>2. CASE call' = [call EXCEPT ![t] = Idle]
      BY <2>2, <1>0, <1>01, LabelFacts DEF Calls
    <2>3. ASSUME NEW l \in Labels, call' = [call EXCEPT ![t].at = l] PROVE call' \in [Threads -> Calls]
      BY <2>3, <1>0 DEF Calls
    <2>4. QED
      BY <2>1, <2>2, <2>3
  <1>14. ASSUME NEW t \in Threads, Lower(t) PROVE call' \in [Threads -> Calls]
    <2>1. call' = [call EXCEPT ![t].at = "hal_submit"]
      BY <1>14 DEF Lower, Goto
    <2>2. "hal_submit" \in Labels
      BY LabelFacts
    <2>3. QED
      BY <2>1, <2>2, <1>0 DEF Calls
  <1>15. ASSUME NEW t \in Threads, HalSubmit(t) PROVE call' \in [Threads -> Calls]
    <2>1. \/ call' = [call EXCEPT ![t] = Idle]
          \/ \E l \in Labels : call' = [call EXCEPT ![t].at = l]
          \/ call' = [call EXCEPT ![t].at = "record", ![t].index = Len(gpu) + 1]
      BY <1>15, LabelFacts DEF HalSubmit, Leave, Goto, Return
    <2>2. CASE call' = [call EXCEPT ![t] = Idle]
      BY <2>2, <1>0, <1>01, LabelFacts DEF Calls
    <2>3. ASSUME NEW l \in Labels, call' = [call EXCEPT ![t].at = l] PROVE call' \in [Threads -> Calls]
      BY <2>3, <1>0 DEF Calls
    <2>4. CASE call' = [call EXCEPT ![t].at = "record", ![t].index = Len(gpu) + 1]
      <3>1. Len(gpu) + 1 \in Nat
        BY ShapeFacts
      <3>2. QED
        BY <3>1, <2>4, <1>0, LabelFacts DEF Calls
    <2>5. QED
      BY <2>1, <2>2, <2>3, <2>4
  <1>16. ASSUME NEW t \in Threads, Record(t) PROVE call' \in [Threads -> Calls]
    <2>1. \/ call' = [call EXCEPT ![t] = Idle]
          \/ call' = [call EXCEPT ![t].at = "gate"]
      BY <1>16 DEF Record, Leave, Goto, Return
    <2>2. CASE call' = [call EXCEPT ![t] = Idle]
      BY <2>2, <1>0, <1>01, LabelFacts DEF Calls
    <2>3. CASE call' = [call EXCEPT ![t].at = "gate"]
      BY <2>3, <1>0, LabelFacts DEF Calls
    <2>4. QED
      BY <2>1, <2>2, <2>3
  <1>17. ASSUME NEW t \in Threads, BeginMap(t) PROVE call' \in [Threads -> Calls]
    <2>1. \/ call' = [call EXCEPT ![t] = Idle]
          \/ call' = [call EXCEPT ![t].at = "enter", ![t].serial = next_map_serial + 1]
      BY <1>17, LabelFacts DEF BeginMap, Return
    <2>2. CASE call' = [call EXCEPT ![t] = Idle]
      BY <2>2, <1>0, <1>01, LabelFacts DEF Calls
    <2>3. CASE call' = [call EXCEPT ![t].at = "enter", ![t].serial = next_map_serial + 1]
      <3>1. next_map_serial + 1 \in Nat
        BY <1>0
      <3>2. QED
        BY <3>1, <2>3, <1>0, LabelFacts DEF Calls
    <2>4. QED
      BY <2>1, <2>2, <2>3
  <1>18. ASSUME NEW t \in Threads, Abort(t) PROVE call' \in [Threads -> Calls]
    BY <1>18, <1>0, <1>01, LabelFacts
      DEF Abort, CancelPending, ClearMap, Calls
  <1>19. ASSUME NEW t \in Threads, Gate(t) PROVE call' \in [Threads -> Calls]
    BY <1>19, <1>0, <1>01, LabelFacts
      DEF Gate, Calls
  <1>20. ASSUME NEW t \in Threads, Register(t) PROVE call' \in [Threads -> Calls]
    BY <1>20, <1>0, <1>01, LabelFacts
      DEF Register, Return, NewRequest, Ended, CancelPending, ClearMap, Calls
  <1>21. ASSUME NEW t \in Threads, Fire(t) PROVE call' \in [Threads -> Calls]
    <2>1. \/ call' = [call EXCEPT ![t] = Idle]
          \/ call' = [call EXCEPT ![t].at = "resolve"]
      BY <1>21 DEF Fire, Report, Return, Goto
    <2>2. CASE call' = [call EXCEPT ![t] = Idle]
      BY <2>2, <1>0, <1>01, LabelFacts DEF Calls
    <2>3. CASE call' = [call EXCEPT ![t].at = "resolve"]
      BY <2>3, <1>0, LabelFacts DEF Calls
    <2>4. QED
      BY <2>1, <2>2, <2>3
  <1>22. ASSUME NEW t \in Threads, ResolveTest(t) PROVE call' \in [Threads -> Calls]
    <2>1. \/ call' = [call EXCEPT ![t] = Idle]
          \/ call' = [call EXCEPT ![t].at = "map"]
      BY <1>22 DEF ResolveTest, Report, Return, Goto
    <2>2. CASE call' = [call EXCEPT ![t] = Idle]
      BY <2>2, <1>0, <1>01, LabelFacts DEF Calls
    <2>3. CASE call' = [call EXCEPT ![t].at = "map"]
      BY <2>3, <1>0, LabelFacts DEF Calls
    <2>4. QED
      BY <2>1, <2>2, <2>3
  <1>23. ASSUME NEW t \in Threads, ResolveMap(t) PROVE call' \in [Threads -> Calls]
    <2>1. call' = [call EXCEPT ![t] = Idle]
      BY <1>23 DEF ResolveMap, Report, Return, Settle
    <2>2. QED
      BY <2>1, <1>0, <1>01, LabelFacts DEF Calls
  <1>24. ASSUME NEW r \in DOMAIN requests, PollLost(r), PollFrame PROVE call' \in [Threads -> Calls]
    BY <1>24, <1>0, <1>01, LabelFacts
      DEF PollLost, CancelRequest, CancelPending, ClearMap, Calls, PollFrame
  <1>25. ASSUME NEW r \in DOMAIN requests, PollPassed(r), PollFrame PROVE call' \in [Threads -> Calls]
    BY <1>25, <1>0, <1>01, LabelFacts
      DEF PollPassed, Calls, PollFrame
  <1>26. ASSUME NEW r \in DOMAIN requests, PollFails(r), PollFrame PROVE call' \in [Threads -> Calls]
    BY <1>26, <1>0, <1>01, LabelFacts
      DEF PollFails, CancelRequest, CancelPending, ClearMap, Calls, PollFrame
  <1>27. ASSUME NEW r \in DOMAIN requests, Cancel(r), PollFrame PROVE call' \in [Threads -> Calls]
    BY <1>27, <1>0, <1>01, LabelFacts
      DEF Cancel, CancelRequest, CancelPending, ClearMap, Ended, Calls, PollFrame
  <1>28. CASE Complete
    BY <1>28, <1>0, <1>01, LabelFacts
      DEF Complete, Calls
  <1>29. CASE EndOfUse
    BY <1>29, <1>0, <1>01, LabelFacts
      DEF EndOfUse, Calls
  <1>30. CASE UNCHANGED vars
    BY <1>30, <1>0, <1>01, LabelFacts
      DEF vars, Calls
  <1>31. QED
    BY <1>1, <1>2, <1>3, <1>4, <1>5, <1>6, <1>7, <1>8, <1>9, <1>10, <1>11, <1>12, <1>13,
       <1>14, <1>15, <1>16, <1>17, <1>18, <1>19, <1>20, <1>21, <1>22, <1>23, <1>24, <1>25,
       <1>26, <1>27, <1>28, <1>29, <1>30, StepCases

LEMMA RequestsNext ==
  ASSUME Shape, FireInv, [Next]_vars
  PROVE  requests' \in Seq(RequestSet)
  <1>0. requests \in Seq(RequestSet)
    BY DEF Shape
  <1>1. ASSUME NEW t \in Threads, Unmap(t) PROVE requests' \in Seq(RequestSet)
    BY <1>1, <1>0
      DEF Unmap, UnmapCall, ClearMap, FlushHostMap, EndPending, request_vars
  <1>2. ASSUME NEW t \in Threads, Destroy(t) PROVE requests' \in Seq(RequestSet)
    BY <1>2, <1>0
      DEF Destroy, ClearMap, EndPending, request_vars
  <1>3. ASSUME NEW t \in Threads, Release(t) PROVE requests' \in Seq(RequestSet)
    BY <1>3, <1>0
      DEF Release, ClearMap, EndPending, request_vars
  <1>4. ASSUME NEW t \in Threads, MappedRange(t) PROVE requests' \in Seq(RequestSet)
    BY <1>4, <1>0
      DEF MappedRange, request_vars
  <1>5. ASSUME NEW t \in Threads, WriteMapped(t) PROVE requests' \in Seq(RequestSet)
    BY <1>5, <1>0
      DEF WriteMapped, request_vars
  <1>6. ASSUME NEW t \in Threads, BeginWrite(t) PROVE requests' \in Seq(RequestSet)
    BY <1>6, <1>0
      DEF BeginWrite, Begin, request_vars
  <1>7. ASSUME NEW t \in Threads, BeginQueueCall(t) PROVE requests' \in Seq(RequestSet)
    BY <1>7, <1>0
      DEF BeginQueueCall, Begin, request_vars
  <1>8. ASSUME NEW t \in Threads, Lose(t) PROVE requests' \in Seq(RequestSet)
    BY <1>8, <1>0
      DEF Lose, request_vars
  <1>9. ASSUME NEW t \in Threads, BeginMapAsync(t) PROVE requests' \in Seq(RequestSet)
    BY <1>9, <1>0
      DEF BeginMapAsync, Begin, request_vars
  <1>10. ASSUME NEW t \in Threads, Take(t) PROVE requests' \in Seq(RequestSet)
    <2>1. PICK r \in DOMAIN requests : requests' = [requests EXCEPT ![r].phase = "taken"]
      BY <1>10 DEF Take
    <2>2. [requests[r] EXCEPT !.phase = "taken"] \in RequestSet
      BY ShapeFacts DEF RequestSet
    <2>3. QED
      BY <2>1, <2>2, <1>0
  <1>11. ASSUME NEW t \in Threads, FreeHost(t) PROVE requests' \in Seq(RequestSet)
    BY <1>11, <1>0
      DEF FreeHost, Return, request_vars
  <1>12. ASSUME NEW t \in Threads, Enter(t) PROVE requests' \in Seq(RequestSet)
    BY <1>12, <1>0
      DEF Enter, Leave, Goto, Return, Flush, Commands, request_vars
  <1>13. ASSUME NEW t \in Threads, Stage(t) PROVE requests' \in Seq(RequestSet)
    BY <1>13, <1>0
      DEF Stage, Leave, Goto, Return, request_vars
  <1>14. ASSUME NEW t \in Threads, Lower(t) PROVE requests' \in Seq(RequestSet)
    BY <1>14, <1>0
      DEF Lower, Goto, request_vars
  <1>15. ASSUME NEW t \in Threads, HalSubmit(t) PROVE requests' \in Seq(RequestSet)
    BY <1>15, <1>0
      DEF HalSubmit, Leave, Goto, Return, request_vars
  <1>16. ASSUME NEW t \in Threads, Record(t) PROVE requests' \in Seq(RequestSet)
    BY <1>16, <1>0
      DEF Record, Leave, Goto, Return, request_vars
  <1>17. ASSUME NEW t \in Threads, BeginMap(t) PROVE requests' \in Seq(RequestSet)
    BY <1>17, <1>0
      DEF BeginMap, Return, Mode, Mappable, request_vars
  <1>18. ASSUME NEW t \in Threads, Abort(t) PROVE requests' \in Seq(RequestSet)
    BY <1>18, <1>0
      DEF Abort, CancelPending, ClearMap, request_vars
  <1>19. ASSUME NEW t \in Threads, Gate(t) PROVE requests' \in Seq(RequestSet)
    BY <1>19, <1>0
      DEF Gate, request_vars
  <1>20. ASSUME NEW t \in Threads, Register(t) PROVE requests' \in Seq(RequestSet)
    <2>1. \/ requests' = Append(requests, NewRequest(t))
          \/ requests' = Append(requests, Ended(call[t].serial, "cancelled"))
      BY <1>20 DEF Register
    <2>2. call[t].serial \in Nat
      BY ShapeFacts DEF Calls
    <2>3. NewRequest(t) \in RequestSet
      BY ShapeFacts DEF NewRequest, Calls, RequestSet
    <2>4. Ended(call[t].serial, "cancelled") \in RequestSet
      BY <2>2, EndedTyped DEF Outcomes
    <2>5. QED
      BY <2>1, <2>3, <2>4, <1>0
  <1>21. ASSUME NEW t \in Threads, Fire(t) PROVE requests' \in Seq(RequestSet)
    <2>0. /\ Mine(t).status \in Outcomes
          /\ \A o \in Outcomes : Outcome(Mine(t), o) \in Outcomes
          /\ "success" \in Outcomes /\ "error" \in Outcomes /\ "aborted" \in Outcomes
      BY <1>21, OutcomeTyped DEF Fire, Fires, At, Outcomes
    <2>1. \/ requests' = requests
          \/ \E o \in Outcomes : requests' = [requests EXCEPT ![call[t].request] = Ended(@.serial, o)]
      BY <1>21, <2>0 DEF Fire, request_vars, Report
    <2>2. call[t].request \in DOMAIN requests
      BY <1>21 DEF FireInv, Fires, Fire, At
    <2>3. ASSUME NEW o \in Outcomes,
                 requests' = [requests EXCEPT ![call[t].request] = Ended(@.serial, o)]
          PROVE  requests' \in Seq(RequestSet)
      <3>1. requests[call[t].request].serial \in Nat
        BY <2>2, ShapeFacts DEF RequestSet
      <3>2. QED
        BY <2>2, <2>3, <3>1, <1>0, EndedTyped
    <2>4. QED
      BY <2>1, <2>3, <1>0
  <1>22. ASSUME NEW t \in Threads, ResolveTest(t) PROVE requests' \in Seq(RequestSet)
    <2>0. /\ Mine(t).status \in Outcomes
          /\ \A o \in Outcomes : Outcome(Mine(t), o) \in Outcomes
          /\ "success" \in Outcomes /\ "error" \in Outcomes /\ "aborted" \in Outcomes
      BY <1>22, OutcomeTyped DEF ResolveTest, Fires, At, Outcomes
    <2>1. \/ requests' = requests
          \/ \E o \in Outcomes : requests' = [requests EXCEPT ![call[t].request] = Ended(@.serial, o)]
      BY <1>22, <2>0 DEF ResolveTest, request_vars, Report
    <2>2. call[t].request \in DOMAIN requests
      BY <1>22 DEF FireInv, Fires, ResolveTest, At
    <2>3. ASSUME NEW o \in Outcomes,
                 requests' = [requests EXCEPT ![call[t].request] = Ended(@.serial, o)]
          PROVE  requests' \in Seq(RequestSet)
      <3>1. requests[call[t].request].serial \in Nat
        BY <2>2, ShapeFacts DEF RequestSet
      <3>2. QED
        BY <2>2, <2>3, <3>1, <1>0, EndedTyped
    <2>4. QED
      BY <2>1, <2>3, <1>0
  <1>23. ASSUME NEW t \in Threads, ResolveMap(t) PROVE requests' \in Seq(RequestSet)
    <2>0. /\ Mine(t).status \in Outcomes
          /\ \A o \in Outcomes : Outcome(Mine(t), o) \in Outcomes
          /\ "success" \in Outcomes /\ "error" \in Outcomes /\ "aborted" \in Outcomes
      BY <1>23, OutcomeTyped DEF ResolveMap, Fires, At, Outcomes
    <2>1. \/ requests' = requests
          \/ \E o \in Outcomes : requests' = [requests EXCEPT ![call[t].request] = Ended(@.serial, o)]
      BY <1>23, <2>0 DEF ResolveMap, Settle, Report
    <2>2. call[t].request \in DOMAIN requests
      BY <1>23 DEF FireInv, Fires, ResolveMap, At
    <2>3. ASSUME NEW o \in Outcomes,
                 requests' = [requests EXCEPT ![call[t].request] = Ended(@.serial, o)]
          PROVE  requests' \in Seq(RequestSet)
      <3>1. requests[call[t].request].serial \in Nat
        BY <2>2, ShapeFacts DEF RequestSet
      <3>2. QED
        BY <2>2, <2>3, <3>1, <1>0, EndedTyped
    <2>4. QED
      BY <2>1, <2>3, <1>0
  <1>24. ASSUME NEW r \in DOMAIN requests, PollLost(r), PollFrame PROVE requests' \in Seq(RequestSet)
    <2>1. requests' = [requests EXCEPT ![r] = [requests[r] EXCEPT !.status = "aborted", !.buffer = FALSE, !.gate = 0, !.phase = "ready"]]
      BY <1>24 DEF PollLost
    <2>2. [requests[r] EXCEPT !.status = "aborted", !.buffer = FALSE, !.gate = 0, !.phase = "ready"] \in RequestSet
      BY ShapeFacts DEF RequestSet
    <2>3. PICK c \in RequestSet : requests' = [requests EXCEPT ![r] = c]
      BY <2>1, <2>2
    <2>4. QED
      BY <2>3, <1>0
  <1>25. ASSUME NEW r \in DOMAIN requests, PollPassed(r), PollFrame PROVE requests' \in Seq(RequestSet)
    <2>1. requests' = [requests EXCEPT ![r].gate = 0, ![r].phase = "ready"]
      BY <1>25 DEF PollPassed
    <2>2. [requests[r] EXCEPT !.gate = 0, !.phase = "ready"] \in RequestSet
      BY ShapeFacts DEF RequestSet
    <2>3. PICK c \in RequestSet : requests' = [requests EXCEPT ![r] = c]
      BY <2>1, <2>2
    <2>4. QED
      BY <2>3, <1>0
  <1>26. ASSUME NEW r \in DOMAIN requests, PollFails(r), PollFrame PROVE requests' \in Seq(RequestSet)
    <2>1. requests' = [requests EXCEPT ![r] = [requests[r] EXCEPT !.status = "error", !.gate = 0, !.phase = "ready"]]
      BY <1>26 DEF PollFails
    <2>2. [requests[r] EXCEPT !.status = "error", !.gate = 0, !.phase = "ready"] \in RequestSet
      BY ShapeFacts DEF RequestSet
    <2>3. PICK c \in RequestSet : requests' = [requests EXCEPT ![r] = c]
      BY <2>1, <2>2
    <2>4. QED
      BY <2>3, <1>0
  <1>27. ASSUME NEW r \in DOMAIN requests, Cancel(r), PollFrame PROVE requests' \in Seq(RequestSet)
    <2>1. requests' = [requests EXCEPT ![r] = Ended(@.serial, "cancelled")]
      BY <1>27 DEF Cancel
    <2>2. requests[r].serial \in Nat
      BY ShapeFacts DEF RequestSet
    <2>3. Ended(requests[r].serial, "cancelled") \in RequestSet
      BY <2>2, EndedTyped DEF Outcomes
    <2>4. QED
      BY <2>1, <2>3, <1>0
  <1>28. CASE Complete
    BY <1>28, <1>0
      DEF Complete, request_vars
  <1>29. CASE EndOfUse
    BY <1>29, <1>0
      DEF EndOfUse, request_vars
  <1>30. CASE UNCHANGED vars
    BY <1>30, <1>0
      DEF vars, request_vars
  <1>31. QED
    BY <1>1, <1>2, <1>3, <1>4, <1>5, <1>6, <1>7, <1>8, <1>9, <1>10, <1>11, <1>12, <1>13,
       <1>14, <1>15, <1>16, <1>17, <1>18, <1>19, <1>20, <1>21, <1>22, <1>23, <1>24, <1>25,
       <1>26, <1>27, <1>28, <1>29, <1>30, StepCases

\* The parts of Shape that are not calls or requests.
LEMMA QueueShapeNext ==
  ASSUME Shape, [Next]_vars
  PROVE  /\ submission' \in Threads \cup {NoThread}
         /\ staged' \in Nat /\ latest' \in Nat /\ done' \in Nat
         /\ newest' \in Nat /\ next_map_serial' \in Nat
         /\ carry' \in Works /\ gpu' \in Seq(Works)
         /\ pending_map' \in Maps
  <1> DEFINE P == /\ submission \in Threads \cup {NoThread}
                  /\ staged \in Nat /\ latest \in Nat /\ done \in Nat
                  /\ newest \in Nat /\ next_map_serial \in Nat
                  /\ carry \in Works /\ gpu \in Seq(Works)
                  /\ pending_map \in Maps
  <1> SUFFICES P' OBVIOUS
  <1> USE DEF state_vars, life_vars, data_vars, queue_vars, gpu_vars
  <1>0. P
    BY DEF Shape
  <1>01. NoWork \in Works /\ NoMap \in Maps
    BY DEF NoWork, Works, NoMap, Maps
  <1>1. ASSUME NEW t \in Threads, Unmap(t) PROVE P'
    BY <1>1, <1>0, <1>01
      DEF Unmap, UnmapCall, ClearMap, FlushHostMap, EndPending
  <1>2. ASSUME NEW t \in Threads, Destroy(t) PROVE P'
    BY <1>2, <1>0, <1>01
      DEF Destroy, ClearMap, EndPending
  <1>3. ASSUME NEW t \in Threads, Release(t) PROVE P'
    BY <1>3, <1>0, <1>01
      DEF Release, ClearMap, EndPending
  <1>4. ASSUME NEW t \in Threads, MappedRange(t) PROVE P'
    BY <1>4, <1>0, <1>01
      DEF MappedRange
  <1>5. ASSUME NEW t \in Threads, WriteMapped(t) PROVE P'
    BY <1>5, <1>0, <1>01
      DEF WriteMapped
  <1>6. ASSUME NEW t \in Threads, BeginWrite(t) PROVE P'
    BY <1>6, <1>0, <1>01
      DEF BeginWrite, Begin
  <1>7. ASSUME NEW t \in Threads, BeginQueueCall(t) PROVE P'
    BY <1>7, <1>0, <1>01
      DEF BeginQueueCall, Begin
  <1>8. ASSUME NEW t \in Threads, Lose(t) PROVE P'
    BY <1>8, <1>0, <1>01
      DEF Lose
  <1>9. ASSUME NEW t \in Threads, BeginMapAsync(t) PROVE P'
    BY <1>9, <1>0, <1>01
      DEF BeginMapAsync, Begin
  <1>10. ASSUME NEW t \in Threads, Take(t) PROVE P'
    BY <1>10, <1>0, <1>01
      DEF Take
  <1>11. ASSUME NEW t \in Threads, FreeHost(t) PROVE P'
    BY <1>11, <1>0, <1>01
      DEF FreeHost, Return
  <1>12. ASSUME NEW t \in Threads, Enter(t) PROVE P'
    <2>1. \A w \in Commands : w \in Works
      <3>1. newest + 1 \in Nat
        BY <1>0
      <3>2. /\ [write |-> 0, read |-> TRUE] \in Works
            /\ [write |-> newest + 1, read |-> FALSE] \in Works
        BY <3>1 DEF Works
      <3>3. QED
        BY <3>2, <1>01 DEF Commands
    <2>2. [NoWork EXCEPT !.write = staged] \in Works
      BY <1>0 DEF NoWork, Works
    <2>3. carry' \in Works
      BY <1>12, <1>01, <2>1, <2>2 DEF Enter, Leave, Flush
    <2>4. submission' \in Threads \cup {NoThread} /\ staged' \in Nat
      BY <1>12, <1>0 DEF Enter, Leave, Flush
    <2>5. QED
      BY <1>12, <1>0, <2>3, <2>4 DEF Enter
  <1>13. ASSUME NEW t \in Threads, Stage(t) PROVE P'
    <2>1. newest' \in Nat /\ staged' \in Nat
      BY <1>13, <1>0 DEF Stage
    <2>2. [NoWork EXCEPT !.write = newest + 1] \in Works
      <3>1. newest + 1 \in Nat
        BY <1>0
      <3>2. QED
        BY <3>1 DEF NoWork, Works
    <2>3. carry' \in Works
      BY <1>13, <1>01, <2>2 DEF Stage, Leave
    <2>4. submission' \in Threads \cup {NoThread}
      BY <1>13, <1>0 DEF Stage, Leave
    <2>5. QED
      BY <1>13, <1>0, <2>1, <2>3, <2>4 DEF Stage
  <1>14. ASSUME NEW t \in Threads, Lower(t) PROVE P'
    <2>1. newest' \in Nat
      BY <1>14, <1>0 DEF Lower
    <2>2. \A n \in Nat : [NoWork EXCEPT !.write = n] \in Works /\ [carry EXCEPT !.write = n] \in Works
      BY <1>0 DEF NoWork, Works
    <2>3. \/ carry' = [carry EXCEPT !.write = staged]
          \/ carry' = [carry EXCEPT !.write = newest + 1]
          \/ carry' = [NoWork EXCEPT !.write = staged]
      BY <1>14 DEF Lower
    <2>4. newest + 1 \in Nat /\ staged \in Nat
      BY <1>0
    <2>5. carry' \in Works
      BY <2>2, <2>3, <2>4
    <2>6. submission' = submission /\ staged' = 0
      BY <1>14 DEF Lower
    <2>7. QED
      BY <1>14, <1>0, <2>1, <2>5, <2>6 DEF Lower
  <1>15. ASSUME NEW t \in Threads, HalSubmit(t) PROVE P'
    <2>1. gpu' = gpu \/ gpu' = Append(gpu, carry)
      BY <1>15 DEF HalSubmit
    <2>2. gpu' \in Seq(Works)
      BY <2>1, <1>0
    <2>3. carry' \in Works
      BY <1>15, <1>01 DEF HalSubmit, Leave
    <2>4. submission' \in Threads \cup {NoThread}
      BY <1>15, <1>0 DEF HalSubmit, Leave
    <2>5. QED
      BY <1>15, <1>0, <2>2, <2>3, <2>4 DEF HalSubmit
  <1>16. ASSUME NEW t \in Threads, Record(t) PROVE P'
    <2>1. call[t].index \in Nat
      BY ShapeFacts DEF Calls
    <2>2. latest' \in Nat
      BY <1>16, <1>0, <2>1 DEF Record
    <2>3. carry' \in Works /\ submission' \in Threads \cup {NoThread}
      BY <1>16, <1>0, <1>01 DEF Record, Leave
    <2>4. QED
      BY <1>16, <1>0, <2>2, <2>3 DEF Record
  <1>17. ASSUME NEW t \in Threads, BeginMap(t) PROVE P'
    <2>1. next_map_serial' \in Nat
      BY <1>17, <1>0 DEF BeginMap
    <2>2. Mode \in {"none", "read", "write"}
      BY DEF Mode
    <2>3. next_map_serial + 1 \in Nat
      BY <1>0
    <2>4. [serial |-> next_map_serial + 1, mode |-> Mode] \in Maps
      BY <2>2, <2>3 DEF Maps
    <2>5. pending_map' \in Maps
      BY <1>17, <1>0, <2>4 DEF BeginMap
    <2>6. QED
      BY <1>17, <1>0, <2>1, <2>5 DEF BeginMap
  <1>18. ASSUME NEW t \in Threads, Abort(t) PROVE P'
    BY <1>18, <1>0, <1>01
      DEF Abort, CancelPending, ClearMap
  <1>19. ASSUME NEW t \in Threads, Gate(t) PROVE P'
    BY <1>19, <1>0, <1>01
      DEF Gate
  <1>20. ASSUME NEW t \in Threads, Register(t) PROVE P'
    BY <1>20, <1>0, <1>01
      DEF Register, Return, NewRequest, Ended, CancelPending, ClearMap
  <1>21. ASSUME NEW t \in Threads, Fire(t) PROVE P'
    BY <1>21, <1>0, <1>01
      DEF Fire, CancelRequest, CancelPending, ClearMap, Report, Ended, Return, Goto, Mine
  <1>22. ASSUME NEW t \in Threads, ResolveTest(t) PROVE P'
    BY <1>22, <1>0, <1>01
      DEF ResolveTest, Current, Report, Ended, Return, Goto, Mine
  <1>23. ASSUME NEW t \in Threads, ResolveMap(t) PROVE P'
    BY <1>23, <1>0, <1>01
      DEF ResolveMap, Current, Report, Ended, Return, Mine, Settle
  <1>24. ASSUME NEW r \in DOMAIN requests, PollLost(r), PollFrame PROVE P'
    BY <1>24, <1>0, <1>01
      DEF PollLost, CancelRequest, CancelPending, ClearMap, PollFrame
  <1>25. ASSUME NEW r \in DOMAIN requests, PollPassed(r), PollFrame PROVE P'
    BY <1>25, <1>0, <1>01
      DEF PollPassed, PollFrame
  <1>26. ASSUME NEW r \in DOMAIN requests, PollFails(r), PollFrame PROVE P'
    BY <1>26, <1>0, <1>01
      DEF PollFails, CancelRequest, CancelPending, ClearMap, PollFrame
  <1>27. ASSUME NEW r \in DOMAIN requests, Cancel(r), PollFrame PROVE P'
    BY <1>27, <1>0, <1>01
      DEF Cancel, CancelRequest, CancelPending, ClearMap, Ended, PollFrame
  <1>28. CASE Complete
    BY <1>28, <1>0, <1>01
      DEF Complete
  <1>29. CASE EndOfUse
    BY <1>29, <1>0, <1>01
      DEF EndOfUse
  <1>30. CASE UNCHANGED vars
    BY <1>30, <1>0, <1>01
      DEF vars
  <1>31. QED
    BY <1>1, <1>2, <1>3, <1>4, <1>5, <1>6, <1>7, <1>8, <1>9, <1>10, <1>11, <1>12, <1>13,
       <1>14, <1>15, <1>16, <1>17, <1>18, <1>19, <1>20, <1>21, <1>22, <1>23, <1>24, <1>25,
       <1>26, <1>27, <1>28, <1>29, <1>30, StepCases

LEMMA ShapeNext ==
  ASSUME Shape, FireInv, [Next]_vars
  PROVE  Shape'
  BY CallNext, RequestsNext, QueueShapeNext DEF Shape

\* The fields of BufferState end and begin together.
LEMMA AgreeNext ==
  ASSUME Shape, AgreeInv, [Next]_vars
  PROVE  AgreeInv'
  <1> USE DEF state_vars, life_vars, fixed_vars, request_vars, StateAgrees, AgreeInv
  <1>0. next_map_serial \in Nat /\ pending_map \in Maps
    BY DEF Shape
  <1>1. ASSUME NEW t \in Threads, Unmap(t) PROVE AgreeInv'
    BY <1>1
      DEF Unmap, UnmapCall, ClearMap, FlushHostMap, EndPending
  <1>2. ASSUME NEW t \in Threads, Destroy(t) PROVE AgreeInv'
    BY <1>2
      DEF Destroy, ClearMap, EndPending
  <1>3. ASSUME NEW t \in Threads, Release(t) PROVE AgreeInv'
    BY <1>3
      DEF Release, ClearMap, EndPending
  <1>4. ASSUME NEW t \in Threads, MappedRange(t) PROVE AgreeInv'
    BY <1>4
      DEF MappedRange
  <1>5. ASSUME NEW t \in Threads, WriteMapped(t) PROVE AgreeInv'
    BY <1>5
      DEF WriteMapped
  <1>6. ASSUME NEW t \in Threads, BeginWrite(t) PROVE AgreeInv'
    BY <1>6
      DEF BeginWrite, Begin
  <1>7. ASSUME NEW t \in Threads, BeginQueueCall(t) PROVE AgreeInv'
    BY <1>7
      DEF BeginQueueCall, Begin
  <1>8. ASSUME NEW t \in Threads, Lose(t) PROVE AgreeInv'
    BY <1>8
      DEF Lose
  <1>9. ASSUME NEW t \in Threads, BeginMapAsync(t) PROVE AgreeInv'
    BY <1>9
      DEF BeginMapAsync, Begin
  <1>10. ASSUME NEW t \in Threads, Take(t) PROVE AgreeInv'
    BY <1>10
      DEF Take
  <1>11. ASSUME NEW t \in Threads, FreeHost(t) PROVE AgreeInv'
    BY <1>11
      DEF FreeHost, Return
  <1>12. ASSUME NEW t \in Threads, Enter(t) PROVE AgreeInv'
    BY <1>12
      DEF Enter, Leave, Goto, Return, Flush, Commands
  <1>13. ASSUME NEW t \in Threads, Stage(t) PROVE AgreeInv'
    BY <1>13
      DEF Stage, Leave, Goto, Return
  <1>14. ASSUME NEW t \in Threads, Lower(t) PROVE AgreeInv'
    BY <1>14
      DEF Lower, Goto
  <1>15. ASSUME NEW t \in Threads, HalSubmit(t) PROVE AgreeInv'
    BY <1>15
      DEF HalSubmit, Leave, Goto, Return
  <1>16. ASSUME NEW t \in Threads, Record(t) PROVE AgreeInv'
    BY <1>16
      DEF Record, Leave, Goto, Return
  <1>17. ASSUME NEW t \in Threads, BeginMap(t) PROVE AgreeInv'
    <2>1. CASE Mappable /\ next_map_serial < MaxMaps
      <3>1. /\ map_state' = "pending" /\ pending_map' = [serial |-> next_map_serial + 1, mode |-> Mode]
            /\ active_map' = "none" /\ mapped_ranges' = {} /\ Mode # "none"
            /\ ~is_destroyed /\ is_destroyed' = is_destroyed
        BY <1>17, <2>1 DEF BeginMap, Mappable
      <3>2. next_map_serial + 1 # 0
        BY <1>0
      <3>3. pending_map' # NoMap
        BY <3>1, <3>2 DEF NoMap
      <3>4. QED
        BY <3>1, <3>3
    <2>2. CASE ~(Mappable /\ next_map_serial < MaxMaps)
      BY <1>17, <2>2 DEF BeginMap
    <2>3. QED
      BY <2>1, <2>2
  <1>18. ASSUME NEW t \in Threads, Abort(t) PROVE AgreeInv'
    BY <1>18
      DEF Abort, CancelPending, ClearMap
  <1>19. ASSUME NEW t \in Threads, Gate(t) PROVE AgreeInv'
    BY <1>19
      DEF Gate
  <1>20. ASSUME NEW t \in Threads, Register(t) PROVE AgreeInv'
    BY <1>20
      DEF Register, Return, NewRequest, Ended, CancelPending, ClearMap
  <1>21. ASSUME NEW t \in Threads, Fire(t) PROVE AgreeInv'
    BY <1>21
      DEF Fire, CancelRequest, CancelPending, ClearMap, Report, Ended, Return, Goto, Mine
  <1>22. ASSUME NEW t \in Threads, ResolveTest(t) PROVE AgreeInv'
    BY <1>22
      DEF ResolveTest, Current, Report, Ended, Return, Goto, Mine
  <1>23. ASSUME NEW t \in Threads, ResolveMap(t) PROVE AgreeInv'
    BY <1>23
      DEF ResolveMap, Current, Report, Ended, Return, Mine, Settle
  <1>24. ASSUME NEW r \in DOMAIN requests, PollLost(r), PollFrame PROVE AgreeInv'
    BY <1>24
      DEF PollLost, CancelRequest, CancelPending, ClearMap, PollFrame
  <1>25. ASSUME NEW r \in DOMAIN requests, PollPassed(r), PollFrame PROVE AgreeInv'
    BY <1>25
      DEF PollPassed, PollFrame
  <1>26. ASSUME NEW r \in DOMAIN requests, PollFails(r), PollFrame PROVE AgreeInv'
    BY <1>26
      DEF PollFails, CancelRequest, CancelPending, ClearMap, PollFrame
  <1>27. ASSUME NEW r \in DOMAIN requests, Cancel(r), PollFrame PROVE AgreeInv'
    BY <1>27
      DEF Cancel, CancelRequest, CancelPending, ClearMap, Ended, PollFrame
  <1>28. CASE Complete
    BY <1>28
      DEF Complete
  <1>29. CASE EndOfUse
    BY <1>29
      DEF EndOfUse
  <1>30. CASE UNCHANGED vars
    BY <1>30
      DEF vars
  <1>31. QED
    BY <1>1, <1>2, <1>3, <1>4, <1>5, <1>6, <1>7, <1>8, <1>9, <1>10, <1>11, <1>12, <1>13,
       <1>14, <1>15, <1>16, <1>17, <1>18, <1>19, <1>20, <1>21, <1>22, <1>23, <1>24, <1>25,
       <1>26, <1>27, <1>28, <1>29, <1>30, StepCases

\* What a step does to the calls: those of other threads stay, and the own one
\* goes to a label with its local variables, or returns.
Others(t) == \A u \in Threads \ {t} : call'[u] = call[u]
SameLocals(t) ==
  /\ call'[t].serial = call[t].serial /\ call'[t].index = call[t].index
  /\ call'[t].request = call[t].request
Goes(t, l) == Others(t) /\ call'[t].at = l /\ SameLocals(t)
Returns(t) ==
  /\ Others(t)
  /\ call'[t].at = "idle" /\ call'[t].serial = 0 /\ call'[t].request = 0

LEMMA CallFacts ==
  ASSUME Shape, NEW t \in Threads
  PROVE  /\ Return(t) => Returns(t)
         /\ \A l : Goto(t, l) => Goes(t, l)
         /\ \A o, l : Begin(t, o, l) => call[t].at = "idle" /\ Goes(t, l)
         /\ \A l : Leave(t, l) => /\ submission' = NoThread /\ carry' = NoWork
                                  /\ Returns(t) \/ Goes(t, l)
  <1>0. call \in [Threads -> Calls]
    BY DEF Shape
  <1>1. Return(t) => Returns(t)
    BY <1>0 DEF Return, Returns, Others, Idle, Calls
  <1>2. ASSUME NEW l, Goto(t, l) PROVE Goes(t, l)
    BY <1>0, <1>2 DEF Goto, Goes, Others, SameLocals, Calls
  <1>3. ASSUME NEW o, NEW l, Begin(t, o, l)
        PROVE  call[t].at = "idle" /\ Goes(t, l)
    BY <1>0, <1>3 DEF Begin, At, Goes, Others, SameLocals, Calls
  <1>4. ASSUME NEW l, Leave(t, l)
        PROVE  /\ submission' = NoThread /\ carry' = NoWork
               /\ Returns(t) \/ Goes(t, l)
    BY <1>4, <1>1, <1>2 DEF Leave
  <1>5. QED
    BY <1>1, <1>2, <1>3, <1>4

LEMMA UnmapMoves ==
  ASSUME Shape, NEW t \in Threads, UnmapCall(t)
  PROVE  call[t].at = "idle" /\ (call' = call \/ Goes(t, "free_host"))
  BY CallFacts DEF UnmapCall, At

LEMMA BeginMapMoves ==
  ASSUME Shape, NEW t \in Threads, BeginMap(t)
  PROVE  IF Mappable /\ next_map_serial < MaxMaps
         THEN /\ Others(t) /\ call'[t].at = "enter"
              /\ call'[t].serial = next_map_serial + 1
              /\ call'[t].request = call[t].request
         ELSE Returns(t)
  <1>0. call \in [Threads -> Calls]
    BY DEF Shape
  <1>1. CASE Mappable /\ next_map_serial < MaxMaps
    <2>1. call' = [call EXCEPT ![t].at = "enter", ![t].serial = next_map_serial + 1]
      BY <1>1 DEF BeginMap
    <2>2. QED
      BY <1>0, <1>1, <2>1 DEF Others, Calls
  <1>2. CASE ~(Mappable /\ next_map_serial < MaxMaps)
    <2>1. Return(t)
      BY <1>2 DEF BeginMap
    <2>2. QED
      BY <1>2, <2>1, CallFacts
  <1>3. QED
    BY <1>1, <1>2

LEMMA AbortMoves ==
  ASSUME Shape, NEW t \in Threads, Abort(t)
  PROVE  Goes(t, "gate")
  <1>1. /\ call \in [Threads -> Calls]
        /\ call' = [call EXCEPT ![t].at = "gate", ![t].status = "error"]
    BY DEF Shape, Abort
  <1>2. QED
    BY <1>1 DEF Goes, Others, SameLocals, Calls

LEMMA GateMoves ==
  ASSUME Shape, NEW t \in Threads, Gate(t)
  PROVE  /\ Others(t) /\ call'[t].at = "register" /\ call'[t].index = latest
         /\ call'[t].serial = call[t].serial /\ call'[t].request = call[t].request
  <1>1. /\ call \in [Threads -> Calls]
        /\ call' = [call EXCEPT ![t].at = "register", ![t].index = latest]
    BY DEF Shape, Gate
  <1>2. QED
    BY <1>1 DEF Others, Calls

LEMMA HalSubmitMoves ==
  ASSUME Shape, NEW t \in Threads,
         call' = [call EXCEPT ![t].at = "record", ![t].index = Len(gpu) + 1]
  PROVE  /\ Others(t) /\ call'[t].at = "record" /\ call'[t].index = Len(gpu) + 1
         /\ call'[t].serial = call[t].serial /\ call'[t].request = call[t].request
  <1>1. call \in [Threads -> Calls]
    BY DEF Shape
  <1>2. QED
    BY <1>1 DEF Others, Calls

LEMMA TakeMoves ==
  ASSUME Shape, NEW t \in Threads, Take(t)
  PROVE  \E r \in DOMAIN requests :
           /\ requests[r].phase = "ready"
           /\ requests' = [requests EXCEPT ![r].phase = "taken"]
           /\ call[t].at = "idle"
           /\ Others(t) /\ call'[t].at = "fire" /\ call'[t].request = r
           /\ call'[t].serial = call[t].serial
  <1>1. PICK r \in DOMAIN requests :
          /\ requests[r].phase = "ready"
          /\ requests' = [requests EXCEPT ![r].phase = "taken"]
          /\ call' = [call EXCEPT ![t] =
                        [@ EXCEPT !.at = "fire", !.op = "fire", !.request = r]]
    BY DEF Take
  <1>01. call[t].at = "idle"
    BY DEF Take, At
  <1>2. call \in [Threads -> Calls]
    BY DEF Shape
  <1>3. /\ Others(t) /\ call'[t].at = "fire" /\ call'[t].request = r
        /\ call'[t].serial = call[t].serial
    BY <1>1, <1>2 DEF Others, Calls
  <1>4. QED
    BY <1>1, <1>01, <1>3

\* The `submission` mutex and the index it protects.
LEMMA LockNext ==
  ASSUME Shape, LockInv, [Next]_vars
  PROVE  LockInv'
  <1> USE DEF queue_vars, gpu_vars, error_vars, LockInv, Inside, At
  <1>0. /\ call \in [Threads -> Calls] /\ submission \in Threads \cup {NoThread}
        /\ latest \in Nat /\ staged \in Nat
    BY DEF Shape
  <1>1. ASSUME NEW t \in Threads, Unmap(t) PROVE LockInv'
    BY <1>1, <1>0, MapGateAssumption, UnmapMoves
      DEF Unmap, ClearMap, EndPending, FlushHostMap, Goes, Returns, Others, SameLocals
  <1>2. ASSUME NEW t \in Threads, Destroy(t) PROVE LockInv'
    BY <1>2, <1>0, MapGateAssumption
      DEF Destroy, ClearMap, EndPending
  <1>3. ASSUME NEW t \in Threads, Release(t) PROVE LockInv'
    BY <1>3, <1>0, MapGateAssumption
      DEF Release, ClearMap, EndPending
  <1>4. ASSUME NEW t \in Threads, MappedRange(t) PROVE LockInv'
    BY <1>4, <1>0, MapGateAssumption
      DEF MappedRange
  <1>5. ASSUME NEW t \in Threads, WriteMapped(t) PROVE LockInv'
    BY <1>5, <1>0, MapGateAssumption
      DEF WriteMapped
  <1>6. ASSUME NEW t \in Threads, BeginWrite(t) PROVE LockInv'
    BY <1>6, <1>0, MapGateAssumption, CallFacts
      DEF BeginWrite, Goes, Returns, Others, SameLocals
  <1>7. ASSUME NEW t \in Threads, BeginQueueCall(t) PROVE LockInv'
    BY <1>7, <1>0, MapGateAssumption, CallFacts
      DEF BeginQueueCall, Goes, Returns, Others, SameLocals
  <1>8. ASSUME NEW t \in Threads, Lose(t) PROVE LockInv'
    BY <1>8, <1>0, MapGateAssumption
      DEF Lose
  <1>9. ASSUME NEW t \in Threads, BeginMapAsync(t) PROVE LockInv'
    BY <1>9, <1>0, MapGateAssumption, CallFacts
      DEF BeginMapAsync, Goes, Returns, Others, SameLocals
  <1>10. ASSUME NEW t \in Threads, Take(t) PROVE LockInv'
    <2>1. /\ call[t].at = "idle" /\ call'[t].at = "fire" /\ Others(t)
          /\ UNCHANGED <<queue_vars, gpu_vars, error_vars>>
      BY <1>10, TakeMoves DEF Take
    <2>2. QED
      BY <2>1, <1>0, MapGateAssumption DEF Others
  <1>11. ASSUME NEW t \in Threads, FreeHost(t) PROVE LockInv'
    BY <1>11, <1>0, MapGateAssumption, CallFacts
      DEF FreeHost, Goes, Returns, Others, SameLocals
  <1>12. ASSUME NEW t \in Threads, Enter(t) PROVE LockInv'
    BY <1>12, <1>0, MapGateAssumption, CallFacts
      DEF Enter, Flush, Goes, Returns, Others, SameLocals
  <1>13. ASSUME NEW t \in Threads, Stage(t) PROVE LockInv'
    BY <1>13, <1>0, MapGateAssumption, CallFacts
      DEF Stage, Goes, Returns, Others, SameLocals
  <1>14. ASSUME NEW t \in Threads, Lower(t) PROVE LockInv'
    BY <1>14, <1>0, MapGateAssumption, CallFacts
      DEF Lower, Goes, Returns, Others, SameLocals
  <1>15. ASSUME NEW t \in Threads, HalSubmit(t) PROVE LockInv'
    BY <1>15, <1>0, MapGateAssumption, CallFacts, HalSubmitMoves
      DEF HalSubmit, Goes, Returns, Others, SameLocals
  <1>16. ASSUME NEW t \in Threads, Record(t) PROVE LockInv'
    BY <1>16, <1>0, MapGateAssumption, CallFacts
      DEF Record, Goes, Returns, Others, SameLocals
  <1>17. ASSUME NEW t \in Threads, BeginMap(t) PROVE LockInv'
    <2>1. Others(t) /\ call'[t].at \in {"enter", "idle"}
      BY <1>17, BeginMapMoves DEF Returns
    <2>2. UNCHANGED <<submission, lost, staged, carry, gpu, latest, misreported>>
      BY <1>17 DEF BeginMap
    <2>3. QED
      BY <2>1, <2>2, <1>17, <1>0, MapGateAssumption DEF BeginMap, Others
  <1>18. ASSUME NEW t \in Threads, Abort(t) PROVE LockInv'
    BY <1>18, <1>0, MapGateAssumption, AbortMoves
      DEF Abort, Goes, Returns, Others, SameLocals
  <1>19. ASSUME NEW t \in Threads, Gate(t) PROVE LockInv'
    BY <1>19, <1>0, MapGateAssumption, GateMoves
      DEF Gate, Goes, Returns, Others, SameLocals
  <1>20. ASSUME NEW t \in Threads, Register(t) PROVE LockInv'
    BY <1>20, <1>0, MapGateAssumption, CallFacts
      DEF Register, NewRequest, Ended, CancelPending, ClearMap, Goes, Returns, Others,
          SameLocals
  <1>21. ASSUME NEW t \in Threads, Fire(t) PROVE LockInv'
    BY <1>21, <1>0, MapGateAssumption, CallFacts
      DEF Fire, CancelRequest, CancelPending, ClearMap, Report, Ended, Mine, Goes,
          Returns, Others, SameLocals
  <1>22. ASSUME NEW t \in Threads, ResolveTest(t) PROVE LockInv'
    BY <1>22, <1>0, MapGateAssumption, CallFacts
      DEF ResolveTest, Current, Report, Ended, Mine, Goes, Returns, Others, SameLocals
  <1>23. ASSUME NEW t \in Threads, ResolveMap(t) PROVE LockInv'
    BY <1>23, <1>0, MapGateAssumption, CallFacts
      DEF ResolveMap, Current, Report, Ended, Mine, Settle, Goes, Returns, Others,
          SameLocals
  <1>24. ASSUME NEW r \in DOMAIN requests, PollLost(r), PollFrame PROVE LockInv'
    BY <1>24, <1>0, MapGateAssumption
      DEF PollLost, CancelRequest, CancelPending, ClearMap, PollFrame
  <1>25. ASSUME NEW r \in DOMAIN requests, PollPassed(r), PollFrame PROVE LockInv'
    BY <1>25, <1>0, MapGateAssumption
      DEF PollPassed, PollFrame
  <1>26. ASSUME NEW r \in DOMAIN requests, PollFails(r), PollFrame PROVE LockInv'
    BY <1>26, <1>0, MapGateAssumption
      DEF PollFails, CancelRequest, CancelPending, ClearMap, PollFrame
  <1>27. ASSUME NEW r \in DOMAIN requests, Cancel(r), PollFrame PROVE LockInv'
    BY <1>27, <1>0, MapGateAssumption
      DEF Cancel, CancelRequest, CancelPending, ClearMap, Ended, PollFrame
  <1>28. CASE Complete
    BY <1>28, <1>0, MapGateAssumption
      DEF Complete
  <1>29. CASE EndOfUse
    BY <1>29, <1>0, MapGateAssumption
      DEF EndOfUse
  <1>30. CASE UNCHANGED vars
    BY <1>30, <1>0, MapGateAssumption
      DEF vars
  <1>31. QED
    BY <1>1, <1>2, <1>3, <1>4, <1>5, <1>6, <1>7, <1>8, <1>9, <1>10, <1>11, <1>12, <1>13,
       <1>14, <1>15, <1>16, <1>17, <1>18, <1>19, <1>20, <1>21, <1>22, <1>23, <1>24, <1>25,
       <1>26, <1>27, <1>28, <1>29, <1>30, StepCases

LEMMA SerialNext ==
  ASSUME Shape, SerialInv, FireInv, [Next]_vars
  PROVE  SerialInv'
  <1> USE DEF life_vars, request_vars, SerialInv
  <1>0. /\ call \in [Threads -> Calls] /\ requests \in Seq(RequestSet)
        /\ next_map_serial \in Nat
    BY DEF Shape
  <1>1. ASSUME NEW t \in Threads, Unmap(t) PROVE SerialInv'
    BY <1>1, <1>0, UnmapMoves
      DEF Unmap, ClearMap, EndPending, FlushHostMap, Goes, Returns, Others, SameLocals
  <1>2. ASSUME NEW t \in Threads, Destroy(t) PROVE SerialInv'
    BY <1>2, <1>0
      DEF Destroy, ClearMap, EndPending
  <1>3. ASSUME NEW t \in Threads, Release(t) PROVE SerialInv'
    BY <1>3, <1>0
      DEF Release, ClearMap, EndPending
  <1>4. ASSUME NEW t \in Threads, MappedRange(t) PROVE SerialInv'
    BY <1>4, <1>0
      DEF MappedRange
  <1>5. ASSUME NEW t \in Threads, WriteMapped(t) PROVE SerialInv'
    BY <1>5, <1>0
      DEF WriteMapped
  <1>6. ASSUME NEW t \in Threads, BeginWrite(t) PROVE SerialInv'
    BY <1>6, <1>0, CallFacts
      DEF BeginWrite, Goes, Returns, Others, SameLocals
  <1>7. ASSUME NEW t \in Threads, BeginQueueCall(t) PROVE SerialInv'
    BY <1>7, <1>0, CallFacts
      DEF BeginQueueCall, Goes, Returns, Others, SameLocals
  <1>8. ASSUME NEW t \in Threads, Lose(t) PROVE SerialInv'
    BY <1>8, <1>0
      DEF Lose
  <1>9. ASSUME NEW t \in Threads, BeginMapAsync(t) PROVE SerialInv'
    BY <1>9, <1>0, CallFacts
      DEF BeginMapAsync, Goes, Returns, Others, SameLocals
  <1>10. ASSUME NEW t \in Threads, Take(t) PROVE SerialInv'
    <2>1. PICK r \in DOMAIN requests :
            /\ requests' = [requests EXCEPT ![r].phase = "taken"]
            /\ Others(t) /\ call'[t].serial = call[t].serial
            /\ next_map_serial' = next_map_serial
      BY <1>10, TakeMoves DEF Take
    <2>2. /\ DOMAIN requests' = DOMAIN requests
          /\ \A q \in DOMAIN requests : requests'[q].serial = requests[q].serial
      BY <2>1, <1>0, ShapeFacts DEF RequestSet
    <2>3. QED
      BY <2>1, <2>2 DEF Others
  <1>11. ASSUME NEW t \in Threads, FreeHost(t) PROVE SerialInv'
    BY <1>11, <1>0, CallFacts
      DEF FreeHost, Goes, Returns, Others, SameLocals
  <1>12. ASSUME NEW t \in Threads, Enter(t) PROVE SerialInv'
    BY <1>12, <1>0, CallFacts
      DEF Enter, Flush, Goes, Returns, Others, SameLocals
  <1>13. ASSUME NEW t \in Threads, Stage(t) PROVE SerialInv'
    BY <1>13, <1>0, CallFacts
      DEF Stage, Goes, Returns, Others, SameLocals
  <1>14. ASSUME NEW t \in Threads, Lower(t) PROVE SerialInv'
    BY <1>14, <1>0, CallFacts
      DEF Lower, Goes, Returns, Others, SameLocals
  <1>15. ASSUME NEW t \in Threads, HalSubmit(t) PROVE SerialInv'
    BY <1>15, <1>0, CallFacts, HalSubmitMoves
      DEF HalSubmit, Goes, Returns, Others, SameLocals
  <1>16. ASSUME NEW t \in Threads, Record(t) PROVE SerialInv'
    BY <1>16, <1>0, CallFacts
      DEF Record, Goes, Returns, Others, SameLocals
  <1>17. ASSUME NEW t \in Threads, BeginMap(t) PROVE SerialInv'
    <2>1. /\ next_map_serial' \in {next_map_serial, next_map_serial + 1}
          /\ requests' = requests
      BY <1>17 DEF BeginMap
    <2>2. /\ Others(t)
          /\ \/ call'[t].serial = 0
             \/ call'[t].serial = next_map_serial + 1 /\ next_map_serial' = next_map_serial + 1
      BY <1>17, BeginMapMoves DEF BeginMap, Returns
    <2>3. next_map_serial <= next_map_serial'
      BY <2>1, <1>0
    <2>4. ASSUME NEW u \in Threads PROVE call'[u].serial <= next_map_serial'
      <3>1. call[u].serial \in Nat /\ call[u].serial <= next_map_serial
        BY ShapeFacts DEF Calls
      <3>2. CASE u = t
        BY <2>2, <1>0, <2>1, <3>2
      <3>3. CASE u # t
        BY <2>1, <2>2, <3>1, <3>3, <1>0 DEF Others
      <3>4. QED
        BY <3>2, <3>3
    <2>5. ASSUME NEW r \in DOMAIN requests' PROVE requests'[r].serial <= next_map_serial'
      <3>1. requests[r].serial \in Nat /\ requests[r].serial <= next_map_serial
        BY <2>1, <2>5, ShapeFacts DEF RequestSet
      <3>2. QED
        BY <2>1, <3>1, <1>0
    <2>6. QED
      BY <2>4, <2>5
  <1>18. ASSUME NEW t \in Threads, Abort(t) PROVE SerialInv'
    BY <1>18, <1>0, AbortMoves
      DEF Abort, Goes, Returns, Others, SameLocals
  <1>19. ASSUME NEW t \in Threads, Gate(t) PROVE SerialInv'
    BY <1>19, <1>0, GateMoves
      DEF Gate, Goes, Returns, Others, SameLocals
  <1>20. ASSUME NEW t \in Threads, Register(t) PROVE SerialInv'
    <2>1. Returns(t) /\ next_map_serial' = next_map_serial
      BY <1>20, CallFacts DEF Register
    <2>2. \E c : requests' = Append(requests, c) /\ c.serial = call[t].serial
      BY <1>20 DEF Register, NewRequest, Ended
    <2>3. PICK c \in RequestSet : requests' = Append(requests, c) /\ c.serial = call[t].serial
      <3>1. requests' \in Seq(RequestSet)
        BY RequestsNext
      <3>2. QED
        BY <2>2, <3>1, <1>0
    <2>4. \A q \in DOMAIN requests' :
            \/ requests'[q].serial = call[t].serial
            \/ q \in DOMAIN requests /\ requests'[q] = requests[q]
      BY <2>3, <1>0, AppendFacts
    <2>5. QED
      BY <2>1, <2>4, <1>0 DEF Returns, Others
  <1>21. ASSUME NEW t \in Threads, Fire(t) PROVE SerialInv'
    BY <1>21, <1>0, CallFacts
      DEF Fire, CancelRequest, CancelPending, ClearMap, Report, Ended, Mine, Goes,
          Returns, Others, SameLocals
  <1>22. ASSUME NEW t \in Threads, ResolveTest(t) PROVE SerialInv'
    BY <1>22, <1>0, CallFacts
      DEF ResolveTest, Current, Report, Ended, Mine, Goes, Returns, Others, SameLocals
  <1>23. ASSUME NEW t \in Threads, ResolveMap(t) PROVE SerialInv'
    BY <1>23, <1>0, CallFacts
      DEF ResolveMap, Current, Report, Ended, Mine, Settle, Goes, Returns, Others,
          SameLocals
  <1>24. ASSUME NEW r \in DOMAIN requests, PollLost(r), PollFrame PROVE SerialInv'
    BY <1>24, <1>0
      DEF PollLost, CancelRequest, CancelPending, ClearMap, PollFrame
  <1>25. ASSUME NEW r \in DOMAIN requests, PollPassed(r), PollFrame PROVE SerialInv'
    BY <1>25, <1>0
      DEF PollPassed, PollFrame
  <1>26. ASSUME NEW r \in DOMAIN requests, PollFails(r), PollFrame PROVE SerialInv'
    BY <1>26, <1>0
      DEF PollFails, CancelRequest, CancelPending, ClearMap, PollFrame
  <1>27. ASSUME NEW r \in DOMAIN requests, Cancel(r), PollFrame PROVE SerialInv'
    BY <1>27, <1>0
      DEF Cancel, CancelRequest, CancelPending, ClearMap, Ended, PollFrame
  <1>28. CASE Complete
    BY <1>28, <1>0
      DEF Complete
  <1>29. CASE EndOfUse
    BY <1>29, <1>0
      DEF EndOfUse
  <1>30. CASE UNCHANGED vars
    BY <1>30, <1>0
      DEF vars
  <1>31. QED
    BY <1>1, <1>2, <1>3, <1>4, <1>5, <1>6, <1>7, <1>8, <1>9, <1>10, <1>11, <1>12, <1>13,
       <1>14, <1>15, <1>16, <1>17, <1>18, <1>19, <1>20, <1>21, <1>22, <1>23, <1>24, <1>25,
       <1>26, <1>27, <1>28, <1>29, <1>30, StepCases

LEMMA FireNext ==
  ASSUME Shape, FireInv, [Next]_vars
  PROVE  FireInv'
  <1> USE DEF request_vars, FireInv, Fires, At, Mine
  <1>0. /\ call \in [Threads -> Calls] /\ requests \in Seq(RequestSet)
    BY DEF Shape
  <1>1. ASSUME NEW t \in Threads, Unmap(t) PROVE FireInv'
    BY <1>1, <1>0, UnmapMoves
      DEF Unmap, ClearMap, EndPending, FlushHostMap, Goes, Returns, Others, SameLocals
  <1>2. ASSUME NEW t \in Threads, Destroy(t) PROVE FireInv'
    BY <1>2, <1>0
      DEF Destroy, ClearMap, EndPending
  <1>3. ASSUME NEW t \in Threads, Release(t) PROVE FireInv'
    BY <1>3, <1>0
      DEF Release, ClearMap, EndPending
  <1>4. ASSUME NEW t \in Threads, MappedRange(t) PROVE FireInv'
    BY <1>4, <1>0
      DEF MappedRange
  <1>5. ASSUME NEW t \in Threads, WriteMapped(t) PROVE FireInv'
    BY <1>5, <1>0
      DEF WriteMapped
  <1>6. ASSUME NEW t \in Threads, BeginWrite(t) PROVE FireInv'
    BY <1>6, <1>0, CallFacts
      DEF BeginWrite, Goes, Returns, Others, SameLocals
  <1>7. ASSUME NEW t \in Threads, BeginQueueCall(t) PROVE FireInv'
    BY <1>7, <1>0, CallFacts
      DEF BeginQueueCall, Goes, Returns, Others, SameLocals
  <1>8. ASSUME NEW t \in Threads, Lose(t) PROVE FireInv'
    BY <1>8, <1>0
      DEF Lose
  <1>9. ASSUME NEW t \in Threads, BeginMapAsync(t) PROVE FireInv'
    BY <1>9, <1>0, CallFacts
      DEF BeginMapAsync, Goes, Returns, Others, SameLocals
  <1>10. ASSUME NEW t \in Threads, Take(t) PROVE FireInv'
    <2>1. PICK r \in DOMAIN requests :
            /\ requests[r].phase = "ready"
            /\ requests' = [requests EXCEPT ![r].phase = "taken"]
            /\ Others(t) /\ call'[t].at = "fire" /\ call'[t].request = r
      BY <1>10, TakeMoves
    <2>2. /\ DOMAIN requests' = DOMAIN requests
          /\ requests'[r].phase = "taken"
          /\ \A q \in DOMAIN requests : q # r => requests'[q] = requests[q]
      BY <2>1, <1>0, ShapeFacts DEF RequestSet
    <2>3. ASSUME NEW u \in Threads \ {t}, Fires(u)
          PROVE  call'[u] = call[u] /\ call[u].request # r
      BY <2>1, <2>3 DEF Others
    <2>4. QED
      BY <2>1, <2>2, <2>3 DEF Others
  <1>11. ASSUME NEW t \in Threads, FreeHost(t) PROVE FireInv'
    BY <1>11, <1>0, CallFacts
      DEF FreeHost, Goes, Returns, Others, SameLocals
  <1>12. ASSUME NEW t \in Threads, Enter(t) PROVE FireInv'
    BY <1>12, <1>0, CallFacts
      DEF Enter, Flush, Goes, Returns, Others, SameLocals
  <1>13. ASSUME NEW t \in Threads, Stage(t) PROVE FireInv'
    BY <1>13, <1>0, CallFacts
      DEF Stage, Goes, Returns, Others, SameLocals
  <1>14. ASSUME NEW t \in Threads, Lower(t) PROVE FireInv'
    BY <1>14, <1>0, CallFacts
      DEF Lower, Goes, Returns, Others, SameLocals
  <1>15. ASSUME NEW t \in Threads, HalSubmit(t) PROVE FireInv'
    <2>1. /\ Others(t) /\ call'[t].at \notin {"fire", "resolve", "map"}
          /\ requests' = requests
      BY <1>15, HalSubmitMoves, CallFacts DEF HalSubmit, Returns, Goes
    <2>2. QED
      BY <2>1 DEF Others
  <1>16. ASSUME NEW t \in Threads, Record(t) PROVE FireInv'
    BY <1>16, <1>0, CallFacts
      DEF Record, Goes, Returns, Others, SameLocals
  <1>17. ASSUME NEW t \in Threads, BeginMap(t) PROVE FireInv'
    <2>1. /\ Others(t) /\ call'[t].at \notin {"fire", "resolve", "map"}
          /\ requests' = requests
      BY <1>17, BeginMapMoves DEF BeginMap, Returns
    <2>2. QED
      BY <2>1 DEF Others
  <1>18. ASSUME NEW t \in Threads, Abort(t) PROVE FireInv'
    <2>1. /\ Others(t) /\ call'[t].at \notin {"fire", "resolve", "map"}
          /\ requests' = requests
      BY <1>18, AbortMoves DEF Abort, Goes
    <2>2. QED
      BY <2>1 DEF Others
  <1>19. ASSUME NEW t \in Threads, Gate(t) PROVE FireInv'
    <2>1. /\ Others(t) /\ call'[t].at \notin {"fire", "resolve", "map"}
          /\ requests' = requests
      BY <1>19, GateMoves DEF Gate
    <2>2. QED
      BY <2>1 DEF Others
  <1>20. ASSUME NEW t \in Threads, Register(t) PROVE FireInv'
    <2>1. Returns(t)
      BY <1>20, CallFacts DEF Register
    <2>2. PICK c \in RequestSet : requests' = Append(requests, c)
      <3>1. requests' \in Seq(RequestSet)
        BY RequestsNext
      <3>2. \E c : requests' = Append(requests, c)
        BY <1>20 DEF Register
      <3>3. QED
        BY <3>1, <3>2, <1>0
    <2>3. \A q \in DOMAIN requests : q \in DOMAIN requests' /\ requests'[q] = requests[q]
      BY <2>2, <1>0, AppendFacts
    <2>4. QED
      BY <2>1, <2>3 DEF Returns, Others
  <1>21. ASSUME NEW t \in Threads, Fire(t) PROVE FireInv'
    BY <1>21, <1>0, CallFacts
      DEF Fire, CancelRequest, CancelPending, ClearMap, Report, Ended, Mine, Goes,
          Returns, Others, SameLocals
  <1>22. ASSUME NEW t \in Threads, ResolveTest(t) PROVE FireInv'
    BY <1>22, <1>0, CallFacts
      DEF ResolveTest, Current, Report, Ended, Mine, Goes, Returns, Others, SameLocals
  <1>23. ASSUME NEW t \in Threads, ResolveMap(t) PROVE FireInv'
    BY <1>23, <1>0, CallFacts
      DEF ResolveMap, Current, Report, Ended, Mine, Settle, Goes, Returns, Others,
          SameLocals
  <1>24. ASSUME NEW r \in DOMAIN requests, PollLost(r), PollFrame PROVE FireInv'
    BY <1>24, <1>0
      DEF PollLost, CancelRequest, CancelPending, ClearMap, PollFrame
  <1>25. ASSUME NEW r \in DOMAIN requests, PollPassed(r), PollFrame PROVE FireInv'
    BY <1>25, <1>0
      DEF PollPassed, PollFrame
  <1>26. ASSUME NEW r \in DOMAIN requests, PollFails(r), PollFrame PROVE FireInv'
    BY <1>26, <1>0
      DEF PollFails, CancelRequest, CancelPending, ClearMap, PollFrame
  <1>27. ASSUME NEW r \in DOMAIN requests, Cancel(r), PollFrame PROVE FireInv'
    BY <1>27, <1>0
      DEF Cancel, CancelRequest, CancelPending, ClearMap, Ended, PollFrame
  <1>28. CASE Complete
    BY <1>28, <1>0
      DEF Complete
  <1>29. CASE EndOfUse
    BY <1>29, <1>0
      DEF EndOfUse
  <1>30. CASE UNCHANGED vars
    BY <1>30, <1>0
      DEF vars
  <1>31. QED
    BY <1>1, <1>2, <1>3, <1>4, <1>5, <1>6, <1>7, <1>8, <1>9, <1>10, <1>11, <1>12, <1>13,
       <1>14, <1>15, <1>16, <1>17, <1>18, <1>19, <1>20, <1>21, <1>22, <1>23, <1>24, <1>25,
       <1>26, <1>27, <1>28, <1>29, <1>30, StepCases

\* While the buffer is pending or mapped, a step that starts quiet stays quiet,
\* and no new submission uses the buffer: validation refuses it.
LaterUses(k) == \A i \in DOMAIN gpu' : Uses(gpu'[i]) => i <= k

LEMMA QuietStays ==
  ASSUME Shape, LockInv, [Next]_vars, map_state # "unmapped", Quiet
  PROVE  Quiet' /\ \A k : UsesUpTo(k) => LaterUses(k)
  <1> DEFINE P == Quiet' /\ \A k : UsesUpTo(k) => LaterUses(k)
  <1> SUFFICES P OBVIOUS
  <1> USE DEF queue_vars, Quiet, UsesUpTo, LaterUses, Uses
  <1>0. /\ call \in [Threads -> Calls] /\ gpu \in Seq(Works) /\ carry \in Works
        /\ staged \in Nat
    BY DEF Shape
  <1>1. ASSUME NEW t \in Threads, Unmap(t) PROVE P
    BY <1>1, <1>0, UnmapMoves
      DEF Unmap, ClearMap, EndPending, FlushHostMap, At, Goes, Returns, Others, SameLocals
  <1>2. ASSUME NEW t \in Threads, Destroy(t) PROVE P
    BY <1>2, <1>0
      DEF Destroy, ClearMap, EndPending, At
  <1>3. ASSUME NEW t \in Threads, Release(t) PROVE P
    BY <1>3, <1>0
      DEF Release, ClearMap, EndPending, At
  <1>4. ASSUME NEW t \in Threads, MappedRange(t) PROVE P
    BY <1>4, <1>0
      DEF MappedRange, At
  <1>5. ASSUME NEW t \in Threads, WriteMapped(t) PROVE P
    BY <1>5, <1>0
      DEF WriteMapped, At
  <1>6. ASSUME NEW t \in Threads, BeginWrite(t) PROVE P
    BY <1>6, <1>0, CallFacts
      DEF BeginWrite, At, Goes, Returns, Others, SameLocals
  <1>7. ASSUME NEW t \in Threads, BeginQueueCall(t) PROVE P
    BY <1>7, <1>0, CallFacts
      DEF BeginQueueCall, At, Goes, Returns, Others, SameLocals
  <1>8. ASSUME NEW t \in Threads, Lose(t) PROVE P
    BY <1>8, <1>0
      DEF Lose, At
  <1>9. ASSUME NEW t \in Threads, BeginMapAsync(t) PROVE P
    BY <1>9, <1>0, CallFacts
      DEF BeginMapAsync, At, Goes, Returns, Others, SameLocals
  <1>10. ASSUME NEW t \in Threads, Take(t) PROVE P
    BY <1>10, <1>0, TakeMoves
      DEF Take, At, Goes, Returns, Others, SameLocals
  <1>11. ASSUME NEW t \in Threads, FreeHost(t) PROVE P
    BY <1>11, <1>0, CallFacts
      DEF FreeHost, At, Goes, Returns, Others, SameLocals
  <1>12. ASSUME NEW t \in Threads, Enter(t) PROVE P
    <2>1. ~Usable
      BY DEF Usable
    <2>2. staged' = 0 /\ gpu' = gpu
      BY <1>12 DEF Enter, Flush
    <2>3. \A l : Leave(t, l) => carry' = NoWork /\ (Returns(t) \/ Goes(t, l))
      BY CallFacts
    <2>4. \A l : Goto(t, l) => Goes(t, l)
      BY CallFacts
    <2>5. \/ carry' = NoWork /\ Returns(t)
          \/ carry' = NoWork /\ Goes(t, "gate")
          \/ carry' = NoWork /\ Goes(t, "idle")
          \/ ~Uses(carry') /\ Goes(t, "lower")
      BY <1>12, <2>1, <2>3, <2>4 DEF Enter, Flush
    <2>6. QED
      BY <2>2, <2>5, <1>0 DEF Goes, Returns, Others, At
  <1>13. ASSUME NEW t \in Threads, Stage(t) PROVE P
    BY <1>13, <1>0, CallFacts
      DEF Stage, At, Goes, Returns, Others, SameLocals
  <1>14. ASSUME NEW t \in Threads, Lower(t) PROVE P
    <2>1. carry = NoWork /\ staged = 0 /\ NoWork.write = 0
      BY DEF NoWork
    <2>2. [NoWork EXCEPT !.write = 0] = NoWork
      BY DEF NoWork
    <2>3. /\ carry' = NoWork /\ staged' = 0 /\ gpu' = gpu
      BY <1>14, <2>1, <2>2 DEF Lower
    <2>4. Goes(t, "hal_submit")
      BY <1>14, CallFacts DEF Lower
    <2>5. QED
      BY <2>3, <2>4, <1>0 DEF Goes, Others, At
  <1>15. ASSUME NEW t \in Threads, HalSubmit(t) PROVE P
    BY <1>15, <1>0, CallFacts, HalSubmitMoves
      DEF HalSubmit, At, Goes, Returns, Others, SameLocals
  <1>16. ASSUME NEW t \in Threads, Record(t) PROVE P
    BY <1>16, <1>0, CallFacts
      DEF Record, At, Goes, Returns, Others, SameLocals
  <1>17. ASSUME NEW t \in Threads, BeginMap(t) PROVE P
    BY <1>17, <1>0, BeginMapMoves
      DEF BeginMap, At, Goes, Returns, Others, SameLocals
  <1>18. ASSUME NEW t \in Threads, Abort(t) PROVE P
    BY <1>18, <1>0, AbortMoves
      DEF Abort, At, Goes, Returns, Others, SameLocals
  <1>19. ASSUME NEW t \in Threads, Gate(t) PROVE P
    BY <1>19, <1>0, GateMoves
      DEF Gate, At, Goes, Returns, Others, SameLocals
  <1>20. ASSUME NEW t \in Threads, Register(t) PROVE P
    BY <1>20, <1>0, CallFacts
      DEF Register, NewRequest, Ended, CancelPending, ClearMap, At, Goes, Returns,
          Others, SameLocals
  <1>21. ASSUME NEW t \in Threads, Fire(t) PROVE P
    BY <1>21, <1>0, CallFacts
      DEF Fire, CancelRequest, CancelPending, ClearMap, Report, Ended, Mine, At, Goes,
          Returns, Others, SameLocals
  <1>22. ASSUME NEW t \in Threads, ResolveTest(t) PROVE P
    BY <1>22, <1>0, CallFacts
      DEF ResolveTest, Current, Report, Ended, Mine, At, Goes, Returns, Others, SameLocals
  <1>23. ASSUME NEW t \in Threads, ResolveMap(t) PROVE P
    BY <1>23, <1>0, CallFacts
      DEF ResolveMap, Current, Report, Ended, Mine, Settle, At, Goes, Returns, Others,
          SameLocals
  <1>24. ASSUME NEW r \in DOMAIN requests, PollLost(r), PollFrame PROVE P
    BY <1>24, <1>0
      DEF PollLost, CancelRequest, CancelPending, ClearMap, At, PollFrame
  <1>25. ASSUME NEW r \in DOMAIN requests, PollPassed(r), PollFrame PROVE P
    BY <1>25, <1>0
      DEF PollPassed, At, PollFrame
  <1>26. ASSUME NEW r \in DOMAIN requests, PollFails(r), PollFrame PROVE P
    BY <1>26, <1>0
      DEF PollFails, CancelRequest, CancelPending, ClearMap, At, PollFrame
  <1>27. ASSUME NEW r \in DOMAIN requests, Cancel(r), PollFrame PROVE P
    BY <1>27, <1>0
      DEF Cancel, CancelRequest, CancelPending, ClearMap, Ended, At, PollFrame
  <1>28. CASE Complete
    BY <1>28, <1>0
      DEF Complete, At
  <1>29. CASE EndOfUse
    BY <1>29, <1>0
      DEF EndOfUse, At
  <1>30. CASE UNCHANGED vars
    BY <1>30, <1>0
      DEF vars, At
  <1>31. QED
    BY <1>1, <1>2, <1>3, <1>4, <1>5, <1>6, <1>7, <1>8, <1>9, <1>10, <1>11, <1>12, <1>13,
       <1>14, <1>15, <1>16, <1>17, <1>18, <1>19, <1>20, <1>21, <1>22, <1>23, <1>24, <1>25,
       <1>26, <1>27, <1>28, <1>29, <1>30, StepCases

\* The ways in which a step may carry the claim of GateInv from one holder to the
\* next: the state of the buffer, a call, a request.
StateStep ==
  /\ misreported => misreported'
  /\ done <= done' /\ latest <= latest'
  /\ map_state' = "mapped" =>
       map_state = "mapped" \/ (~misreported => map_state = "pending" /\ Gated(done))
  /\ map_state' = "pending" => map_state = "pending" /\ pending_map' = pending_map

CallStep(t) ==
  \/ call'[t].at \notin {"gate", "register"}
  \/ map_state' = "pending" => call'[t].serial # pending_map'.serial
  \/ /\ call'[t].at = call[t].at /\ call'[t].serial = call[t].serial
     /\ call'[t].index = call[t].index
  \/ call'[t].at = "gate" /\ (~misreported' => Quiet' /\ LaterUses(latest'))
  \/ /\ call[t].at = "gate" /\ call'[t].at = "register"
     /\ call'[t].index = latest /\ call'[t].serial = call[t].serial

RequestStep(r) ==
  \/ ~requests'[r].buffer
  \/ map_state' = "pending" => requests'[r].serial # pending_map'.serial
  \/ /\ r \in DOMAIN requests /\ requests[r].buffer
     /\ requests'[r].serial = requests[r].serial
     /\ \/ requests'[r].phase = requests[r].phase /\ requests'[r].gate = requests[r].gate
        \/ /\ requests[r].phase = "waiting" /\ requests'[r].phase = "ready"
           /\ requests[r].gate <= done
        \/ requests[r].phase = "ready" /\ requests'[r].phase = "taken"
  \/ \E t \in Threads :
       /\ call[t].at = "register" /\ requests'[r].serial = call[t].serial
       /\ requests'[r].phase = "waiting" /\ requests'[r].gate = call[t].index

\* A bound that covers the uses covers them when it grows.
LEMMA UsesGrow ==
  ASSUME Shape, Shape', NEW k \in Nat, NEW m \in Nat, k <= m, LaterUses(k)
  PROVE  LaterUses(m)
  <1>1. DOMAIN gpu' \subseteq Nat
    BY DEF Shape
  <1>2. QED
    BY <1>1 DEF LaterUses

LEMMA GateFrame ==
  ASSUME Shape, Shape', LockInv, GateInv, [Next]_vars, StateStep,
         \A t \in Threads : CallStep(t), \A r \in DOMAIN requests' : RequestStep(r)
  PROVE  GateInv'
  <1> SUFFICES ASSUME ~misreported' PROVE
        /\ map_state' = "mapped" => Quiet' /\ LaterUses(done')
        /\ map_state' = "pending" =>
             /\ \A t \in Threads : call'[t].serial = pending_map'.serial =>
                  /\ call'[t].at = "gate" => Quiet' /\ LaterUses(latest')
                  /\ call'[t].at = "register" => Quiet' /\ LaterUses(call'[t].index)
             /\ \A r \in DOMAIN requests' :
                  requests'[r].serial = pending_map'.serial /\ requests'[r].buffer =>
                    /\ requests'[r].phase = "waiting" => Quiet' /\ LaterUses(requests'[r].gate)
                    /\ requests'[r].phase \in {"ready", "taken"} => Quiet' /\ LaterUses(done')
    BY DEF GateInv, Gated, UsesUpTo, LaterUses, At
  <1>0. /\ ~misreported /\ done <= done' /\ latest <= latest'
        /\ done \in Nat /\ done' \in Nat /\ latest \in Nat /\ latest' \in Nat
    BY DEF StateStep, Shape
  <1>1. \A k \in Nat : map_state # "unmapped" /\ Gated(k) => Quiet' /\ LaterUses(k)
    BY QuietStays DEF Gated
  <1>2. \A k, m \in Nat : map_state # "unmapped" /\ Gated(k) /\ k <= m => Quiet' /\ LaterUses(m)
    BY <1>1, UsesGrow
  <1>3. ASSUME map_state' = "mapped" PROVE Quiet' /\ LaterUses(done')
    <2>1. map_state # "unmapped" /\ Gated(done)
      BY <1>0, <1>3 DEF StateStep, GateInv
    <2>2. QED
      BY <2>1, <1>0, <1>2
  <1>4. ASSUME map_state' = "pending", NEW t \in Threads,
               call'[t].serial = pending_map'.serial
        PROVE  /\ call'[t].at = "gate" => Quiet' /\ LaterUses(latest')
               /\ call'[t].at = "register" => Quiet' /\ LaterUses(call'[t].index)
    <2>1. map_state = "pending" /\ pending_map' = pending_map /\ CallStep(t)
      BY <1>4 DEF StateStep
    <2>2. CASE /\ call'[t].at = call[t].at /\ call'[t].serial = call[t].serial
               /\ call'[t].index = call[t].index
      <3>1. /\ call'[t].at = "gate" => Gated(latest)
            /\ call'[t].at = "register" => Gated(call'[t].index)
        BY <2>1, <2>2, <1>0, <1>4 DEF GateInv, At
      <3>2. call'[t].index \in Nat
        BY <2>2, ShapeFacts DEF Calls
      <3>3. QED
        BY <3>1, <3>2, <2>1, <1>0, <1>1, <1>2
    <2>3. CASE /\ call[t].at = "gate" /\ call'[t].at = "register"
               /\ call'[t].index = latest /\ call'[t].serial = call[t].serial
      <3>1. Gated(latest)
        BY <2>1, <2>3, <1>0, <1>4 DEF GateInv, At
      <3>2. QED
        BY <3>1, <2>1, <2>3, <1>0, <1>1
    <2>4. QED
      BY <2>1, <2>2, <2>3, <1>4 DEF CallStep
  <1>5. ASSUME map_state' = "pending", NEW r \in DOMAIN requests',
               requests'[r].serial = pending_map'.serial, requests'[r].buffer
        PROVE  /\ requests'[r].phase = "waiting" => Quiet' /\ LaterUses(requests'[r].gate)
               /\ requests'[r].phase \in {"ready", "taken"} => Quiet' /\ LaterUses(done')
    <2>1. map_state = "pending" /\ pending_map' = pending_map /\ RequestStep(r)
      BY <1>5 DEF StateStep
    <2>2. CASE r \in DOMAIN requests /\ requests[r].buffer
               /\ requests'[r].serial = requests[r].serial
               /\ \/ requests'[r].phase = requests[r].phase /\ requests'[r].gate = requests[r].gate
                  \/ /\ requests[r].phase = "waiting" /\ requests'[r].phase = "ready"
                     /\ requests[r].gate <= done
                  \/ requests[r].phase = "ready" /\ requests'[r].phase = "taken"
      <3>1. requests[r].gate \in Nat
        BY <2>2, ShapeFacts DEF RequestSet
      <3>2. /\ requests[r].phase = "waiting" => Gated(requests[r].gate)
            /\ requests[r].phase \in {"ready", "taken"} => Gated(done)
        BY <2>1, <2>2, <1>0, <1>5 DEF GateInv
      <3>3. requests[r].gate <= done => requests[r].gate <= done'
        BY <3>1, <1>0
      <3>4. QED
        BY <3>1, <3>2, <3>3, <2>1, <2>2, <1>0, <1>1, <1>2
    <2>3. ASSUME NEW t \in Threads, call[t].at = "register",
                 requests'[r].serial = call[t].serial,
                 requests'[r].phase = "waiting", requests'[r].gate = call[t].index
          PROVE  Quiet' /\ LaterUses(requests'[r].gate)
      <3>1. Gated(call[t].index)
        BY <2>1, <2>3, <1>0, <1>5 DEF GateInv, At
      <3>2. call[t].index \in Nat
        BY ShapeFacts DEF Calls
      <3>3. QED
        BY <3>1, <3>2, <2>1, <2>3, <1>1
    <2>4. QED
      BY <2>1, <2>2, <2>3, <1>5 DEF RequestStep
  <1>6. QED
    BY <1>3, <1>4, <1>5

\* After an abort by serial, what is pending, if anything, has another serial.
LEMMA CancelFacts ==
  ASSUME AgreeInv, NEW s, CancelPending(s)
  PROVE  /\ map_state' = "mapped" => map_state = "mapped"
         /\ map_state' = "pending" => /\ map_state = "pending" /\ pending_map' = pending_map
                                      /\ pending_map'.serial # s
  BY DEF AgreeInv, StateAgrees, CancelPending, ClearMap, state_vars

\* A callback that ran keeps no buffer.
LEMMA ReportFacts ==
  ASSUME Shape, FireInv, NEW t \in Threads, Fires(t), NEW o, Report(t, o)
  PROVE  /\ DOMAIN requests' = DOMAIN requests /\ Returns(t)
         /\ ~requests'[call[t].request].buffer
         /\ \A q \in DOMAIN requests : q # call[t].request => requests'[q] = requests[q]
  <1>1. call[t].request \in DOMAIN requests
    BY DEF FireInv
  <1>2. requests' = [requests EXCEPT ![call[t].request] = Ended(@.serial, o)] /\ Return(t)
    BY DEF Report
  <1>3. requests \in Seq(RequestSet) /\ \A s : ~Ended(s, o).buffer
    BY DEF Shape, Ended
  <1>4. QED
    BY <1>1, <1>2, <1>3, CallFacts

\* The claim is carried by every step: from the flush to the gate, from the gate
\* to the request, from the poll to the mapping.
LEMMA GateNext ==
  ASSUME Shape, Shape', AgreeInv, LockInv, SerialInv, FireInv, GateInv, [Next]_vars
  PROVE  GateInv'
  <1> USE DEF state_vars, queue_vars, gpu_vars, error_vars, request_vars, life_vars,
              AgreeInv, StateAgrees
  <1>0. /\ call \in [Threads -> Calls] /\ requests \in Seq(RequestSet)
        /\ done \in Nat /\ latest \in Nat
    BY DEF Shape
  <1>01. pending_map # NoMap <=> map_state = "pending"
    OBVIOUS
  <1>1. ASSUME NEW t \in Threads, Unmap(t) PROVE GateInv'
    <2>1. StateStep
      BY <1>1, <1>0 DEF Unmap, ClearMap, StateStep
    <2>2. \A u \in Threads : CallStep(u)
      BY <1>1, UnmapMoves DEF Unmap, CallStep, Others, Goes, SameLocals, Returns
    <2>3. \A q \in DOMAIN requests' : RequestStep(q)
      BY <1>1 DEF Unmap, ClearMap, RequestStep
    <2>4. QED
      BY <2>1, <2>2, <2>3, GateFrame
  <1>2. ASSUME NEW t \in Threads, Destroy(t) PROVE GateInv'
    <2>1. StateStep
      BY <1>2, <1>0 DEF Destroy, ClearMap, StateStep
    <2>2. \A u \in Threads : CallStep(u)
      BY <1>2 DEF Destroy, ClearMap, CallStep
    <2>3. \A q \in DOMAIN requests' : RequestStep(q)
      BY <1>2 DEF Destroy, ClearMap, RequestStep
    <2>4. QED
      BY <2>1, <2>2, <2>3, GateFrame
  <1>3. ASSUME NEW t \in Threads, Release(t) PROVE GateInv'
    <2>1. StateStep
      BY <1>3, <1>0 DEF Release, ClearMap, StateStep
    <2>2. \A u \in Threads : CallStep(u)
      BY <1>3 DEF Release, ClearMap, CallStep
    <2>3. \A q \in DOMAIN requests' : RequestStep(q)
      BY <1>3 DEF Release, ClearMap, RequestStep
    <2>4. QED
      BY <2>1, <2>2, <2>3, GateFrame
  <1>4. ASSUME NEW t \in Threads, MappedRange(t) PROVE GateInv'
    <2>1. StateStep
      BY <1>4, <1>0 DEF MappedRange, StateStep
    <2>2. \A u \in Threads : CallStep(u)
      BY <1>4 DEF MappedRange, CallStep
    <2>3. \A q \in DOMAIN requests' : RequestStep(q)
      BY <1>4 DEF MappedRange, RequestStep
    <2>4. QED
      BY <2>1, <2>2, <2>3, GateFrame
  <1>5. ASSUME NEW t \in Threads, WriteMapped(t) PROVE GateInv'
    <2>1. StateStep
      BY <1>5, <1>0 DEF WriteMapped, StateStep
    <2>2. \A u \in Threads : CallStep(u)
      BY <1>5 DEF WriteMapped, CallStep
    <2>3. \A q \in DOMAIN requests' : RequestStep(q)
      BY <1>5 DEF WriteMapped, RequestStep
    <2>4. QED
      BY <2>1, <2>2, <2>3, GateFrame
  <1>6. ASSUME NEW t \in Threads, BeginWrite(t) PROVE GateInv'
    <2>1. StateStep
      BY <1>6, <1>0 DEF BeginWrite, StateStep
    <2>2. \A u \in Threads : CallStep(u)
      BY <1>6, CallFacts DEF BeginWrite, CallStep, Others, Goes, SameLocals, Returns
    <2>3. \A q \in DOMAIN requests' : RequestStep(q)
      BY <1>6 DEF BeginWrite, RequestStep
    <2>4. QED
      BY <2>1, <2>2, <2>3, GateFrame
  <1>7. ASSUME NEW t \in Threads, BeginQueueCall(t) PROVE GateInv'
    <2>1. StateStep
      BY <1>7, <1>0 DEF BeginQueueCall, StateStep
    <2>2. \A u \in Threads : CallStep(u)
      BY <1>7, CallFacts DEF BeginQueueCall, CallStep, Others, Goes, SameLocals, Returns
    <2>3. \A q \in DOMAIN requests' : RequestStep(q)
      BY <1>7 DEF BeginQueueCall, RequestStep
    <2>4. QED
      BY <2>1, <2>2, <2>3, GateFrame
  <1>8. ASSUME NEW t \in Threads, Lose(t) PROVE GateInv'
    <2>1. StateStep
      BY <1>8, <1>0 DEF Lose, StateStep
    <2>2. \A u \in Threads : CallStep(u)
      BY <1>8 DEF Lose, CallStep
    <2>3. \A q \in DOMAIN requests' : RequestStep(q)
      BY <1>8 DEF Lose, RequestStep
    <2>4. QED
      BY <2>1, <2>2, <2>3, GateFrame
  <1>9. ASSUME NEW t \in Threads, BeginMapAsync(t) PROVE GateInv'
    <2>1. StateStep
      BY <1>9, <1>0 DEF BeginMapAsync, StateStep
    <2>2. \A u \in Threads : CallStep(u)
      BY <1>9, CallFacts DEF BeginMapAsync, CallStep, Others, Goes, SameLocals, Returns
    <2>3. \A q \in DOMAIN requests' : RequestStep(q)
      BY <1>9 DEF BeginMapAsync, RequestStep
    <2>4. QED
      BY <2>1, <2>2, <2>3, GateFrame
  <1>10. ASSUME NEW t \in Threads, Take(t) PROVE GateInv'
    <2>1. StateStep
      BY <1>10, <1>0 DEF Take, StateStep
    <2>2. \A u \in Threads : CallStep(u)
      BY <1>10, CallFacts DEF Take, CallStep, Others, Goes, SameLocals, Returns
    <2>3. \A q \in DOMAIN requests' : RequestStep(q)
      BY <1>10 DEF Take, RequestStep
    <2>4. QED
      BY <2>1, <2>2, <2>3, GateFrame
  <1>11. ASSUME NEW t \in Threads, FreeHost(t) PROVE GateInv'
    <2>1. StateStep
      BY <1>11, <1>0 DEF FreeHost, StateStep
    <2>2. \A u \in Threads : CallStep(u)
      BY <1>11, CallFacts DEF FreeHost, CallStep, Others, Goes, SameLocals, Returns
    <2>3. \A q \in DOMAIN requests' : RequestStep(q)
      BY <1>11 DEF FreeHost, RequestStep
    <2>4. QED
      BY <2>1, <2>2, <2>3, GateFrame
  <1>12. ASSUME NEW t \in Threads, Enter(t) PROVE GateInv'
    <2>1. StateStep
      BY <1>12, <1>0 DEF Enter, StateStep
    <2>2. \A u \in Threads : CallStep(u)
      <3>1. ASSUME ~misreported', call'[t].at = "gate"
            PROVE  Quiet' /\ LaterUses(latest')
        <4>1. \A l : Leave(t, l) => carry' = NoWork /\ (Returns(t) \/ Goes(t, l))
          BY CallFacts
        <4>2. \A l : Goto(t, l) => Goes(t, l)
          BY CallFacts
        <4>3. Leave(t, "gate") /\ staged' = 0
          BY <1>12, <3>1, <4>1, <4>2 DEF Enter, Flush, LockInv, Goes, Returns
        <4>4. \A u \in Threads : ~Inside(u)
          BY <1>12, <1>0, MapGateAssumption DEF Enter, LockInv
        <4>5. /\ \A u \in Threads : call'[u].at # "stage"
              /\ Len(gpu) <= latest /\ gpu' = gpu /\ latest' = latest
          BY <1>12, <3>1, <4>1, <4>3, <4>4 DEF Enter, LockInv, Inside, At, Goes,
             Returns, Others
        <4>6. QED
          BY <4>1, <4>3, <4>5, <1>0, ShapeFacts DEF Quiet, Uses, LaterUses, At
      <3>2. Others(t)
        BY <1>12, CallFacts DEF Enter, Flush, Goes, Returns
      <3>3. QED
        <4>1. call'[t].at # "register"
          BY <1>12, CallFacts DEF Enter, Flush, Goes, Returns
        <4>2. QED
          BY <3>1, <3>2, <4>1 DEF CallStep, Others
    <2>3. \A q \in DOMAIN requests' : RequestStep(q)
      BY <1>12 DEF Enter, RequestStep
    <2>4. QED
      BY <2>1, <2>2, <2>3, GateFrame
  <1>13. ASSUME NEW t \in Threads, Stage(t) PROVE GateInv'
    <2>1. StateStep
      BY <1>13, <1>0 DEF Stage, StateStep
    <2>2. \A u \in Threads : CallStep(u)
      BY <1>13, CallFacts DEF Stage, CallStep, Others, Goes, SameLocals, Returns
    <2>3. \A q \in DOMAIN requests' : RequestStep(q)
      BY <1>13 DEF Stage, RequestStep
    <2>4. QED
      BY <2>1, <2>2, <2>3, GateFrame
  <1>14. ASSUME NEW t \in Threads, Lower(t) PROVE GateInv'
    <2>1. StateStep
      BY <1>14, <1>0 DEF Lower, StateStep
    <2>2. \A u \in Threads : CallStep(u)
      BY <1>14, CallFacts DEF Lower, CallStep, Others, Goes, SameLocals, Returns
    <2>3. \A q \in DOMAIN requests' : RequestStep(q)
      BY <1>14 DEF Lower, RequestStep
    <2>4. QED
      BY <2>1, <2>2, <2>3, GateFrame
  <1>15. ASSUME NEW t \in Threads, HalSubmit(t) PROVE GateInv'
    <2>1. StateStep
      BY <1>15, <1>0 DEF HalSubmit, StateStep
    <2>2. \A u \in Threads : CallStep(u)
      <3>1. Others(t) /\ call'[t].at \notin {"gate", "register"}
        BY <1>15, CallFacts, HalSubmitMoves DEF HalSubmit, Goes, Returns
      <3>2. QED
        BY <3>1 DEF CallStep, Others
    <2>3. \A q \in DOMAIN requests' : RequestStep(q)
      BY <1>15 DEF HalSubmit, RequestStep
    <2>4. QED
      BY <2>1, <2>2, <2>3, GateFrame
  <1>16. ASSUME NEW t \in Threads, Record(t) PROVE GateInv'
    <2>1. StateStep
      <3>1. call[t].index \in Nat
        BY ShapeFacts DEF Calls
      <3>2. latest <= latest'
        BY <1>16, <1>0, <3>1 DEF Record
      <3>3. QED
        BY <1>16, <1>0, <3>2 DEF Record, StateStep
    <2>2. \A u \in Threads : CallStep(u)
      <3>1. /\ Others(t) /\ (call'[t].at = "gate" \/ call'[t].at = "idle")
            /\ carry' = NoWork /\ gpu' = gpu /\ staged' = staged
        BY <1>16, CallFacts DEF Record, Goes, Returns
      <3>2. /\ staged = 0 /\ call[t].index = Len(gpu)
            /\ \A u \in Threads : u # t => ~Inside(u)
        BY <1>16, <1>0 DEF Record, LockInv, At, Inside
      <3>3. Len(gpu) <= latest' /\ Len(gpu) \in Nat /\ latest' \in Nat
        BY <1>16, <3>2, <1>0, ShapeFacts DEF Record
      <3>4. Quiet' /\ LaterUses(latest')
        BY <3>1, <3>2, <3>3, ShapeFacts DEF Quiet, Uses, LaterUses, At, Inside, Others
      <3>5. QED
        BY <3>1, <3>4 DEF CallStep, Others
    <2>3. \A q \in DOMAIN requests' : RequestStep(q)
      BY <1>16 DEF Record, RequestStep
    <2>4. QED
      BY <2>1, <2>2, <2>3, GateFrame
  <1>17. ASSUME NEW t \in Threads, BeginMap(t) PROVE GateInv'
    <2>1. CASE Mappable /\ next_map_serial < MaxMaps
      <3>1. /\ map_state' = "pending" /\ pending_map'.serial = next_map_serial + 1
            /\ requests' = requests
        BY <1>17, <2>1 DEF BeginMap
      <3>2. /\ Others(t) /\ call'[t].at = "enter"
        BY <1>17, <2>1, BeginMapMoves
      <3>3. next_map_serial \in Nat
        BY DEF Shape
      <3>4. ASSUME NEW u \in Threads, call'[u].serial = pending_map'.serial PROVE u = t
        <4>1. call[u].serial \in Nat /\ call[u].serial <= next_map_serial
          BY ShapeFacts DEF Calls, SerialInv
        <4>2. QED
          BY <4>1, <3>1, <3>2, <3>3, <3>4 DEF Others
      <3>5. ASSUME NEW r \in DOMAIN requests' PROVE requests'[r].serial # pending_map'.serial
        <4>1. requests[r].serial \in Nat /\ requests[r].serial <= next_map_serial
          BY <3>1, <3>5, ShapeFacts DEF RequestSet, SerialInv
        <4>2. QED
          BY <4>1, <3>1, <3>3
      <3>6. QED
        BY <3>1, <3>2, <3>4, <3>5 DEF GateInv, At
    <2>2. CASE ~(Mappable /\ next_map_serial < MaxMaps)
      <3>1. StateStep
        BY <1>17, <2>2, <1>0 DEF BeginMap, StateStep
      <3>2. \A u \in Threads : CallStep(u)
        BY <1>17, <2>2, BeginMapMoves DEF CallStep, Others, Returns
      <3>3. \A q \in DOMAIN requests' : RequestStep(q)
        BY <1>17 DEF BeginMap, RequestStep
      <3>4. QED
        BY <3>1, <3>2, <3>3, GateFrame
    <2>3. QED
      BY <2>1, <2>2
  <1>18. ASSUME NEW t \in Threads, Abort(t) PROVE GateInv'
    <2>1. StateStep
      <3>1. /\ map_state' = "mapped" => map_state = "mapped"
            /\ map_state' = "pending" => map_state = "pending" /\ pending_map' = pending_map
        BY <1>18, CancelFacts DEF Abort, CancelRequest
      <3>2. UNCHANGED <<misreported, done, latest>>
        BY <1>18 DEF Abort
      <3>3. QED
        BY <3>1, <3>2, <1>0 DEF StateStep
    <2>2. \A u \in Threads : CallStep(u)
      <3>1. Goes(t, "gate")
        BY <1>18, AbortMoves
      <3>2. map_state' = "pending" => call'[t].serial # pending_map'.serial
        BY <1>18, <3>1, CancelFacts DEF Abort, Goes, SameLocals
      <3>3. QED
        BY <3>1, <3>2 DEF CallStep, Goes, Others
    <2>3. \A q \in DOMAIN requests' : RequestStep(q)
      BY <1>18 DEF Abort, RequestStep
    <2>4. QED
      BY <2>1, <2>2, <2>3, GateFrame
  <1>19. ASSUME NEW t \in Threads, Gate(t) PROVE GateInv'
    <2>1. StateStep
      BY <1>19, <1>0 DEF Gate, StateStep
    <2>2. \A u \in Threads : CallStep(u)
      BY <1>19, GateMoves DEF Gate, At, CallStep, Others
    <2>3. \A q \in DOMAIN requests' : RequestStep(q)
      BY <1>19 DEF Gate, RequestStep
    <2>4. QED
      BY <2>1, <2>2, <2>3, GateFrame
  <1>20. ASSUME NEW t \in Threads, Register(t) PROVE GateInv'
    <2>1. StateStep
      <3>1. /\ map_state' = "mapped" => map_state = "mapped"
            /\ map_state' = "pending" => map_state = "pending" /\ pending_map' = pending_map
        BY <1>20, CancelFacts DEF Register, CancelRequest
      <3>2. UNCHANGED <<misreported, done, latest>>
        BY <1>20 DEF Register
      <3>3. QED
        BY <3>1, <3>2, <1>0 DEF StateStep
    <2>2. \A u \in Threads : CallStep(u)
      BY <1>20, CallFacts DEF Register, CallStep, Others, Goes, SameLocals, Returns
    <2>3. \A q \in DOMAIN requests' : RequestStep(q)
      <3>1. call[t].at = "register" /\ requests' \in Seq(RequestSet)
        BY <1>20 DEF Register, At, Shape
      <3>2. \E c : /\ requests' = Append(requests, c)
                  /\ \/ ~c.buffer
                     \/ /\ c.serial = call[t].serial /\ c.phase = "waiting"
                        /\ c.gate = call[t].index
        BY <1>20 DEF Register, NewRequest, Ended
      <3>3. PICK c \in RequestSet :
                  /\ requests' = Append(requests, c)
                  /\ \/ ~c.buffer
                     \/ /\ c.serial = call[t].serial /\ c.phase = "waiting"
                        /\ c.gate = call[t].index
        BY <3>1, <3>2, <1>0
      <3>4. ASSUME NEW q \in DOMAIN requests' PROVE RequestStep(q)
        <4>1. requests'[q] = c \/ (q \in DOMAIN requests /\ requests'[q] = requests[q])
          BY <3>3, <1>0, AppendFacts
        <4>2. QED
          BY <4>1, <3>1, <3>3 DEF RequestStep
      <3>5. QED
        BY <3>4
    <2>4. QED
      BY <2>1, <2>2, <2>3, GateFrame
  <1>21. ASSUME NEW t \in Threads, Fire(t) PROVE GateInv'
    <2>1. StateStep
      <3>1. /\ map_state' = "mapped" => map_state = "mapped"
            /\ map_state' = "pending" => map_state = "pending" /\ pending_map' = pending_map
        BY <1>21, CancelFacts DEF Fire, CancelRequest
      <3>2. UNCHANGED <<misreported, done, latest>>
        BY <1>21 DEF Fire
      <3>3. QED
        BY <3>1, <3>2, <1>0 DEF StateStep
    <2>2. \A u \in Threads : CallStep(u)
      <3>1. Fires(t)
        BY <1>21 DEF Fire, Fires, At
      <3>2. Others(t) /\ call'[t].at \notin {"gate", "register"}
        BY <1>21, <3>1, CallFacts, ReportFacts DEF Fire, Goes, Returns
      <3>3. QED
        BY <3>2 DEF CallStep, Others
    <2>3. \A q \in DOMAIN requests' : RequestStep(q)
      <3>1. Fires(t)
        BY <1>21 DEF Fire, Fires, At
      <3>2. requests' = requests \/ \E o : Report(t, o)
        BY <1>21 DEF Fire
      <3>3. QED
        BY <3>1, <3>2, ReportFacts DEF RequestStep
    <2>4. QED
      BY <2>1, <2>2, <2>3, GateFrame
  <1>22. ASSUME NEW t \in Threads, ResolveTest(t) PROVE GateInv'
    <2>1. StateStep
      BY <1>22, <1>0 DEF ResolveTest, StateStep
    <2>2. \A u \in Threads : CallStep(u)
      <3>1. Fires(t)
        BY <1>22 DEF ResolveTest, Fires, At
      <3>2. Others(t) /\ call'[t].at \notin {"gate", "register"}
        BY <1>22, <3>1, CallFacts, ReportFacts DEF ResolveTest, Goes, Returns
      <3>3. QED
        BY <3>2 DEF CallStep, Others
    <2>3. \A q \in DOMAIN requests' : RequestStep(q)
      <3>1. Fires(t)
        BY <1>22 DEF ResolveTest, Fires, At
      <3>2. requests' = requests \/ \E o : Report(t, o)
        BY <1>22 DEF ResolveTest
      <3>3. QED
        BY <3>1, <3>2, ReportFacts DEF RequestStep
    <2>4. QED
      BY <2>1, <2>2, <2>3, GateFrame
  <1>23. ASSUME NEW t \in Threads, ResolveMap(t) PROVE GateInv'
    <2>1. StateStep
      <3>1. UNCHANGED <<misreported, done, latest>>
        BY <1>23 DEF ResolveMap
      <3>2. map_state' # "pending" \/ UNCHANGED state_vars
        BY <1>23 DEF ResolveMap, Settle
      <3>3. ASSUME map_state' = "mapped", ~misreported, map_state # "mapped"
            PROVE  map_state = "pending" /\ Gated(done)
        <4>1. Current(t)
          BY <1>23, <3>3 DEF ResolveMap
        <4>2. /\ call[t].request \in DOMAIN requests
              /\ Mine(t).phase = "taken" /\ Mine(t).buffer
          BY <1>23 DEF ResolveMap, FireInv, Fires, At
        <4>3. QED
          BY <4>1, <4>2, <3>3, <1>01 DEF Current, GateInv, Mine
      <3>4. QED
        BY <3>1, <3>2, <3>3, <1>0 DEF StateStep
    <2>2. \A u \in Threads : CallStep(u)
      <3>1. Fires(t)
        BY <1>23 DEF ResolveMap, Fires, At
      <3>2. Others(t) /\ call'[t].at \notin {"gate", "register"}
        BY <1>23, <3>1, CallFacts, ReportFacts DEF ResolveMap, Settle, Goes, Returns
      <3>3. QED
        BY <3>2 DEF CallStep, Others
    <2>3. \A q \in DOMAIN requests' : RequestStep(q)
      <3>1. Fires(t)
        BY <1>23 DEF ResolveMap, Fires, At
      <3>2. requests' = requests \/ \E o : Report(t, o)
        BY <1>23 DEF ResolveMap, Settle
      <3>3. QED
        BY <3>1, <3>2, ReportFacts DEF RequestStep
    <2>4. QED
      BY <2>1, <2>2, <2>3, GateFrame
  <1>24. ASSUME NEW r \in DOMAIN requests, PollLost(r), PollFrame PROVE GateInv'
    <2>1. StateStep
      <3>1. /\ map_state' = "mapped" => map_state = "mapped"
            /\ map_state' = "pending" => map_state = "pending" /\ pending_map' = pending_map
        BY <1>24, CancelFacts DEF PollLost, CancelRequest
      <3>2. UNCHANGED <<misreported, done, latest>>
        BY <1>24 DEF PollFrame, PollLost
      <3>3. QED
        BY <3>1, <3>2, <1>0 DEF StateStep
    <2>2. \A u \in Threads : CallStep(u)
      BY <1>24 DEF PollFrame, PollLost, CallStep
    <2>3. \A q \in DOMAIN requests' : RequestStep(q)
      BY <1>24 DEF PollFrame, PollLost, RequestStep
    <2>4. QED
      BY <2>1, <2>2, <2>3, GateFrame
  <1>25. ASSUME NEW r \in DOMAIN requests, PollPassed(r), PollFrame PROVE GateInv'
    <2>1. StateStep
      BY <1>25, <1>0 DEF PollFrame, PollPassed, StateStep
    <2>2. \A u \in Threads : CallStep(u)
      BY <1>25 DEF PollFrame, PollPassed, CallStep
    <2>3. \A q \in DOMAIN requests' : RequestStep(q)
      BY <1>25 DEF PollFrame, PollPassed, RequestStep
    <2>4. QED
      BY <2>1, <2>2, <2>3, GateFrame
  <1>26. ASSUME NEW r \in DOMAIN requests, PollFails(r), PollFrame PROVE GateInv'
    <2>1. StateStep
      <3>1. /\ map_state' = "mapped" => map_state = "mapped"
            /\ map_state' = "pending" => map_state = "pending" /\ pending_map' = pending_map
        BY <1>26, CancelFacts DEF PollFails, CancelRequest
      <3>2. UNCHANGED <<misreported, done, latest>>
        BY <1>26 DEF PollFrame, PollFails
      <3>3. QED
        BY <3>1, <3>2, <1>0 DEF StateStep
    <2>2. \A u \in Threads : CallStep(u)
      BY <1>26 DEF PollFrame, PollFails, CallStep
    <2>3. \A q \in DOMAIN requests' : RequestStep(q)
      <3>1. /\ DOMAIN requests' = DOMAIN requests
            /\ requests'[r] = [requests[r] EXCEPT !.status = "error", !.gate = 0, !.phase = "ready"]
            /\ \A q \in DOMAIN requests : q # r => requests'[q] = requests[q]
        BY <1>26, <1>0 DEF PollFails
      <3>2. requests'[r].serial = requests[r].serial /\ requests'[r].buffer = requests[r].buffer
        BY <3>1, ShapeFacts DEF RequestSet
      <3>3. requests[r].buffer /\ map_state' = "pending" => requests[r].serial # pending_map'.serial
        BY <1>26, CancelFacts DEF PollFails, CancelRequest
      <3>4. QED
        BY <3>1, <3>2, <3>3 DEF RequestStep
    <2>4. QED
      BY <2>1, <2>2, <2>3, GateFrame
  <1>27. ASSUME NEW r \in DOMAIN requests, Cancel(r), PollFrame PROVE GateInv'
    <2>1. StateStep
      <3>1. /\ map_state' = "mapped" => map_state = "mapped"
            /\ map_state' = "pending" => map_state = "pending" /\ pending_map' = pending_map
        BY <1>27, CancelFacts DEF Cancel, CancelRequest
      <3>2. UNCHANGED <<misreported, done, latest>>
        BY <1>27 DEF PollFrame, Cancel
      <3>3. QED
        BY <3>1, <3>2, <1>0 DEF StateStep
    <2>2. \A u \in Threads : CallStep(u)
      BY <1>27 DEF PollFrame, Cancel, CallStep
    <2>3. \A q \in DOMAIN requests' : RequestStep(q)
      <3>1. /\ DOMAIN requests' = DOMAIN requests
            /\ requests'[r] = Ended(requests[r].serial, "cancelled")
            /\ \A q \in DOMAIN requests : q # r => requests'[q] = requests[q]
        BY <1>27, <1>0 DEF Cancel
      <3>2. ~requests'[r].buffer
        BY <3>1 DEF Ended
      <3>3. QED
        BY <3>1, <3>2 DEF RequestStep
    <2>4. QED
      BY <2>1, <2>2, <2>3, GateFrame
  <1>28. CASE Complete
    <2>1. StateStep
      BY <1>28, <1>0 DEF Complete, StateStep
    <2>2. \A u \in Threads : CallStep(u)
      BY <1>28 DEF Complete, CallStep
    <2>3. \A q \in DOMAIN requests' : RequestStep(q)
      BY <1>28 DEF Complete, RequestStep
    <2>4. QED
      BY <2>1, <2>2, <2>3, GateFrame
  <1>29. CASE EndOfUse
    <2>1. StateStep
      BY <1>29, <1>0 DEF EndOfUse, StateStep
    <2>2. \A u \in Threads : CallStep(u)
      BY <1>29 DEF EndOfUse, CallStep
    <2>3. \A q \in DOMAIN requests' : RequestStep(q)
      BY <1>29 DEF EndOfUse, RequestStep
    <2>4. QED
      BY <2>1, <2>2, <2>3, GateFrame
  <1>30. CASE UNCHANGED vars
    <2>1. StateStep
      BY <1>30, <1>0 DEF vars, StateStep
    <2>2. \A u \in Threads : CallStep(u)
      BY <1>30 DEF vars, CallStep
    <2>3. \A q \in DOMAIN requests' : RequestStep(q)
      BY <1>30 DEF vars, RequestStep
    <2>4. QED
      BY <2>1, <2>2, <2>3, GateFrame
  <1>31. QED
    BY <1>1, <1>2, <1>3, <1>4, <1>5, <1>6, <1>7, <1>8, <1>9, <1>10, <1>11, <1>12, <1>13,
       <1>14, <1>15, <1>16, <1>17, <1>18, <1>19, <1>20, <1>21, <1>22, <1>23, <1>24, <1>25,
       <1>26, <1>27, <1>28, <1>29, <1>30, StepCases

LEMMA InvInit == Init => IInv
  <1> SUFFICES ASSUME Init PROVE IInv
    OBVIOUS
  <1>1. Idle \in Calls /\ NoMap \in Maps /\ NoWork \in Works
    BY LabelFacts DEF Idle, Calls, NoMap, Maps, NoWork, Works
  <1>2. Shape
    BY <1>1 DEF Init, Shape
  <1>3. AgreeInv
    BY DEF Init, AgreeInv, StateAgrees
  <1>4. /\ call = [t \in Threads |-> Idle] /\ DOMAIN requests = {}
        /\ gpu = <<>> /\ Len(gpu) = 0 /\ DOMAIN gpu = {} /\ Idle.at = "idle" /\ Idle.serial = 0
    BY DEF Init, Idle
  <1>5. LockInv
    BY <1>4 DEF Init, LockInv, Inside, At
  <1>6. SerialInv /\ FireInv
    BY <1>4 DEF Init, SerialInv, FireInv, Fires
  <1>7. GateInv
    BY <1>4 DEF Init, GateInv, Gated, Quiet, UsesUpTo, Uses, At
  <1>8. QED
    BY <1>2, <1>3, <1>5, <1>6, <1>7 DEF IInv

LEMMA InvNext == IInv /\ [Next]_vars => IInv'
  BY ShapeNext, AgreeNext, LockNext, SerialNext, FireNext, GateNext DEF IInv

\* The inductive invariant holds, for any number of threads, maps and writes.
THEOREM MapInvariance == Spec => []IInv
  BY InvInit, InvNext, PTL DEF Spec

\* State, pending map, active map, ranges and destruction of a buffer agree after
\* every step of begin_map, resolve, unmap, destroy, release and abort.
THEOREM StatesAgree == Spec => []StateAgrees
  <1>1. IInv => StateAgrees
    BY DEF IInv, AgreeInv
  <1>2. QED
    BY <1>1, MapInvariance, PTL

\* The gate of MapAsync is enough: while a buffer is mapped, no write that is
\* pending, no submit on its way and no work on the GPU uses it.
THEOREM MappedBufferIsIdle == Spec => []MappedIsIdle
  <1>1. ASSUME IInv PROVE MappedIsIdle
    <2>1. SUFFICES ASSUME map_state = "mapped", ~misreported PROVE ~InUse
      BY DEF MappedIsIdle
    <2>2. Quiet /\ UsesUpTo(done)
      BY <1>1, <2>1 DEF IInv, GateInv, Gated
    <2>3. /\ DOMAIN gpu = 1 .. Len(gpu) /\ Len(gpu) \in Nat /\ done \in Nat
      BY <1>1, ShapeFacts DEF IInv, Shape
    <2>4. ASSUME NEW i \in Live PROVE ~Uses(gpu[i])
      BY <2>2, <2>3, <2>4 DEF Live, UsesUpTo
    <2>5. QED
      BY <2>2, <2>4 DEF InUse, Quiet
  <1>2. QED
    BY <1>1, MapInvariance, PTL

-----------------------------------------------------------------------------
(* Serials, calls and requests.                                            *)

\* What a step does to the call of a thread: it goes on, or it returns.
Moves(t, l) ==
  /\ Others(t) /\ call'[t].at = l
  /\ call'[t].op = call[t].op /\ call'[t].serial = call[t].serial
  /\ call'[t].status = call[t].status
Starts(t, o, l) ==
  /\ call[t].at = "idle" /\ Others(t)
  /\ call'[t].at = l /\ call'[t].op = o
  /\ call'[t].serial = call[t].serial /\ call'[t].status = call[t].status
Quits(t) == Others(t) /\ call'[t] = Idle

LEMMA MoveFacts ==
  ASSUME Shape, NEW t \in Threads
  PROVE  /\ Return(t) => Quits(t)
         /\ \A l : Goto(t, l) => Moves(t, l)
         /\ \A o, l : Begin(t, o, l) => Starts(t, o, l)
         /\ \A l : Leave(t, l) => IF call[t].op = "map" THEN Moves(t, l) ELSE Quits(t)
  <1>0. call \in [Threads -> Calls]
    BY DEF Shape
  <1>1. Return(t) => Quits(t)
    BY <1>0 DEF Return, Quits, Others
  <1>2. ASSUME NEW l, Goto(t, l) PROVE Moves(t, l)
    BY <1>0, <1>2 DEF Goto, Moves, Others, Calls
  <1>3. ASSUME NEW o, NEW l, Begin(t, o, l) PROVE Starts(t, o, l)
    BY <1>0, <1>3 DEF Begin, At, Starts, Others, Calls
  <1>4. ASSUME NEW l, Leave(t, l)
        PROVE  IF call[t].op = "map" THEN Moves(t, l) ELSE Quits(t)
    BY <1>4, <1>1, <1>2 DEF Leave
  <1>5. QED
    BY <1>1, <1>2, <1>3, <1>4

\* The steps that change more of a call.
LEMMA UnmapMove ==
  ASSUME Shape, NEW t \in Threads, Unmap(t)
  PROVE  call' = call \/ (Starts(t, "unmap", "free_host") /\ usage = "plain")
  BY MoveFacts DEF Unmap, UnmapCall, FreesHost

LEMMA AbortMove ==
  ASSUME Shape, NEW t \in Threads, Abort(t)
  PROVE  /\ Others(t) /\ call'[t].at = "gate" /\ call'[t].status = "error"
         /\ call'[t].op = call[t].op /\ call'[t].serial = call[t].serial
  <1>1. /\ call \in [Threads -> Calls]
        /\ call' = [call EXCEPT ![t].at = "gate", ![t].status = "error"]
    BY DEF Shape, Abort
  <1>2. QED
    BY <1>1 DEF Others, Calls

LEMMA GateMove ==
  ASSUME Shape, NEW t \in Threads, Gate(t)
  PROVE  Moves(t, "register")
  <1>1. /\ call \in [Threads -> Calls]
        /\ call' = [call EXCEPT ![t].at = "register", ![t].index = latest]
    BY DEF Shape, Gate
  <1>2. QED
    BY <1>1 DEF Moves, Others, Calls

LEMMA HalSubmitMove ==
  ASSUME Shape, NEW t \in Threads, HalSubmit(t)
  PROVE  \/ Moves(t, "record")
         \/ IF call[t].op = "map" THEN Moves(t, "abort") ELSE Quits(t)
  <1>1. CASE call' = [call EXCEPT ![t].at = "record", ![t].index = Len(gpu) + 1]
    <2>1. call \in [Threads -> Calls]
      BY DEF Shape
    <2>2. QED
      BY <1>1, <2>1 DEF Moves, Others, Calls
  <1>2. CASE Leave(t, "abort")
    BY <1>2, MoveFacts
  <1>3. QED
    BY <1>1, <1>2 DEF HalSubmit

LEMMA TakeMove ==
  ASSUME Shape, NEW t \in Threads, Take(t)
  PROVE  Starts(t, "fire", "fire")
  <1>1. PICK r \in DOMAIN requests :
          call' = [call EXCEPT ![t] =
                     [@ EXCEPT !.at = "fire", !.op = "fire", !.request = r]]
    BY DEF Take
  <1>2. call[t].at = "idle" /\ call \in [Threads -> Calls]
    BY DEF Take, At, Shape
  <1>3. QED
    BY <1>1, <1>2 DEF Starts, Others, Calls

LEMMA BeginMapMove ==
  ASSUME Shape, NEW t \in Threads, BeginMap(t)
  PROVE  IF Mappable /\ next_map_serial < MaxMaps
         THEN /\ Others(t) /\ call'[t].at = "enter" /\ call'[t].op = call[t].op
              /\ call'[t].serial = next_map_serial + 1
              /\ call'[t].status = call[t].status
         ELSE Quits(t)
  <1>1. CASE Mappable /\ next_map_serial < MaxMaps
    <2>1. /\ call \in [Threads -> Calls]
          /\ call' = [call EXCEPT ![t].at = "enter", ![t].serial = next_map_serial + 1]
      BY <1>1 DEF Shape, BeginMap
    <2>2. QED
      BY <1>1, <2>1 DEF Others, Calls
  <1>2. CASE ~(Mappable /\ next_map_serial < MaxMaps)
    BY <1>2, MoveFacts DEF BeginMap
  <1>3. QED
    BY <1>1, <1>2

LEMMA EnterMove ==
  ASSUME Shape, NEW t \in Threads, Enter(t)
  PROVE  \/ (Moves(t, "gate") /\ call[t].op = "map")
         \/ Moves(t, "hal_submit")
         \/ ((Quits(t) \/ Moves(t, "stage") \/ Moves(t, "lower")) /\ call[t].op # "map")
  <1>1. ASSUME NEW l \in {"gate", "idle"}, Leave(t, l), call[t].op # "map" \/ l = "gate"
        PROVE  \/ (Moves(t, "gate") /\ call[t].op = "map")
               \/ (Quits(t) /\ call[t].op # "map")
    BY <1>1, MoveFacts
  <1>2. \/ Leave(t, "gate")
        \/ Leave(t, "idle") /\ call[t].op # "map"
        \/ Goto(t, "stage") /\ call[t].op # "map"
        \/ Goto(t, "lower") /\ call[t].op # "map"
        \/ Goto(t, "hal_submit")
    BY DEF Enter, Flush
  <1>3. QED
    BY <1>1, <1>2, MoveFacts

LEMMA StageMove ==
  ASSUME Shape, NEW t \in Threads, Stage(t), call[t].op # "map"
  PROVE  Quits(t) \/ Moves(t, "hal_submit")
  BY MoveFacts DEF Stage

LEMMA FiringMoves ==
  ASSUME Shape, NEW t \in Threads, Fire(t) \/ ResolveTest(t) \/ ResolveMap(t)
  PROVE  Quits(t) \/ Moves(t, "resolve") \/ Moves(t, "map")
  BY MoveFacts DEF Fire, ResolveTest, ResolveMap, Settle, Report

\* Only calls of MapAsync carry a serial.
LEMMA CarryNext ==
  ASSUME Shape, CarryInv, [Next]_vars
  PROVE  CarryInv'
  <1> USE DEF CarryInv, At
  <1>0. call \in [Threads -> Calls] /\ next_map_serial \in Nat
    BY DEF Shape
  <1>1. ASSUME NEW t \in Threads, Unmap(t) PROVE CarryInv'
    BY <1>1, UnmapMove
      DEF Moves, Starts, Quits, Idle, Others, MapLabels
  <1>2. ASSUME NEW t \in Threads, Destroy(t) PROVE CarryInv'
    BY <1>2
      DEF Destroy
  <1>3. ASSUME NEW t \in Threads, Release(t) PROVE CarryInv'
    BY <1>3
      DEF Release
  <1>4. ASSUME NEW t \in Threads, MappedRange(t) PROVE CarryInv'
    BY <1>4
      DEF MappedRange
  <1>5. ASSUME NEW t \in Threads, WriteMapped(t) PROVE CarryInv'
    BY <1>5
      DEF WriteMapped
  <1>6. ASSUME NEW t \in Threads, BeginWrite(t) PROVE CarryInv'
    BY <1>6, MoveFacts
      DEF BeginWrite, Moves, Starts, Quits, Idle, Others, MapLabels
  <1>7. ASSUME NEW t \in Threads, BeginQueueCall(t) PROVE CarryInv'
    BY <1>7, MoveFacts
      DEF BeginQueueCall, Moves, Starts, Quits, Idle, Others, MapLabels
  <1>8. ASSUME NEW t \in Threads, Lose(t) PROVE CarryInv'
    BY <1>8
      DEF Lose
  <1>9. ASSUME NEW t \in Threads, BeginMapAsync(t) PROVE CarryInv'
    BY <1>9, MoveFacts
      DEF BeginMapAsync, Moves, Starts, Quits, Idle, Others, MapLabels
  <1>10. ASSUME NEW t \in Threads, Take(t) PROVE CarryInv'
    BY <1>10, TakeMove
      DEF Moves, Starts, Quits, Idle, Others, MapLabels
  <1>11. ASSUME NEW t \in Threads, FreeHost(t) PROVE CarryInv'
    BY <1>11, MoveFacts
      DEF FreeHost, Moves, Starts, Quits, Idle, Others, MapLabels
  <1>12. ASSUME NEW t \in Threads, Enter(t) PROVE CarryInv'
    <2>1. call[t].at = "enter"
      BY <1>12 DEF Enter
    <2>2. QED
      BY <1>12, <2>1, EnterMove DEF Moves, Starts, Quits, Idle, Others, MapLabels
  <1>13. ASSUME NEW t \in Threads, Stage(t) PROVE CarryInv'
    BY <1>13, StageMove
      DEF Stage, Moves, Starts, Quits, Idle, Others, MapLabels
  <1>14. ASSUME NEW t \in Threads, Lower(t) PROVE CarryInv'
    BY <1>14, MoveFacts
      DEF Lower, Moves, Starts, Quits, Idle, Others, MapLabels
  <1>15. ASSUME NEW t \in Threads, HalSubmit(t) PROVE CarryInv'
    <2>1. call[t].at = "hal_submit"
      BY <1>15 DEF HalSubmit
    <2>2. QED
      BY <1>15, <2>1, HalSubmitMove DEF Moves, Starts, Quits, Idle, Others, MapLabels
  <1>16. ASSUME NEW t \in Threads, Record(t) PROVE CarryInv'
    BY <1>16, MoveFacts
      DEF Record, Moves, Starts, Quits, Idle, Others, MapLabels
  <1>17. ASSUME NEW t \in Threads, BeginMap(t) PROVE CarryInv'
    <2>1. next_map_serial + 1 # 0 /\ call[t].at = "begin_map" /\ call[t].op = "map"
      BY <1>17, <1>0 DEF BeginMap
    <2>2. \/ Quits(t)
          \/ /\ Others(t) /\ call'[t].at = "enter" /\ call'[t].op = "map"
             /\ call'[t].serial = next_map_serial + 1
      BY <1>17, <2>1, BeginMapMove
    <2>3. QED
      BY <2>1, <2>2 DEF Quits, Idle, Others, MapLabels
  <1>18. ASSUME NEW t \in Threads, Abort(t) PROVE CarryInv'
    <2>1. call[t].at = "abort"
      BY <1>18 DEF Abort
    <2>2. QED
      BY <1>18, <2>1, AbortMove DEF Others, MapLabels
  <1>19. ASSUME NEW t \in Threads, Gate(t) PROVE CarryInv'
    <2>1. call[t].at = "gate"
      BY <1>19 DEF Gate
    <2>2. QED
      BY <1>19, <2>1, GateMove DEF Moves, Starts, Quits, Idle, Others, MapLabels
  <1>20. ASSUME NEW t \in Threads, Register(t) PROVE CarryInv'
    BY <1>20, MoveFacts
      DEF Register, Moves, Starts, Quits, Idle, Others, MapLabels
  <1>21. ASSUME NEW t \in Threads, Fire(t) PROVE CarryInv'
    <2>1. call[t].at = "fire"
      BY <1>21 DEF Fire
    <2>2. QED
      BY <1>21, <2>1, FiringMoves DEF Moves, Starts, Quits, Idle, Others, MapLabels
  <1>22. ASSUME NEW t \in Threads, ResolveTest(t) PROVE CarryInv'
    <2>1. call[t].at = "resolve"
      BY <1>22 DEF ResolveTest
    <2>2. QED
      BY <1>22, <2>1, FiringMoves DEF Moves, Starts, Quits, Idle, Others, MapLabels
  <1>23. ASSUME NEW t \in Threads, ResolveMap(t) PROVE CarryInv'
    <2>1. call[t].at = "map"
      BY <1>23 DEF ResolveMap
    <2>2. QED
      BY <1>23, <2>1, FiringMoves DEF Moves, Starts, Quits, Idle, Others, MapLabels
  <1>24. ASSUME NEW r \in DOMAIN requests, PollLost(r), PollFrame PROVE CarryInv'
    BY <1>24
      DEF PollFrame
  <1>25. ASSUME NEW r \in DOMAIN requests, PollPassed(r), PollFrame PROVE CarryInv'
    BY <1>25
      DEF PollFrame
  <1>26. ASSUME NEW r \in DOMAIN requests, PollFails(r), PollFrame PROVE CarryInv'
    BY <1>26
      DEF PollFrame
  <1>27. ASSUME NEW r \in DOMAIN requests, Cancel(r), PollFrame PROVE CarryInv'
    BY <1>27
      DEF PollFrame
  <1>28. CASE Complete
    BY <1>28
      DEF Complete
  <1>29. CASE EndOfUse
    BY <1>29
      DEF EndOfUse
  <1>30. CASE UNCHANGED vars
    BY <1>30
      DEF vars
  <1>31. QED
    BY <1>1, <1>2, <1>3, <1>4, <1>5, <1>6, <1>7, <1>8, <1>9, <1>10, <1>11, <1>12, <1>13,
       <1>14, <1>15, <1>16, <1>17, <1>18, <1>19, <1>20, <1>21, <1>22, <1>23, <1>24, <1>25,
       <1>26, <1>27, <1>28, <1>29, <1>30, StepCases

\* The storage that unmap frees is never that of a buffer it may map again.
LEMMA HostNext ==
  ASSUME Shape, AgreeInv, HostInv, [Next]_vars
  PROVE  HostInv'
  <1> USE DEF HostInv, At, HalLive, fixed_vars, life_vars, data_vars, state_vars,
              AgreeInv, StateAgrees
  <1>0. call \in [Threads -> Calls]
    BY DEF Shape
  <1>1. ASSUME NEW t \in Threads, Unmap(t) PROVE HostInv'
    BY <1>1, UnmapMove
      DEF Unmap, ClearMap, Starts, Others
  <1>2. ASSUME NEW t \in Threads, Destroy(t) PROVE HostInv'
    BY <1>2
      DEF Destroy, ClearMap
  <1>3. ASSUME NEW t \in Threads, Release(t) PROVE HostInv'
    BY <1>3
      DEF Release, ClearMap
  <1>4. ASSUME NEW t \in Threads, MappedRange(t) PROVE HostInv'
    BY <1>4
      DEF MappedRange
  <1>5. ASSUME NEW t \in Threads, WriteMapped(t) PROVE HostInv'
    BY <1>5
      DEF WriteMapped
  <1>6. ASSUME NEW t \in Threads, BeginWrite(t) PROVE HostInv'
    <2>1. \A u \in Threads : call'[u].at = "free_host" => call[u].at = "free_host"
      BY <1>6, MoveFacts DEF BeginWrite, Moves, Starts, Quits, Idle, Others
    <2>2. QED
      BY <1>6, <2>1 DEF BeginWrite
  <1>7. ASSUME NEW t \in Threads, BeginQueueCall(t) PROVE HostInv'
    <2>1. \A u \in Threads : call'[u].at = "free_host" => call[u].at = "free_host"
      BY <1>7, MoveFacts DEF BeginQueueCall, Moves, Starts, Quits, Idle, Others
    <2>2. QED
      BY <1>7, <2>1 DEF BeginQueueCall
  <1>8. ASSUME NEW t \in Threads, Lose(t) PROVE HostInv'
    BY <1>8
      DEF Lose
  <1>9. ASSUME NEW t \in Threads, BeginMapAsync(t) PROVE HostInv'
    <2>1. \A u \in Threads : call'[u].at = "free_host" => call[u].at = "free_host"
      BY <1>9, MoveFacts DEF BeginMapAsync, Moves, Starts, Quits, Idle, Others
    <2>2. QED
      BY <1>9, <2>1 DEF BeginMapAsync
  <1>10. ASSUME NEW t \in Threads, Take(t) PROVE HostInv'
    <2>1. \A u \in Threads : call'[u].at = "free_host" => call[u].at = "free_host"
      BY <1>10, TakeMove DEF Moves, Starts, Quits, Idle, Others
    <2>2. QED
      BY <1>10, <2>1 DEF Take
  <1>11. ASSUME NEW t \in Threads, FreeHost(t) PROVE HostInv'
    <2>1. \A u \in Threads : call'[u].at = "free_host" => call[u].at = "free_host"
      BY <1>11, MoveFacts DEF FreeHost, Moves, Starts, Quits, Idle, Others
    <2>2. QED
      BY <1>11, <2>1 DEF FreeHost
  <1>12. ASSUME NEW t \in Threads, Enter(t) PROVE HostInv'
    <2>1. \A u \in Threads : call'[u].at = "free_host" => call[u].at = "free_host"
      BY <1>12, EnterMove DEF Moves, Starts, Quits, Idle, Others
    <2>2. QED
      BY <1>12, <2>1 DEF Enter
  <1>13. ASSUME NEW t \in Threads, Stage(t) PROVE HostInv'
    <2>1. \A u \in Threads : call'[u].at = "free_host" => call[u].at = "free_host"
      BY <1>13, MoveFacts DEF Stage, Moves, Starts, Quits, Idle, Others
    <2>2. QED
      BY <1>13, <2>1 DEF Stage
  <1>14. ASSUME NEW t \in Threads, Lower(t) PROVE HostInv'
    <2>1. \A u \in Threads : call'[u].at = "free_host" => call[u].at = "free_host"
      BY <1>14, MoveFacts DEF Lower, Moves, Starts, Quits, Idle, Others
    <2>2. QED
      BY <1>14, <2>1 DEF Lower
  <1>15. ASSUME NEW t \in Threads, HalSubmit(t) PROVE HostInv'
    <2>1. \A u \in Threads : call'[u].at = "free_host" => call[u].at = "free_host"
      BY <1>15, HalSubmitMove DEF Moves, Starts, Quits, Idle, Others
    <2>2. QED
      BY <1>15, <2>1 DEF HalSubmit
  <1>16. ASSUME NEW t \in Threads, Record(t) PROVE HostInv'
    <2>1. \A u \in Threads : call'[u].at = "free_host" => call[u].at = "free_host"
      BY <1>16, MoveFacts DEF Record, Moves, Starts, Quits, Idle, Others
    <2>2. QED
      BY <1>16, <2>1 DEF Record
  <1>17. ASSUME NEW t \in Threads, BeginMap(t) PROVE HostInv'
    <2>1. \A u \in Threads : call'[u].at = "free_host" => call[u].at = "free_host"
      BY <1>17, BeginMapMove DEF Moves, Starts, Quits, Idle, Others
    <2>2. QED
      BY <1>17, <2>1 DEF BeginMap, Mappable, Mode
  <1>18. ASSUME NEW t \in Threads, Abort(t) PROVE HostInv'
    <2>1. \A u \in Threads : call'[u].at = "free_host" => call[u].at = "free_host"
      BY <1>18, AbortMove DEF Moves, Starts, Quits, Idle, Others
    <2>2. QED
      BY <1>18, <2>1 DEF Abort, CancelPending, ClearMap
  <1>19. ASSUME NEW t \in Threads, Gate(t) PROVE HostInv'
    <2>1. \A u \in Threads : call'[u].at = "free_host" => call[u].at = "free_host"
      BY <1>19, GateMove DEF Moves, Starts, Quits, Idle, Others
    <2>2. QED
      BY <1>19, <2>1 DEF Gate
  <1>20. ASSUME NEW t \in Threads, Register(t) PROVE HostInv'
    <2>1. \A u \in Threads : call'[u].at = "free_host" => call[u].at = "free_host"
      BY <1>20, MoveFacts DEF Register, Moves, Starts, Quits, Idle, Others
    <2>2. QED
      BY <1>20, <2>1 DEF Register, CancelPending, ClearMap
  <1>21. ASSUME NEW t \in Threads, Fire(t) PROVE HostInv'
    <2>1. \A u \in Threads : call'[u].at = "free_host" => call[u].at = "free_host"
      BY <1>21, FiringMoves DEF Moves, Starts, Quits, Idle, Others
    <2>2. QED
      BY <1>21, <2>1 DEF Fire, CancelRequest, CancelPending, ClearMap
  <1>22. ASSUME NEW t \in Threads, ResolveTest(t) PROVE HostInv'
    <2>1. \A u \in Threads : call'[u].at = "free_host" => call[u].at = "free_host"
      BY <1>22, FiringMoves DEF Moves, Starts, Quits, Idle, Others
    <2>2. QED
      BY <1>22, <2>1 DEF ResolveTest
  <1>23. ASSUME NEW t \in Threads, ResolveMap(t) PROVE HostInv'
    <2>1. \A u \in Threads : call'[u].at = "free_host" => call[u].at = "free_host"
      BY <1>23, FiringMoves DEF Moves, Starts, Quits, Idle, Others
    <2>2. QED
      BY <1>23, <2>1 DEF ResolveMap, Settle, Current
  <1>24. ASSUME NEW r \in DOMAIN requests, PollLost(r), PollFrame PROVE HostInv'
    BY <1>24
      DEF PollFrame, PollLost, CancelRequest, CancelPending, ClearMap
  <1>25. ASSUME NEW r \in DOMAIN requests, PollPassed(r), PollFrame PROVE HostInv'
    BY <1>25
      DEF PollFrame, PollPassed
  <1>26. ASSUME NEW r \in DOMAIN requests, PollFails(r), PollFrame PROVE HostInv'
    BY <1>26
      DEF PollFrame, PollFails, CancelRequest, CancelPending, ClearMap
  <1>27. ASSUME NEW r \in DOMAIN requests, Cancel(r), PollFrame PROVE HostInv'
    BY <1>27
      DEF PollFrame, Cancel, CancelRequest, CancelPending, ClearMap
  <1>28. CASE Complete
    BY <1>28
      DEF Complete
  <1>29. CASE EndOfUse
    BY <1>29
      DEF EndOfUse
  <1>30. CASE UNCHANGED vars
    BY <1>30
      DEF vars
  <1>31. QED
    BY <1>1, <1>2, <1>3, <1>4, <1>5, <1>6, <1>7, <1>8, <1>9, <1>10, <1>11, <1>12, <1>13,
       <1>14, <1>15, <1>16, <1>17, <1>18, <1>19, <1>20, <1>21, <1>22, <1>23, <1>24, <1>25,
       <1>26, <1>27, <1>28, <1>29, <1>30, StepCases

\* What a step may do to the pending map, the serials and the requests.
SameSlots ==
  \A u \in Threads : call'[u].serial = call[u].serial /\ call'[u].status = call[u].status
OtherSlots(t) ==
  \A u \in Threads \ {t} :
    call'[u].serial = call[u].serial /\ call'[u].status = call[u].status
CutBy(s) ==
  IF pending_map # NoMap /\ pending_map.serial = s
  THEN map_state' = "unmapped" /\ pending_map' = NoMap
  ELSE UNCHANGED <<map_state, pending_map>>
Becomes(r, q) ==
  /\ DOMAIN requests' = DOMAIN requests /\ requests'[r] = q
  /\ \A i \in DOMAIN requests : i # r => requests'[i] = requests[i]

\* Requests are left alone; the application may end the pending one.
PlainStep ==
  /\ SameSlots /\ UNCHANGED <<requests, granted, next_map_serial>>
  /\ \/ UNCHANGED <<map_state, pending_map, ended>>
     \/ /\ map_state' = "unmapped" /\ pending_map' = NoMap
        /\ ended' = ended \cup ({pending_map.serial} \ {0})

MapStep(t) ==
  /\ map_state = "unmapped" /\ map_state' = "pending"
  /\ pending_map' = [serial |-> next_map_serial + 1, mode |-> Mode] /\ Mode # "none"
  /\ next_map_serial' = next_map_serial + 1
  /\ call[t].serial = 0 /\ call'[t].serial = next_map_serial + 1
  /\ call'[t].status = call[t].status /\ OtherSlots(t)
  /\ UNCHANGED <<requests, granted, ended>>

AbortStep(t) ==
  /\ call[t].serial # 0 /\ CutBy(call[t].serial)
  /\ call'[t].serial = call[t].serial /\ call'[t].status = "error" /\ OtherSlots(t)
  /\ UNCHANGED <<requests, granted, ended, next_map_serial>>

NewStep(t) ==
  /\ call[t].serial # 0 /\ call'[t].serial = 0 /\ call'[t].status = "success"
  /\ OtherSlots(t)
  /\ \/ requests' = Append(requests, NewRequest(t)) /\ UNCHANGED <<map_state, pending_map>>
     \/ /\ requests' = Append(requests, Ended(call[t].serial, "cancelled"))
        /\ CutBy(call[t].serial)
  /\ UNCHANGED <<granted, ended, next_map_serial>>

\* A request moves on, fails, ends without a mapping, or ends with its outcome.
RequestMoves(r) ==
  /\ \E q \in RequestSet :
       /\ Becomes(r, q)
       /\ q.serial = requests[r].serial /\ q.status = requests[r].status
       /\ q.buffer = requests[r].buffer /\ q.phase # "done"
  /\ requests[r].phase = "waiting" => requests[r].gate <= done /\ ~lost
  /\ requests[r].phase # "done" /\ UNCHANGED <<map_state, pending_map, granted>>
RequestFails(r) ==
  /\ \E q \in RequestSet :
       /\ Becomes(r, q)
       /\ q.serial = requests[r].serial /\ q.status # "success" /\ q.phase # "done"
  /\ requests[r].phase # "done" /\ CutBy(requests[r].serial) /\ UNCHANGED granted
RequestEnds(r) ==
  /\ \E o \in Outcomes \ {"success"} : Becomes(r, Ended(requests[r].serial, o))
  /\ requests[r].phase # "done" /\ CutBy(requests[r].serial) /\ UNCHANGED granted
RequestSettles(r) ==
  /\ requests[r].serial = pending_map.serial /\ pending_map # NoMap
  /\ pending_map' = NoMap /\ map_state' \in {"mapped", "unmapped"}
  /\ requests[r].phase # "done"
  /\ \/ /\ granted' = granted \cup {requests[r].serial}
        /\ Becomes(r, Ended(requests[r].serial, "success"))
     \/ /\ granted' = granted
        /\ \E o \in Outcomes \ {"success"} : Becomes(r, Ended(requests[r].serial, o))

OneRequest ==
  /\ SameSlots /\ UNCHANGED <<ended, next_map_serial>>
  /\ \E r \in DOMAIN requests :
       RequestMoves(r) \/ RequestFails(r) \/ RequestEnds(r) \/ RequestSettles(r)

\* A call that is not of MapAsync has no serial to lose when it returns.
LEMMA QuitSlots ==
  ASSUME Shape, NEW t \in Threads, CarryInv, GrantInv, Quits(t),
         call[t].at \notin MapLabels \/ call[t].op # "map"
  PROVE  SameSlots
  <1>1. call[t].serial = 0 /\ call[t].status # "error"
    BY DEF CarryInv, GrantInv
  <1>2. call[t].status = "success"
    BY <1>1, ShapeFacts DEF Calls
  <1>3. QED
    BY <1>1, <1>2 DEF Quits, Others, Idle, SameSlots

LEMMA MoveSlots ==
  ASSUME NEW t \in Threads
  PROVE  /\ \A l : Moves(t, l) => SameSlots
         /\ \A o, l : Starts(t, o, l) => SameSlots
         /\ call' = call => SameSlots
         /\ Others(t) => OtherSlots(t)
  BY DEF Moves, Starts, Others, SameSlots, OtherSlots

LEMMA BecomesFacts ==
  ASSUME Shape, NEW r \in DOMAIN requests, NEW q, requests' = [requests EXCEPT ![r] = q]
  PROVE  Becomes(r, q)
  BY DEF Shape, Becomes

LEMMA ReportEnds ==
  ASSUME Shape, FireInv, NEW t \in Threads, Fires(t), NEW o \in Outcomes, Report(t, o)
  PROVE  /\ Becomes(call[t].request, Ended(Mine(t).serial, o))
         /\ call[t].request \in DOMAIN requests /\ Mine(t).phase # "done"
         /\ Quits(t)
  <1>1. call[t].request \in DOMAIN requests /\ Mine(t).phase = "taken"
    BY DEF FireInv
  <1>2. /\ requests' = [requests EXCEPT ![call[t].request] = Ended(Mine(t).serial, o)]
        /\ Return(t)
    BY DEF Report, Mine
  <1>3. QED
    BY <1>1, <1>2, BecomesFacts, MoveFacts

\* A request without its buffer is not the pending one.
LEMMA CancelCuts ==
  ASSUME GrantInv, NEW r \in DOMAIN requests, CancelRequest(r)
  PROVE  CutBy(requests[r].serial)
  <1>1. CASE requests[r].buffer
    BY <1>1 DEF CancelRequest, CancelPending, ClearMap, CutBy, state_vars
  <1>2. CASE ~requests[r].buffer
    <2>1. requests[r].serial # pending_map.serial
      BY <1>2 DEF GrantInv
    <2>2. QED
      BY <1>2, <2>1 DEF CancelRequest, CutBy, state_vars
  <1>3. QED
    BY <1>1, <1>2

\* A callback that reports anything but success leaves another map pending, if any.
LEMMA ReportKind ==
  ASSUME Shape, FireInv, CarryInv, GrantInv, NEW t \in Threads, Fires(t),
         NEW o \in Outcomes \ {"success"}, Report(t, o),
         CutBy(Mine(t).serial), UNCHANGED <<granted, ended, next_map_serial>>
  PROVE  OneRequest
  <1>1. /\ Becomes(call[t].request, Ended(Mine(t).serial, o))
        /\ call[t].request \in DOMAIN requests /\ Mine(t).phase # "done"
        /\ Quits(t)
    BY ReportEnds
  <1>2. SameSlots
    BY <1>1, QuitSlots DEF Fires, MapLabels
  <1>3. RequestEnds(call[t].request)
    BY <1>1 DEF RequestEnds, Mine
  <1>4. QED
    BY <1>1, <1>2, <1>3 DEF OneRequest

LEMMA OutcomeFacts ==
  ASSUME Shape, FireInv, NEW t \in Threads, Fires(t)
  PROVE  /\ Mine(t) \in RequestSet
         /\ Outcome(Mine(t), "aborted") \in Outcomes \ {"success"}
         /\ Outcome(Mine(t), "error") \in Outcomes \ {"success"}
         /\ Mine(t).status \in Outcomes
  <1>1. Mine(t) \in RequestSet
    BY ShapeFacts DEF FireInv, Mine
  <1>2. QED
    BY <1>1 DEF RequestSet, Outcomes, Outcome

LEMMA FireKind ==
  ASSUME Shape, FireInv, CarryInv, GrantInv, NEW t \in Threads, Fire(t)
  PROVE  PlainStep \/ OneRequest
  <1>1. Fires(t) /\ UNCHANGED <<granted, ended, next_map_serial>>
    BY DEF Fire, At, Fires, life_vars, history_vars
  <1>2. CASE lost
    <2>1. CancelRequest(call[t].request) /\ Report(t, "aborted")
      BY <1>2 DEF Fire
    <2>2. call[t].request \in DOMAIN requests
      BY <1>1 DEF FireInv
    <2>3. CutBy(Mine(t).serial)
      BY <2>1, <2>2, CancelCuts DEF Mine
    <2>4. QED
      BY <1>1, <2>1, <2>3, ReportKind DEF Outcomes
  <1>3. CASE ~lost /\ Mine(t).buffer
    <2>1. Goto(t, "resolve") /\ requests' = requests /\ UNCHANGED <<map_state, pending_map>>
      BY <1>3 DEF Fire, state_vars
    <2>2. SameSlots
      BY <2>1, MoveFacts, MoveSlots
    <2>3. QED
      BY <1>1, <2>1, <2>2 DEF PlainStep
  <1>4. CASE ~lost /\ ~Mine(t).buffer
    <2>1. Report(t, Mine(t).status) /\ UNCHANGED <<map_state, pending_map>>
      BY <1>4 DEF Fire, state_vars
    <2>2. /\ Mine(t).serial # pending_map.serial /\ Mine(t).status # "success"
      BY <1>1, <1>4 DEF FireInv, GrantInv, Mine
    <2>3. Mine(t).status \in Outcomes \ {"success"} /\ CutBy(Mine(t).serial)
      BY <1>1, <2>1, <2>2, OutcomeFacts DEF CutBy
    <2>4. QED
      BY <1>1, <2>1, <2>3, ReportKind
  <1>5. QED
    BY <1>2, <1>3, <1>4

LEMMA ResolveTestKind ==
  ASSUME Shape, FireInv, CarryInv, GrantInv, NEW t \in Threads, ResolveTest(t)
  PROVE  PlainStep \/ OneRequest
  <1>1. /\ Fires(t) /\ UNCHANGED <<granted, ended, next_map_serial, map_state, pending_map>>
    BY DEF ResolveTest, At, Fires, life_vars, history_vars, state_vars
  <1>2. CASE Current(t)
    <2>1. Goto(t, "map") /\ requests' = requests
      BY <1>2 DEF ResolveTest
    <2>2. SameSlots
      BY <2>1, MoveFacts, MoveSlots
    <2>3. QED
      BY <1>1, <2>1, <2>2 DEF PlainStep
  <1>3. CASE ~Current(t)
    <2>1. Report(t, Outcome(Mine(t), "aborted"))
      BY <1>3 DEF ResolveTest
    <2>2. CutBy(Mine(t).serial)
      BY <1>1, <1>3 DEF Current, CutBy
    <2>3. QED
      BY <1>1, <2>1, <2>2, OutcomeFacts, ReportKind
  <1>4. QED
    BY <1>2, <1>3

LEMMA ResolveMapKind ==
  ASSUME Shape, FireInv, CarryInv, GrantInv, NEW t \in Threads, ResolveMap(t)
  PROVE  OneRequest
  <1>1. Fires(t) /\ At(t, "map") /\ UNCHANGED <<ended, next_map_serial>>
    BY DEF ResolveMap, At, Fires, life_vars
  <1>2. CASE ~Current(t)
    <2>1. /\ Report(t, Outcome(Mine(t), "aborted"))
          /\ UNCHANGED <<granted, map_state, pending_map>>
      BY <1>2 DEF ResolveMap, state_vars
    <2>2. CutBy(Mine(t).serial)
      BY <2>1, <1>2 DEF Current, CutBy
    <2>3. QED
      BY <1>1, <2>1, <2>2, OutcomeFacts, ReportKind
  <1>3. CASE Current(t)
    <2>1. pending_map # NoMap /\ pending_map.serial = Mine(t).serial
      BY <1>3 DEF Current
    <2>2. /\ call[t].request \in DOMAIN requests /\ Mine(t) = requests[call[t].request]
          /\ Mine(t).phase # "done" /\ Mine(t).status = "success"
      BY <1>1, <2>1 DEF FireInv, GrantInv, Mine, At
    <2>3. Outcome(Mine(t), "success") = "success" /\ Outcome(Mine(t), "error") = "error"
      BY <2>2 DEF Outcome
    <2>4. CASE Settle(t, TRUE)
      <3>1. /\ Report(t, "success") /\ granted' = granted \cup {Mine(t).serial}
            /\ pending_map' = NoMap /\ map_state' = "mapped"
        BY <2>1, <2>3, <2>4 DEF Settle
      <3>2. Becomes(call[t].request, Ended(Mine(t).serial, "success")) /\ Quits(t)
        BY <1>1, <3>1, ReportEnds DEF Outcomes
      <3>3. RequestSettles(call[t].request)
        BY <2>1, <2>2, <3>1, <3>2 DEF RequestSettles
      <3>4. SameSlots
        BY <1>1, <3>2, QuitSlots DEF Fires, MapLabels
      <3>5. QED
        BY <1>1, <2>2, <3>3, <3>4 DEF OneRequest
    <2>5. CASE Settle(t, FALSE)
      <3>1. /\ Report(t, "error") /\ granted' = granted
            /\ pending_map' = NoMap /\ map_state' = "unmapped"
        BY <2>1, <2>3, <2>5 DEF Settle
      <3>2. Becomes(call[t].request, Ended(Mine(t).serial, "error")) /\ Quits(t)
        BY <1>1, <3>1, ReportEnds DEF Outcomes
      <3>3. RequestSettles(call[t].request)
        BY <2>1, <2>2, <3>1, <3>2 DEF RequestSettles, Outcomes
      <3>4. SameSlots
        BY <1>1, <3>2, QuitSlots DEF Fires, MapLabels
      <3>5. QED
        BY <1>1, <2>2, <3>3, <3>4 DEF OneRequest
    <2>6. Settle(t, TRUE) \/ Settle(t, FALSE)
      BY <1>3 DEF ResolveMap
    <2>7. QED
      BY <2>4, <2>5, <2>6
  <1>4. QED
    BY <1>2, <1>3

LEMMA TakeKind ==
  ASSUME Shape, NEW t \in Threads, Take(t)
  PROVE  OneRequest
  <1>1. PICK r \in DOMAIN requests :
          requests[r].phase = "ready" /\ requests' = [requests EXCEPT ![r].phase = "taken"]
    BY DEF Take
  <1>2. requests[r] \in RequestSet
    BY ShapeFacts
  <1>3. DEFINE q == [requests[r] EXCEPT !.phase = "taken"]
  <1>4. requests' = [requests EXCEPT ![r] = q]
    BY <1>1
  <1>5. q \in RequestSet /\ q.serial = requests[r].serial /\ q.status = requests[r].status
        /\ q.buffer = requests[r].buffer /\ q.phase \notin {"done", "waiting"}
    BY <1>2 DEF RequestSet
  <1> HIDE DEF q
  <1>6. RequestMoves(r)
    BY <1>1, <1>4, <1>5, BecomesFacts DEF Take, RequestMoves, state_vars, history_vars
  <1>7. SameSlots
    BY TakeMove, MoveSlots
  <1>8. QED
    BY <1>6, <1>7 DEF OneRequest, Take, life_vars, history_vars

LEMMA PollKind ==
  ASSUME Shape, GrantInv, NEW r \in DOMAIN requests, PollFrame,
         PollLost(r) \/ PollPassed(r) \/ PollFails(r) \/ Cancel(r)
  PROVE  OneRequest
  <1>0. requests[r] \in RequestSet
    BY ShapeFacts
  <1>1. SameSlots /\ UNCHANGED <<ended, next_map_serial, granted>>
    BY MoveSlots DEF PollFrame, SameSlots, life_vars, history_vars
  <1>2. CASE PollLost(r)
    <2>1. DEFINE q == [requests[r] EXCEPT !.status = "aborted", !.buffer = FALSE,
                                          !.gate = 0, !.phase = "ready"]
    <2>2. requests' = [requests EXCEPT ![r] = q] /\ CancelRequest(r)
          /\ requests[r].phase # "done"
      BY <1>2 DEF PollLost
    <2>3. q \in RequestSet /\ q.serial = requests[r].serial /\ q.status # "success"
          /\ q.phase # "done"
      BY <1>0 DEF RequestSet
    <2> HIDE DEF q
    <2>4. RequestFails(r)
      BY <1>1, <2>2, <2>3, BecomesFacts, CancelCuts DEF RequestFails
    <2>5. QED
      BY <1>1, <2>4 DEF OneRequest
  <1>3. CASE PollPassed(r)
    <2>1. DEFINE q == [requests[r] EXCEPT !.gate = 0, !.phase = "ready"]
    <2>2. requests' = [requests EXCEPT ![r] = q] /\ UNCHANGED <<map_state, pending_map>>
          /\ requests[r].phase # "done" /\ requests[r].gate <= done /\ ~lost
      BY <1>3 DEF PollPassed, state_vars
    <2>3. q \in RequestSet /\ q.serial = requests[r].serial /\ q.status = requests[r].status
          /\ q.buffer = requests[r].buffer /\ q.phase \notin {"done", "waiting"}
      BY <1>0 DEF RequestSet
    <2> HIDE DEF q
    <2>4. RequestMoves(r)
      BY <1>1, <2>2, <2>3, BecomesFacts DEF RequestMoves
    <2>5. QED
      BY <1>1, <2>4 DEF OneRequest
  <1>4. CASE PollFails(r)
    <2>1. DEFINE q == [requests[r] EXCEPT !.status = "error", !.gate = 0, !.phase = "ready"]
    <2>2. requests' = [requests EXCEPT ![r] = q] /\ CancelRequest(r)
          /\ requests[r].phase # "done"
      BY <1>4 DEF PollFails
    <2>3. q \in RequestSet /\ q.serial = requests[r].serial /\ q.status # "success"
          /\ q.phase # "done"
      BY <1>0 DEF RequestSet
    <2> HIDE DEF q
    <2>4. RequestFails(r)
      BY <1>1, <2>2, <2>3, BecomesFacts, CancelCuts DEF RequestFails
    <2>5. QED
      BY <1>1, <2>4 DEF OneRequest
  <1>5. CASE Cancel(r)
    <2>1. requests' = [requests EXCEPT ![r] = Ended(requests[r].serial, "cancelled")]
          /\ CancelRequest(r) /\ requests[r].phase # "done"
      BY <1>5 DEF Cancel
    <2>2. RequestEnds(r)
      BY <1>1, <2>1, BecomesFacts, CancelCuts DEF RequestEnds, Outcomes
    <2>3. QED
      BY <1>1, <2>2 DEF OneRequest
  <1>6. QED
    BY <1>2, <1>3, <1>4, <1>5


SlotStep ==
  \/ PlainStep
  \/ \E t \in Threads : MapStep(t)
  \/ \E t \in Threads : AbortStep(t)
  \/ \E t \in Threads : NewStep(t)
  \/ OneRequest

\* Every step does one of these things to serials and requests.
LEMMA SlotCases ==
  ASSUME Shape, CarryInv, FireInv, GrantInv, [Next]_vars
  PROVE  SlotStep
  <1> USE DEF SlotStep
  <1>1. ASSUME NEW t \in Threads, Unmap(t) PROVE SlotStep
    <2>1. SameSlots
      BY <1>1, UnmapMove, MoveSlots
    <2>2. QED
      BY <1>1, <2>1 DEF Unmap, ClearMap, EndPending, PlainStep, state_vars, life_vars,
         request_vars, history_vars
  <1>2. ASSUME NEW t \in Threads, Destroy(t) PROVE SlotStep
    <2>1. SameSlots
      BY <1>2, MoveSlots DEF Destroy, SameSlots
    <2>2. QED
      BY <1>2, <2>1 DEF Destroy, ClearMap, EndPending, PlainStep, state_vars, life_vars,
         request_vars, history_vars
  <1>3. ASSUME NEW t \in Threads, Release(t) PROVE SlotStep
    <2>1. SameSlots
      BY <1>3, MoveSlots DEF Release, SameSlots
    <2>2. QED
      BY <1>3, <2>1 DEF Release, ClearMap, EndPending, PlainStep, state_vars, life_vars,
         request_vars, history_vars
  <1>4. ASSUME NEW t \in Threads, MappedRange(t) PROVE SlotStep
    <2>1. SameSlots
      BY <1>4, MoveSlots DEF MappedRange, SameSlots
    <2>2. QED
      BY <1>4, <2>1 DEF MappedRange, PlainStep, state_vars, life_vars, request_vars,
         history_vars
  <1>5. ASSUME NEW t \in Threads, WriteMapped(t) PROVE SlotStep
    <2>1. SameSlots
      BY <1>5, MoveSlots DEF WriteMapped, SameSlots
    <2>2. QED
      BY <1>5, <2>1 DEF WriteMapped, PlainStep, state_vars, life_vars, request_vars,
         history_vars
  <1>6. ASSUME NEW t \in Threads, BeginWrite(t) PROVE SlotStep
    <2>1. SameSlots
      BY <1>6, MoveFacts, MoveSlots DEF BeginWrite
    <2>2. QED
      BY <1>6, <2>1 DEF BeginWrite, PlainStep, state_vars, life_vars, request_vars,
         history_vars
  <1>7. ASSUME NEW t \in Threads, BeginQueueCall(t) PROVE SlotStep
    <2>1. SameSlots
      BY <1>7, MoveFacts, MoveSlots DEF BeginQueueCall
    <2>2. QED
      BY <1>7, <2>1 DEF BeginQueueCall, PlainStep, state_vars, life_vars, request_vars,
         history_vars
  <1>8. ASSUME NEW t \in Threads, Lose(t) PROVE SlotStep
    <2>1. SameSlots
      BY <1>8, MoveSlots DEF Lose, SameSlots
    <2>2. QED
      BY <1>8, <2>1 DEF Lose, PlainStep, state_vars, life_vars, request_vars, history_vars
  <1>9. ASSUME NEW t \in Threads, BeginMapAsync(t) PROVE SlotStep
    <2>1. SameSlots
      BY <1>9, MoveFacts, MoveSlots DEF BeginMapAsync
    <2>2. QED
      BY <1>9, <2>1 DEF BeginMapAsync, PlainStep, state_vars, life_vars, request_vars,
         history_vars
  <1>10. ASSUME NEW t \in Threads, Take(t) PROVE SlotStep
    BY <1>10, TakeKind
  <1>11. ASSUME NEW t \in Threads, FreeHost(t) PROVE SlotStep
    <2>1. SameSlots
      BY <1>11, MoveFacts, QuitSlots DEF FreeHost, At, MapLabels
    <2>2. QED
      BY <1>11, <2>1 DEF FreeHost, PlainStep, state_vars, life_vars, request_vars,
         history_vars
  <1>12. ASSUME NEW t \in Threads, Enter(t) PROVE SlotStep
    <2>1. SameSlots
      BY <1>12, EnterMove, QuitSlots, MoveSlots
    <2>2. QED
      BY <1>12, <2>1 DEF Enter, PlainStep, state_vars, life_vars, request_vars, history_vars
  <1>13. ASSUME NEW t \in Threads, Stage(t) PROVE SlotStep
    <2>0. call[t].at = "stage" /\ call[t].op # "map"
      BY <1>13 DEF Stage, At, CarryInv, MapLabels
    <2>1. SameSlots
      BY <1>13, <2>0, StageMove, QuitSlots, MoveSlots
    <2>2. QED
      BY <1>13, <2>1 DEF Stage, PlainStep, state_vars, life_vars, request_vars, history_vars
  <1>14. ASSUME NEW t \in Threads, Lower(t) PROVE SlotStep
    <2>1. SameSlots
      BY <1>14, MoveFacts, MoveSlots DEF Lower
    <2>2. QED
      BY <1>14, <2>1 DEF Lower, PlainStep, state_vars, life_vars, request_vars, history_vars
  <1>15. ASSUME NEW t \in Threads, HalSubmit(t) PROVE SlotStep
    <2>1. SameSlots
      BY <1>15, HalSubmitMove, QuitSlots, MoveSlots
    <2>2. QED
      BY <1>15, <2>1 DEF HalSubmit, PlainStep, state_vars, life_vars, request_vars,
         history_vars
  <1>16. ASSUME NEW t \in Threads, Record(t) PROVE SlotStep
    <2>1. SameSlots
      BY <1>16, MoveFacts, QuitSlots, MoveSlots DEF Record
    <2>2. QED
      BY <1>16, <2>1 DEF Record, PlainStep, state_vars, life_vars, request_vars,
         history_vars
  <1>17. ASSUME NEW t \in Threads, BeginMap(t) PROVE SlotStep
    <2>0. call[t].at = "begin_map" /\ call[t].serial = 0
      BY <1>17 DEF BeginMap, At, CarryInv, MapLabels
    <2>1. CASE Mappable /\ next_map_serial < MaxMaps
      <3>1. /\ Others(t) /\ call'[t].serial = next_map_serial + 1
            /\ call'[t].status = call[t].status
        BY <1>17, <2>1, BeginMapMove
      <3>2. MapStep(t)
        BY <1>17, <2>0, <2>1, <3>1, MoveSlots
          DEF BeginMap, Mappable, MapStep, request_vars, history_vars
      <3>3. QED
        BY <3>2
    <2>2. CASE ~(Mappable /\ next_map_serial < MaxMaps)
      <3>1. SameSlots
        BY <1>17, <2>0, <2>2, BeginMapMove, QuitSlots DEF MapLabels
      <3>2. QED
        BY <1>17, <2>2, <3>1 DEF BeginMap, PlainStep, state_vars, request_vars, history_vars
    <2>3. QED
      BY <2>1, <2>2
  <1>18. ASSUME NEW t \in Threads, Abort(t) PROVE SlotStep
    <2>1. call[t].serial # 0
      BY <1>18 DEF Abort, At, CarryInv
    <2>2. CutBy(call[t].serial)
      BY <1>18 DEF Abort, CancelPending, ClearMap, CutBy, state_vars
    <2>3. AbortStep(t)
      BY <1>18, <2>1, <2>2, AbortMove, MoveSlots
        DEF Abort, AbortStep, request_vars, life_vars, history_vars
    <2>4. QED
      BY <2>3
  <1>19. ASSUME NEW t \in Threads, Gate(t) PROVE SlotStep
    <2>1. SameSlots
      BY <1>19, GateMove, MoveSlots
    <2>2. QED
      BY <1>19, <2>1 DEF Gate, PlainStep, state_vars, life_vars, request_vars, history_vars
  <1>20. ASSUME NEW t \in Threads, Register(t) PROVE SlotStep
    <2>1. call[t].serial # 0
      BY <1>20 DEF Register, At, CarryInv
    <2>2. call'[t].serial = 0 /\ call'[t].status = "success" /\ OtherSlots(t)
      BY <1>20, MoveFacts, MoveSlots DEF Register, Quits, Idle
    <2>3. ~in_use => CutBy(call[t].serial)
      BY <1>20 DEF Register, CancelPending, ClearMap, CutBy, state_vars
    <2>4. NewStep(t)
      BY <1>20, <2>1, <2>2, <2>3
        DEF Register, NewStep, state_vars, life_vars, history_vars
    <2>5. QED
      BY <2>4
  <1>21. ASSUME NEW t \in Threads, Fire(t) PROVE SlotStep
    BY <1>21, FireKind
  <1>22. ASSUME NEW t \in Threads, ResolveTest(t) PROVE SlotStep
    BY <1>22, ResolveTestKind
  <1>23. ASSUME NEW t \in Threads, ResolveMap(t) PROVE SlotStep
    BY <1>23, ResolveMapKind
  <1>24. ASSUME NEW r \in DOMAIN requests, PollLost(r), PollFrame PROVE SlotStep
    BY <1>24, PollKind
  <1>25. ASSUME NEW r \in DOMAIN requests, PollPassed(r), PollFrame PROVE SlotStep
    BY <1>25, PollKind
  <1>26. ASSUME NEW r \in DOMAIN requests, PollFails(r), PollFrame PROVE SlotStep
    BY <1>26, PollKind
  <1>27. ASSUME NEW r \in DOMAIN requests, Cancel(r), PollFrame PROVE SlotStep
    BY <1>27, PollKind
  <1>28. CASE Complete
    <2>1. SameSlots
      BY <1>28, MoveSlots DEF Complete, SameSlots
    <2>2. QED
      BY <1>28, <2>1 DEF Complete, PlainStep, state_vars, life_vars, request_vars,
         history_vars
  <1>29. CASE EndOfUse
    <2>1. SameSlots
      BY <1>29, MoveSlots DEF EndOfUse, SameSlots
    <2>2. QED
      BY <1>29, <2>1 DEF EndOfUse, PlainStep, state_vars, life_vars, request_vars,
         history_vars
  <1>30. CASE UNCHANGED vars
    <2>1. SameSlots
      BY <1>30, MoveSlots DEF vars, SameSlots
    <2>2. QED
      BY <1>30, <2>1 DEF vars, PlainStep, state_vars, life_vars, request_vars, history_vars
  <1>31. QED
    BY <1>1, <1>2, <1>3, <1>4, <1>5, <1>6, <1>7, <1>8, <1>9, <1>10, <1>11, <1>12, <1>13,
       <1>14, <1>15, <1>16, <1>17, <1>18, <1>19, <1>20, <1>21, <1>22, <1>23, <1>24, <1>25,
       <1>26, <1>27, <1>28, <1>29, <1>30, StepCases

\* What the new list of requests holds.
LEMMA NewFacts ==
  ASSUME Shape, NEW t \in Threads, NewStep(t), NEW i \in DOMAIN requests'
  PROVE  \/ i \in DOMAIN requests /\ requests'[i] = requests[i]
         \/ /\ i \notin DOMAIN requests /\ i = Len(requests) + 1
            /\ requests'[i].serial = call[t].serial
            /\ \/ requests'[i] = NewRequest(t) /\ UNCHANGED <<map_state, pending_map>>
               \/ requests'[i] = Ended(call[t].serial, "cancelled") /\ CutBy(call[t].serial)
  <1>1. requests \in Seq(RequestSet) /\ call[t] \in Calls
    BY ShapeFacts DEF Shape
  <1>2. NewRequest(t) \in RequestSet /\ NewRequest(t).serial = call[t].serial
    BY <1>1 DEF NewRequest, RequestSet, Calls
  <1>3. /\ Ended(call[t].serial, "cancelled") \in RequestSet
        /\ Ended(call[t].serial, "cancelled").serial = call[t].serial
    BY <1>1, EndedTyped DEF Ended, Calls, Outcomes
  <1>4. CASE requests' = Append(requests, NewRequest(t)) /\ UNCHANGED <<map_state, pending_map>>
    BY <1>1, <1>2, <1>4, AppendFacts
  <1>5. CASE /\ requests' = Append(requests, Ended(call[t].serial, "cancelled"))
             /\ CutBy(call[t].serial)
    BY <1>1, <1>3, <1>5, AppendFacts
  <1>6. QED
    BY <1>4, <1>5 DEF NewStep

\* A step on one request leaves the serials.
LEMMA OneFacts ==
  ASSUME Shape, OneRequest
  PROVE  /\ SameSlots /\ next_map_serial' = next_map_serial /\ ended' = ended
         /\ DOMAIN requests' = DOMAIN requests
         /\ \A i \in DOMAIN requests : requests'[i].serial = requests[i].serial
  <1>1. PICK r \in DOMAIN requests :
          RequestMoves(r) \/ RequestFails(r) \/ RequestEnds(r) \/ RequestSettles(r)
    BY DEF OneRequest
  <1>2. \E q : Becomes(r, q) /\ q.serial = requests[r].serial
    <2>1. \A o : Ended(requests[r].serial, o).serial = requests[r].serial
      BY DEF Ended
    <2>2. QED
      BY <1>1, <2>1 DEF RequestMoves, RequestFails, RequestEnds, RequestSettles
  <1>3. QED
    BY <1>2 DEF Becomes, OneRequest

LEMMA OwnerNext ==
  ASSUME Shape, SerialInv, OwnerInv, SlotStep
  PROVE  OwnerInv'
  <1>1. CASE PlainStep
    BY <1>1 DEF PlainStep, SameSlots, OwnerInv
  <1>2. ASSUME NEW t \in Threads, MapStep(t) PROVE OwnerInv'
    <2>1. /\ call'[t].serial = next_map_serial + 1 /\ requests' = requests
          /\ \A u \in Threads \ {t} : call'[u].serial = call[u].serial
      BY <1>2 DEF MapStep, OtherSlots
    <2>2. /\ next_map_serial + 1 # 0
          /\ \A u \in Threads : call[u].serial # next_map_serial + 1
          /\ \A r \in DOMAIN requests : requests[r].serial # next_map_serial + 1
      <3>1. next_map_serial \in Nat
        BY DEF Shape
      <3>2. ASSUME NEW u \in Threads PROVE call[u].serial # next_map_serial + 1
        <4>1. call[u].serial \in Nat /\ call[u].serial <= next_map_serial
          BY ShapeFacts DEF Calls, SerialInv
        <4>2. QED
          BY <3>1, <4>1
      <3>3. ASSUME NEW r \in DOMAIN requests PROVE requests[r].serial # next_map_serial + 1
        <4>1. requests[r].serial \in Nat /\ requests[r].serial <= next_map_serial
          BY ShapeFacts DEF RequestSet, SerialInv
        <4>2. QED
          BY <3>1, <4>1
      <3>4. QED
        BY <3>1, <3>2, <3>3
    <2>3. QED
      BY <2>1, <2>2 DEF OwnerInv
  <1>3. ASSUME NEW t \in Threads, AbortStep(t) PROVE OwnerInv'
    BY <1>3 DEF AbortStep, OtherSlots, OwnerInv
  <1>4. ASSUME NEW t \in Threads, NewStep(t) PROVE OwnerInv'
    <2>1. /\ call[t].serial # 0 /\ call'[t].serial = 0
          /\ \A u \in Threads \ {t} : call'[u].serial = call[u].serial
      BY <1>4 DEF NewStep, OtherSlots
    <2>2. \A i \in DOMAIN requests' :
            \/ i \in DOMAIN requests /\ requests'[i] = requests[i]
            \/ i = Len(requests) + 1 /\ requests'[i].serial = call[t].serial
      BY <1>4, NewFacts
    <2>3. \A u, v \in Threads :
            call'[u].serial # 0 /\ call'[u].serial = call'[v].serial => u = v
      BY <2>1 DEF OwnerInv
    <2>4. ASSUME NEW u \in Threads, NEW r \in DOMAIN requests'
          PROVE  call'[u].serial # requests'[r].serial
      BY <2>1, <2>2 DEF OwnerInv
    <2>5. ASSUME NEW q \in DOMAIN requests', NEW r \in DOMAIN requests',
                 requests'[q].serial = requests'[r].serial
          PROVE  q = r
      BY <2>2, <2>5 DEF OwnerInv
    <2>6. \A r \in DOMAIN requests' : requests'[r].serial # 0
      BY <2>1, <2>2 DEF OwnerInv
    <2>7. QED
      BY <2>3, <2>4, <2>5, <2>6 DEF OwnerInv
  <1>5. CASE OneRequest
    BY <1>5, OneFacts DEF SameSlots, OwnerInv
  <1>6. QED
    BY <1>1, <1>2, <1>3, <1>4, <1>5 DEF SlotStep

\* What a cut leaves is still given out, and is not the serial that was cut.
LEMMA CutFacts ==
  ASSUME NEW s, CutBy(s)
  PROVE  /\ pending_map' = NoMap \/ pending_map' = pending_map
         /\ s # 0 => pending_map'.serial # s
  BY DEF CutBy, NoMap

LEMMA PastNext ==
  ASSUME Shape, SerialInv, PastInv, SlotStep
  PROVE  PastInv'
  <1>0. /\ next_map_serial \in Nat /\ NoMap.serial = 0 /\ pending_map.serial \in Nat
    BY DEF Shape, NoMap, Maps
  <1>1. CASE PlainStep
    BY <1>0, <1>1 DEF PlainStep, PastInv
  <1>2. ASSUME NEW t \in Threads, MapStep(t) PROVE PastInv'
    <2>1. /\ pending_map'.serial = next_map_serial + 1
          /\ next_map_serial' = next_map_serial + 1 /\ granted' = granted
      BY <1>2 DEF MapStep
    <2>2. granted \subseteq 1 .. (next_map_serial + 1)
      BY <1>0 DEF PastInv
    <2>3. QED
      BY <1>0, <2>1, <2>2 DEF PastInv
  <1>3. ASSUME NEW t \in Threads, AbortStep(t) PROVE PastInv'
    BY <1>0, <1>3, CutFacts DEF AbortStep, PastInv
  <1>4. ASSUME NEW t \in Threads, NewStep(t) PROVE PastInv'
    BY <1>0, <1>4, CutFacts DEF NewStep, PastInv
  <1>5. CASE OneRequest
    <2>1. PICK r \in DOMAIN requests :
            RequestMoves(r) \/ RequestFails(r) \/ RequestEnds(r) \/ RequestSettles(r)
      BY <1>5 DEF OneRequest
    <2>2. next_map_serial' = next_map_serial
      BY <1>5 DEF OneRequest
    <2>3. pending_map' = NoMap \/ pending_map' = pending_map
      BY <2>1, CutFacts DEF RequestMoves, RequestFails, RequestEnds, RequestSettles
    <2>4. granted' = granted \/ (pending_map # NoMap /\ granted' = granted \cup {pending_map.serial})
      BY <2>1 DEF RequestMoves, RequestFails, RequestEnds, RequestSettles
    <2>5. granted' \subseteq 1 .. next_map_serial
      <3>1. pending_map # NoMap => pending_map.serial \in 1 .. next_map_serial
        BY <1>0 DEF PastInv
      <3>2. QED
        BY <2>4, <3>1 DEF PastInv
    <2>6. QED
      BY <1>0, <2>2, <2>3, <2>5 DEF PastInv
  <1>6. QED
    BY <1>1, <1>2, <1>3, <1>4, <1>5 DEF SlotStep

\* GrantInv of one request, whatever is granted and pending.
Honest(q, g, p) ==
  /\ q.serial \in g <=> q.phase = "done" /\ q.outcome = "success"
  /\ q.status # "success" \/ ~q.buffer => q.serial # p.serial
  /\ ~q.buffer /\ q.phase # "done" => q.status # "success"
Failed(c, g, p) ==
  /\ c.serial \notin g
  /\ c.status = "error" => c.serial \notin {0, p.serial}

LEMMA GrantNext ==
  ASSUME Shape, SerialInv, PastInv, OwnerInv, GrantInv, SlotStep
  PROVE  GrantInv'
  <1> DEFINE Calls1 == \A t \in Threads : Failed(call'[t], granted', pending_map')
             Reqs1  == \A r \in DOMAIN requests' :
                         Honest(requests'[r], granted', pending_map')
  <1>g. SUFFICES Calls1 /\ Reqs1
    BY DEF GrantInv, Honest, Failed
  <1>0. /\ \A t \in Threads : Failed(call[t], granted, pending_map)
        /\ \A r \in DOMAIN requests : Honest(requests[r], granted, pending_map)
        /\ \A r \in DOMAIN requests : requests[r].serial # 0
        /\ NoMap.serial = 0 /\ 0 \notin granted
    BY DEF GrantInv, Honest, Failed, OwnerInv, NoMap, PastInv
  <1>n. /\ next_map_serial \in Nat /\ next_map_serial + 1 # 0
        /\ next_map_serial + 1 \notin granted
        /\ \A u \in Threads : call[u].serial # next_map_serial + 1
        /\ \A r \in DOMAIN requests : requests[r].serial # next_map_serial + 1
    <2>1. next_map_serial \in Nat
      BY DEF Shape
    <2>2. ASSUME NEW u \in Threads PROVE call[u].serial # next_map_serial + 1
      <3>1. call[u].serial \in Nat /\ call[u].serial <= next_map_serial
        BY ShapeFacts DEF Calls, SerialInv
      <3>2. QED
        BY <2>1, <3>1
    <2>3. ASSUME NEW r \in DOMAIN requests PROVE requests[r].serial # next_map_serial + 1
      <3>1. requests[r].serial \in Nat /\ requests[r].serial <= next_map_serial
        BY ShapeFacts DEF RequestSet, SerialInv
      <3>2. QED
        BY <2>1, <3>1
    <2>4. next_map_serial + 1 \notin granted
      BY <2>1 DEF PastInv
    <2>5. QED
      BY <2>1, <2>2, <2>3, <2>4
  <1>1. CASE PlainStep
    <2>1. /\ requests' = requests /\ granted' = granted
          /\ pending_map' = pending_map \/ pending_map' = NoMap
          /\ \A u \in Threads : /\ call'[u].serial = call[u].serial
                                /\ call'[u].status = call[u].status
      BY <1>1 DEF PlainStep, SameSlots
    <2>2. QED
      BY <1>0, <2>1 DEF Failed, Honest
  <1>2. ASSUME NEW t \in Threads, MapStep(t) PROVE Calls1 /\ Reqs1
    <2>1. /\ requests' = requests /\ granted' = granted
          /\ pending_map'.serial = next_map_serial + 1
          /\ call[t].serial = 0 /\ call'[t].serial = next_map_serial + 1
          /\ call'[t].status = call[t].status
          /\ \A u \in Threads \ {t} : /\ call'[u].serial = call[u].serial
                                      /\ call'[u].status = call[u].status
      BY <1>2 DEF MapStep, OtherSlots
    <2>2. call'[t].status # "error"
      BY <1>0, <2>1 DEF Failed
    <2>3. Calls1
      BY <1>0, <1>n, <2>1, <2>2 DEF Failed
    <2>4. Reqs1
      BY <1>0, <1>n, <2>1 DEF Honest
    <2>5. QED
      BY <2>3, <2>4
  <1>3. ASSUME NEW t \in Threads, AbortStep(t) PROVE Calls1 /\ Reqs1
    <2>1. /\ requests' = requests /\ granted' = granted
          /\ call[t].serial # 0 /\ call'[t].serial = call[t].serial
          /\ \A u \in Threads \ {t} : /\ call'[u].serial = call[u].serial
                                      /\ call'[u].status = call[u].status
      BY <1>3 DEF AbortStep, OtherSlots
    <2>2. /\ pending_map' = NoMap \/ pending_map' = pending_map
          /\ pending_map'.serial # call[t].serial
      BY <1>3, <2>1, CutFacts DEF AbortStep
    <2>3. QED
      BY <1>0, <2>1, <2>2 DEF Failed, Honest
  <1>4. ASSUME NEW t \in Threads, NewStep(t) PROVE Calls1 /\ Reqs1
    <2>1. /\ call[t].serial # 0 /\ call'[t].serial = 0 /\ granted' = granted
          /\ call'[t].status = "success"
          /\ \A u \in Threads \ {t} : /\ call'[u].serial = call[u].serial
                                      /\ call'[u].status = call[u].status
      BY <1>4 DEF NewStep, OtherSlots
    <2>2. pending_map' = NoMap \/ pending_map' = pending_map
      BY <1>4, CutFacts DEF NewStep
    <2>3. Calls1
      BY <1>0, <2>1, <2>2 DEF Failed
    <2>4. ASSUME NEW i \in DOMAIN requests' PROVE Honest(requests'[i], granted', pending_map')
      <3>1. CASE i \in DOMAIN requests /\ requests'[i] = requests[i]
        BY <1>0, <2>1, <2>2, <3>1 DEF Honest
      <3>2. CASE requests'[i] = NewRequest(t) /\ pending_map' = pending_map
        BY <1>0, <2>1, <3>2, ShapeFacts DEF Honest, Failed, NewRequest, Calls
      <3>3. CASE requests'[i] = Ended(call[t].serial, "cancelled") /\ CutBy(call[t].serial)
        <4>1. pending_map'.serial # call[t].serial
          BY <2>1, <3>3, CutFacts
        <4>2. QED
          BY <1>0, <2>1, <3>3, <4>1 DEF Honest, Failed, Ended
      <3>4. QED
        BY <1>4, <3>1, <3>2, <3>3, NewFacts
    <2>5. QED
      BY <2>3, <2>4
  <1>5. CASE OneRequest
    <2>1. PICK r \in DOMAIN requests :
            RequestMoves(r) \/ RequestFails(r) \/ RequestEnds(r) \/ RequestSettles(r)
      BY <1>5 DEF OneRequest
    <2>2. \A u \in Threads : /\ call'[u].serial = call[u].serial
                             /\ call'[u].status = call[u].status
      BY <1>5 DEF OneRequest, SameSlots
    <2>3. PICK q : Becomes(r, q)
      BY <2>1 DEF RequestMoves, RequestFails, RequestEnds, RequestSettles
    <2>4. /\ DOMAIN requests' = DOMAIN requests /\ requests'[r] = q
          /\ \A i \in DOMAIN requests : i # r => requests'[i] = requests[i]
      BY <2>3 DEF Becomes
    <2>5. pending_map' = NoMap \/ pending_map' = pending_map
      BY <2>1, CutFacts DEF RequestMoves, RequestFails, RequestEnds, RequestSettles
    <2>6. granted' = granted \/ granted' = granted \cup {requests[r].serial}
      BY <2>1 DEF RequestMoves, RequestFails, RequestEnds, RequestSettles
    <2>7. Calls1
      BY <1>0, <2>2, <2>5, <2>6 DEF Failed, OwnerInv
    <2>8. ASSUME NEW i \in DOMAIN requests, i # r
          PROVE  Honest(requests'[i], granted', pending_map')
      <3>1. requests[i].serial # requests[r].serial
        BY <2>8 DEF OwnerInv
      <3>2. QED
        BY <1>0, <2>4, <2>5, <2>6, <2>8, <3>1 DEF Honest
    <2>9. Honest(requests'[r], granted', pending_map')
      <3>1. /\ requests[r].serial # 0 /\ Honest(requests[r], granted, pending_map)
            /\ \A o : /\ Ended(requests[r].serial, o).serial = requests[r].serial
                      /\ Ended(requests[r].serial, o).phase = "done"
                      /\ Ended(requests[r].serial, o).outcome = o
        BY <1>0 DEF Ended
      <3>2. CASE RequestMoves(r)
        BY <2>4, <3>1, <3>2 DEF RequestMoves, Becomes, Honest
      <3>3. CASE RequestFails(r)
        BY <2>4, <3>1, <3>3, CutFacts DEF RequestFails, Becomes, Honest
      <3>4. CASE RequestEnds(r)
        BY <2>4, <3>1, <3>4, CutFacts DEF RequestEnds, Becomes, Honest
      <3>5. CASE RequestSettles(r)
        BY <1>0, <2>4, <3>1, <3>5 DEF RequestSettles, Becomes, Honest
      <3>6. QED
        BY <2>1, <3>2, <3>3, <3>4, <3>5
    <2>10. QED
      BY <2>4, <2>7, <2>8, <2>9
  <1>6. QED
    BY <1>1, <1>2, <1>3, <1>4, <1>5 DEF SlotStep

\* OnlyOwnAbort, thread by thread and request by request.
Under(s) == s \in ended \/ (pending_map.serial = s /\ map_state = "pending")
StillUnder(s) == s \in ended' \/ (pending_map'.serial = s /\ map_state' = "pending")
AllUnder ==
  /\ \A t \in Threads : call[t].serial # 0 /\ call[t].status = "success"
                          => Under(call[t].serial)
  /\ \A r \in DOMAIN requests : requests[r].phase # "done" /\ requests[r].status = "success"
                                  => Under(requests[r].serial)

StillAllUnder ==
  /\ \A t \in Threads : call'[t].serial # 0 /\ call'[t].status = "success"
                          => StillUnder(call'[t].serial)
  /\ \A r \in DOMAIN requests' : requests'[r].phase # "done" /\ requests'[r].status = "success"
                                  => StillUnder(requests'[r].serial)

LEMMA UnderIs == OnlyOwnAbort <=> AllUnder
  BY DEF OnlyOwnAbort, AllUnder, Under, StillUnder, Outstanding

LEMMA UnderNext == StillAllUnder => OnlyOwnAbort'
  <1> SUFFICES ASSUME StillAllUnder PROVE OnlyOwnAbort'
    OBVIOUS
  <1> SUFFICES ASSUME NEW s \in Outstanding' PROVE StillUnder(s)
    BY DEF OnlyOwnAbort, Under, StillUnder
  <1>1. CASE \E t \in Threads :
               call'[t].serial # 0 /\ call'[t].status = "success" /\ s = call'[t].serial
    BY <1>1 DEF StillAllUnder, Under, StillUnder
  <1>2. CASE \E r \in DOMAIN requests' :
               /\ requests'[r].phase # "done" /\ requests'[r].status = "success"
               /\ s = requests'[r].serial
    BY <1>2 DEF StillAllUnder, Under, StillUnder
  <1>3. QED
    BY <1>1, <1>2 DEF Outstanding

LEMMA AbortNext ==
  ASSUME Shape, AgreeInv, SerialInv, PastInv, OwnerInv, GrantInv, OnlyOwnAbort, SlotStep
  PROVE  OnlyOwnAbort'
  <1>0. /\ \A t \in Threads : call[t].serial # 0 /\ call[t].status = "success"
                                => Under(call[t].serial)
        /\ \A r \in DOMAIN requests :
             requests[r].phase # "done" /\ requests[r].status = "success"
               => Under(requests[r].serial)
        /\ \A r \in DOMAIN requests : requests[r].serial # 0
    BY UnderIs DEF AllUnder, OwnerInv
  <1>g. SUFFICES StillAllUnder
    BY UnderNext
  <1>1. CASE PlainStep
    <2>1. /\ requests' = requests
          /\ \A u \in Threads : /\ call'[u].serial = call[u].serial
                                /\ call'[u].status = call[u].status
      BY <1>1 DEF PlainStep, SameSlots
    <2>2. ASSUME NEW s, s # 0, Under(s) PROVE StillUnder(s)
      BY <1>1, <2>2 DEF PlainStep, Under, StillUnder
    <2>3. QED
      BY <1>0, <2>1, <2>2 DEF StillAllUnder
  <1>2. ASSUME NEW t \in Threads, MapStep(t) PROVE StillAllUnder
    <2>1. /\ requests' = requests /\ ended' = ended
          /\ pending_map'.serial = next_map_serial + 1 /\ map_state' = "pending"
          /\ map_state = "unmapped"
          /\ call'[t].serial = next_map_serial + 1
          /\ \A u \in Threads \ {t} : /\ call'[u].serial = call[u].serial
                                      /\ call'[u].status = call[u].status
      BY <1>2 DEF MapStep, OtherSlots
    <2>2. ASSUME NEW s, Under(s) PROVE StillUnder(s)
      BY <2>1, <2>2 DEF Under, StillUnder
    <2>3. StillUnder(call'[t].serial)
      BY <2>1 DEF Under, StillUnder
    <2>4. QED
      BY <1>0, <2>1, <2>2, <2>3 DEF StillAllUnder
  <1>3. ASSUME NEW t \in Threads, AbortStep(t) PROVE StillAllUnder
    <2>1. /\ requests' = requests /\ ended' = ended
          /\ call[t].serial # 0 /\ CutBy(call[t].serial)
          /\ call'[t].status = "error"
          /\ \A u \in Threads \ {t} : /\ call'[u].serial = call[u].serial
                                      /\ call'[u].status = call[u].status
      BY <1>3 DEF AbortStep, OtherSlots
    <2>2. ASSUME NEW s, s # call[t].serial, Under(s) PROVE StillUnder(s)
      BY <2>1, <2>2 DEF CutBy, Under, StillUnder
    <2>3. ASSUME NEW u \in Threads, call'[u].serial # 0, call'[u].status = "success"
          PROVE  StillUnder(call'[u].serial)
      <3>1. u # t /\ call'[u].serial = call[u].serial /\ call'[u].status = call[u].status
        BY <2>1, <2>3
      <3>2. call[u].serial # call[t].serial /\ Under(call[u].serial)
        BY <1>0, <2>1, <2>3, <3>1 DEF OwnerInv
      <3>3. PICK s : s = call'[u].serial
        OBVIOUS
      <3>4. StillUnder(s)
        BY <2>2, <3>1, <3>2, <3>3
      <3>5. QED
        BY <3>3, <3>4
    <2>4. ASSUME NEW r \in DOMAIN requests', requests'[r].phase # "done",
                 requests'[r].status = "success"
          PROVE  StillUnder(requests'[r].serial)
      <3>1. requests[r].serial # call[t].serial /\ Under(requests[r].serial)
        BY <1>0, <2>1, <2>4 DEF OwnerInv
      <3>2. QED
        BY <2>1, <2>2, <3>1
    <2>5. QED
      BY <2>3, <2>4 DEF StillAllUnder
  <1>4. ASSUME NEW t \in Threads, NewStep(t) PROVE StillAllUnder
    <2>1. /\ ended' = ended /\ call[t].serial # 0 /\ call'[t].serial = 0
          /\ \A u \in Threads \ {t} : /\ call'[u].serial = call[u].serial
                                      /\ call'[u].status = call[u].status
      BY <1>4 DEF NewStep, OtherSlots
    <2>2. UNCHANGED <<map_state, pending_map>> \/ CutBy(call[t].serial)
      BY <1>4 DEF NewStep
    <2>3. ASSUME NEW s, s # call[t].serial, Under(s) PROVE StillUnder(s)
      BY <2>1, <2>2, <2>3 DEF CutBy, Under, StillUnder
    <2>4. ASSUME NEW u \in Threads, call'[u].serial # 0, call'[u].status = "success"
          PROVE  StillUnder(call'[u].serial)
      <3>1. u # t /\ call'[u].serial = call[u].serial /\ call'[u].status = call[u].status
        BY <2>1, <2>4
      <3>2. call[u].serial # call[t].serial /\ Under(call[u].serial)
        BY <1>0, <2>1, <2>4, <3>1 DEF OwnerInv
      <3>3. PICK s : s = call'[u].serial
        OBVIOUS
      <3>4. StillUnder(s)
        BY <2>3, <3>1, <3>2, <3>3
      <3>5. QED
        BY <3>3, <3>4
    <2>5. ASSUME NEW r \in DOMAIN requests', requests'[r].phase # "done",
                 requests'[r].status = "success"
          PROVE  StillUnder(requests'[r].serial)
      <3>1. CASE r \in DOMAIN requests /\ requests'[r] = requests[r]
        <4>1. requests[r].serial # call[t].serial /\ Under(requests[r].serial)
          BY <1>0, <2>5, <3>1 DEF OwnerInv
        <4>2. QED
          BY <2>3, <3>1, <4>1
      <3>2. CASE requests'[r] = NewRequest(t) /\ UNCHANGED <<map_state, pending_map>>
        <4>1. call[t].status = "success" /\ requests'[r].serial = call[t].serial
          BY <2>5, <3>2 DEF NewRequest
        <4>2. Under(call[t].serial)
          BY <1>0, <2>1, <4>1
        <4>3. QED
          BY <2>1, <3>2, <4>1, <4>2 DEF Under, StillUnder
      <3>3. CASE requests'[r] = Ended(call[t].serial, "cancelled")
        BY <2>5, <3>3 DEF Ended
      <3>4. QED
        BY <1>4, <3>1, <3>2, <3>3, NewFacts
    <2>6. QED
      BY <2>4, <2>5 DEF StillAllUnder
  <1>5. CASE OneRequest
    <2>1. PICK r \in DOMAIN requests :
            RequestMoves(r) \/ RequestFails(r) \/ RequestEnds(r) \/ RequestSettles(r)
      BY <1>5 DEF OneRequest
    <2>2. /\ ended' = ended
          /\ \A u \in Threads : /\ call'[u].serial = call[u].serial
                                /\ call'[u].status = call[u].status
      BY <1>5 DEF OneRequest, SameSlots
    <2>3. PICK q : Becomes(r, q)
      BY <2>1 DEF RequestMoves, RequestFails, RequestEnds, RequestSettles
    <2>4. /\ DOMAIN requests' = DOMAIN requests /\ requests'[r] = q
          /\ \A i \in DOMAIN requests : i # r => requests'[i] = requests[i]
      BY <2>3 DEF Becomes
    <2>5. ASSUME NEW s, s # requests[r].serial, Under(s) PROVE StillUnder(s)
      BY <2>1, <2>2, <2>5
        DEF RequestMoves, RequestFails, RequestEnds, RequestSettles, CutBy, Under,
            StillUnder
    <2>6. ASSUME NEW u \in Threads, call'[u].serial # 0, call'[u].status = "success"
          PROVE  StillUnder(call'[u].serial)
      <3>1. call[u].serial # requests[r].serial /\ Under(call[u].serial)
        BY <1>0, <2>2, <2>6 DEF OwnerInv
      <3>2. PICK s : s = call'[u].serial
        OBVIOUS
      <3>3. StillUnder(s)
        BY <2>2, <2>5, <3>1, <3>2
      <3>4. QED
        BY <3>2, <3>3
    <2>7. ASSUME NEW i \in DOMAIN requests, i # r, requests'[i].phase # "done",
                 requests'[i].status = "success"
          PROVE  StillUnder(requests'[i].serial)
      <3>1. requests'[i] = requests[i] /\ requests[i].serial # requests[r].serial
        BY <2>4, <2>7 DEF OwnerInv
      <3>2. Under(requests[i].serial)
        BY <1>0, <2>7, <3>1
      <3>3. QED
        BY <2>5, <3>1, <3>2
    <2>8. ASSUME requests'[r].phase # "done", requests'[r].status = "success"
          PROVE  StillUnder(requests'[r].serial)
      <3>1. \A o : Ended(requests[r].serial, o).phase = "done"
        BY DEF Ended
      <3>2. RequestMoves(r)
        BY <2>1, <2>8, <3>1 DEF RequestFails, RequestEnds, RequestSettles, Becomes
      <3>3. /\ requests[r].phase # "done" /\ UNCHANGED <<map_state, pending_map>>
            /\ requests'[r].serial = requests[r].serial
            /\ requests[r].status = "success"
        BY <2>8, <3>2 DEF RequestMoves, Becomes
      <3>4. Under(requests[r].serial)
        BY <1>0, <3>3
      <3>5. QED
        BY <2>2, <3>3, <3>4 DEF Under, StillUnder
    <2>9. QED
      BY <2>4, <2>6, <2>7, <2>8 DEF StillAllUnder
  <1>6. QED
    BY <1>1, <1>2, <1>3, <1>4, <1>5 DEF SlotStep

LEMMA MapInvNext ==
  ASSUME IInv, MapInv, OnlyOwnAbort, [Next]_vars
  PROVE  MapInv' /\ OnlyOwnAbort'
  <1>1. Shape /\ AgreeInv /\ SerialInv /\ FireInv
    BY DEF IInv
  <1>2. SlotStep
    BY <1>1, SlotCases DEF MapInv
  <1>3. QED
    BY <1>1, <1>2, HostNext, CarryNext, OwnerNext, PastNext, GrantNext, AbortNext DEF MapInv

LEMMA MapInvInit == Init => MapInv /\ OnlyOwnAbort
  <1> SUFFICES ASSUME Init PROVE MapInv /\ OnlyOwnAbort
    OBVIOUS
  <1>1. /\ call = [t \in Threads |-> Idle] /\ DOMAIN requests = {}
        /\ Idle.at = "idle" /\ Idle.serial = 0 /\ Idle.status = "success" /\ Idle.op = "none"
        /\ pending_map = NoMap /\ NoMap.serial = 0 /\ next_map_serial = 0 /\ granted = {}
    BY DEF Init, Idle, NoMap
  <1>2. HostInv
    BY <1>1 DEF Init, HostInv, At, HalLive
  <1>3. CarryInv /\ OwnerInv /\ PastInv /\ GrantInv
    BY <1>1 DEF CarryInv, OwnerInv, PastInv, GrantInv, At
  <1>4. AllUnder
    BY <1>1 DEF AllUnder
  <1>5. QED
    BY <1>2, <1>3, <1>4, UnderIs DEF MapInv

\* The bookkeeping of serials holds in every behaviour.
LEMMA MapBooks == Spec => [](IInv /\ MapInv /\ OnlyOwnAbort)
  <1>1. IInv /\ (MapInv /\ OnlyOwnAbort) /\ [Next]_vars => IInv' /\ (MapInv /\ OnlyOwnAbort)'
    BY InvNext, MapInvNext
  <1>2. QED
    BY <1>1, InvInit, MapInvInit, PTL DEF Spec

\* The status a map callback reports is what happened: success exactly when this
\* very request mapped the buffer, whatever races with its two sections.
THEOREM CallbackIsHonest == Spec => []OutcomeTrue
  <1>1. MapInv => OutcomeTrue
    BY DEF MapInv, GrantInv, OutcomeTrue
  <1>2. QED
    BY <1>1, MapBooks, PTL

\* A request that is under way stays pending until the application ends it or its
\* own callback settles it: nothing that belongs to another request aborts it.
THEOREM OthersLeaveItPending == Spec => []OnlyOwnAbort
  BY MapBooks, PTL

\* The storage behind the pointers of a mapped buffer is not freed, though unmap
\* frees it after it has released the state lock.
THEOREM MappingIsBacked == Spec => []Backed
  <1>1. IInv /\ MapInv => Backed
    BY DEF IInv, AgreeInv, StateAgrees, MapInv, HostInv, Backed, HalLive
  <1>2. QED
    BY <1>1, MapBooks, PTL

-----------------------------------------------------------------------------
(* The newest write.                                                       *)

QueueLabels == {"stage", "lower", "hal_submit"}

\* A step that leaves the data and the queue alone, and maps nothing.
DataStays ==
  /\ UNCHANGED <<usage, direct, is_error, mem, host, newest, staged, carry, gpu, done,
                 lost, misreported, refused>>
  /\ is_destroyed => is_destroyed'
  /\ \A u \in Threads, l \in QueueLabels : call'[u].at = l <=> call[u].at = l
  /\ map_state' = "mapped" => map_state = "mapped" /\ active_map' = active_map
  /\ map_state = "mapped" => map_state' = "mapped" \/ is_destroyed'

DataStep ==
  \/ DataStays
  \/ \E t \in Threads : Unmap(t) /\ map_state = "mapped"
  \/ \E t \in Threads : WriteMapped(t)
  \/ \E t \in Threads : Lose(t)
  \/ \E t \in Threads : Enter(t)
  \/ \E t \in Threads : Stage(t)
  \/ \E t \in Threads : Lower(t)
  \/ \E t \in Threads : HalSubmit(t)
  \/ \E t \in Threads : ResolveMap(t)
  \/ Complete


LEMMA Pends ==
  ASSUME AgreeInv
  PROVE  pending_map # NoMap => map_state = "pending"
  BY DEF AgreeInv, StateAgrees

\* Every step keeps the data, or is one of the few that move it.
LEMMA DataCases ==
  ASSUME Shape, AgreeInv, LockInv, [Next]_vars
  PROVE  DataStep

  <1>1. ASSUME NEW t \in Threads, Unmap(t) PROVE DataStep
    <2>1. CASE map_state = "mapped"
      BY <1>1, <2>1 DEF DataStep
    <2>2. CASE map_state # "mapped"
      <3>1. \A u \in Threads, l \in QueueLabels : call'[u].at = l <=> call[u].at = l
        BY <1>1, UnmapMove DEF At, Starts, Others, QueueLabels
      <3>2. active_map = "none"
        BY <2>2 DEF AgreeInv, StateAgrees
      <3>3. DataStays
        BY <1>1, <2>2, <3>1, <3>2
          DEF Unmap, FlushHostMap, ClearMap, DataStays, fixed_vars, data_vars,
              queue_vars, gpu_vars, error_vars, life_vars, state_vars
      <3>4. QED
        BY <3>3 DEF DataStep
    <2>3. QED
      BY <2>1, <2>2
  <1>2. ASSUME NEW t \in Threads, Destroy(t) PROVE DataStep
    <2>1. \A u \in Threads, l \in QueueLabels : call'[u].at = l <=> call[u].at = l
      BY <1>2, Zenon DEF Destroy
    <2>2. DataStays
      BY <1>2, <2>1
        DEF Destroy, ClearMap, DataStays, fixed_vars, data_vars, queue_vars, gpu_vars,
            error_vars, life_vars, state_vars
    <2>3. QED
      BY <2>2 DEF DataStep
  <1>3. ASSUME NEW t \in Threads, Release(t) PROVE DataStep
    <2>1. \A u \in Threads, l \in QueueLabels : call'[u].at = l <=> call[u].at = l
      BY <1>3, Zenon DEF Release
    <2>2. DataStays
      BY <1>3, <2>1, Pends
        DEF Release, ClearMap, EndPending, DataStays, fixed_vars, data_vars, queue_vars,
            gpu_vars, error_vars, life_vars, state_vars
    <2>3. QED
      BY <2>2 DEF DataStep
  <1>4. ASSUME NEW t \in Threads, MappedRange(t) PROVE DataStep
    <2>1. \A u \in Threads, l \in QueueLabels : call'[u].at = l <=> call[u].at = l
      BY <1>4, Zenon DEF MappedRange
    <2>2. DataStays
      BY <1>4, <2>1
        DEF MappedRange, DataStays, fixed_vars, data_vars, queue_vars, gpu_vars,
            error_vars, life_vars, state_vars
    <2>3. QED
      BY <2>2 DEF DataStep
  <1>5. ASSUME NEW t \in Threads, WriteMapped(t) PROVE DataStep
    BY <1>5 DEF DataStep
  <1>6. ASSUME NEW t \in Threads, BeginWrite(t) PROVE DataStep
    <2>1. \A u \in Threads, l \in QueueLabels : call'[u].at = l <=> call[u].at = l
      BY <1>6, MoveFacts DEF BeginWrite, At, Moves, Starts, Quits, Idle, Others, QueueLabels
    <2>2. DataStays
      BY <1>6, <2>1
        DEF BeginWrite, DataStays, fixed_vars, data_vars, queue_vars, gpu_vars,
            error_vars, life_vars, state_vars
    <2>3. QED
      BY <2>2 DEF DataStep
  <1>7. ASSUME NEW t \in Threads, BeginQueueCall(t) PROVE DataStep
    <2>1. \A u \in Threads, l \in QueueLabels : call'[u].at = l <=> call[u].at = l
      BY <1>7, MoveFacts DEF BeginQueueCall, At, Moves, Starts, Quits, Idle, Others,
         QueueLabels
    <2>2. DataStays
      BY <1>7, <2>1
        DEF BeginQueueCall, DataStays, fixed_vars, data_vars, queue_vars, gpu_vars,
            error_vars, life_vars, state_vars
    <2>3. QED
      BY <2>2 DEF DataStep
  <1>8. ASSUME NEW t \in Threads, Lose(t) PROVE DataStep
    BY <1>8 DEF DataStep
  <1>9. ASSUME NEW t \in Threads, BeginMapAsync(t) PROVE DataStep
    <2>1. \A u \in Threads, l \in QueueLabels : call'[u].at = l <=> call[u].at = l
      BY <1>9, MoveFacts DEF BeginMapAsync, At, Moves, Starts, Quits, Idle, Others,
         QueueLabels
    <2>2. DataStays
      BY <1>9, <2>1
        DEF BeginMapAsync, DataStays, fixed_vars, data_vars, queue_vars, gpu_vars,
            error_vars, life_vars, state_vars
    <2>3. QED
      BY <2>2 DEF DataStep
  <1>10. ASSUME NEW t \in Threads, Take(t) PROVE DataStep
    <2>1. \A u \in Threads, l \in QueueLabels : call'[u].at = l <=> call[u].at = l
      BY <1>10, TakeMove DEF Take, At, Moves, Starts, Quits, Idle, Others, QueueLabels
    <2>2. DataStays
      BY <1>10, <2>1
        DEF Take, DataStays, fixed_vars, data_vars, queue_vars, gpu_vars, error_vars,
            life_vars, state_vars
    <2>3. QED
      BY <2>2 DEF DataStep
  <1>11. ASSUME NEW t \in Threads, FreeHost(t) PROVE DataStep
    <2>1. \A u \in Threads, l \in QueueLabels : call'[u].at = l <=> call[u].at = l
      BY <1>11, MoveFacts DEF FreeHost, At, Moves, Starts, Quits, Idle, Others, QueueLabels
    <2>2. DataStays
      BY <1>11, <2>1
        DEF FreeHost, DataStays, fixed_vars, data_vars, queue_vars, gpu_vars,
            error_vars, life_vars, state_vars
    <2>3. QED
      BY <2>2 DEF DataStep
  <1>12. ASSUME NEW t \in Threads, Enter(t) PROVE DataStep
    BY <1>12 DEF DataStep
  <1>13. ASSUME NEW t \in Threads, Stage(t) PROVE DataStep
    BY <1>13 DEF DataStep
  <1>14. ASSUME NEW t \in Threads, Lower(t) PROVE DataStep
    BY <1>14 DEF DataStep
  <1>15. ASSUME NEW t \in Threads, HalSubmit(t) PROVE DataStep
    BY <1>15 DEF DataStep
  <1>16. ASSUME NEW t \in Threads, Record(t) PROVE DataStep
    <2>1. \A u \in Threads, l \in QueueLabels : call'[u].at = l <=> call[u].at = l
      BY <1>16, MoveFacts DEF Record, At, Moves, Starts, Quits, Idle, Others, QueueLabels
    <2>2. DataStays
      BY <1>16, <2>1
        DEF Record, Leave, LockInv, DataStays, fixed_vars, data_vars, queue_vars,
            gpu_vars, error_vars, life_vars, state_vars
    <2>3. QED
      BY <2>2 DEF DataStep
  <1>17. ASSUME NEW t \in Threads, BeginMap(t) PROVE DataStep
    <2>1. \A u \in Threads, l \in QueueLabels : call'[u].at = l <=> call[u].at = l
      BY <1>17, BeginMapMove DEF BeginMap, At, Moves, Starts, Quits, Idle, Others,
         QueueLabels
    <2>2. DataStays
      BY <1>17, <2>1
        DEF BeginMap, Mappable, DataStays, fixed_vars, data_vars, queue_vars, gpu_vars,
            error_vars, life_vars, state_vars
    <2>3. QED
      BY <2>2 DEF DataStep
  <1>18. ASSUME NEW t \in Threads, Abort(t) PROVE DataStep
    <2>1. \A u \in Threads, l \in QueueLabels : call'[u].at = l <=> call[u].at = l
      BY <1>18, AbortMove DEF Abort, At, Moves, Starts, Quits, Idle, Others, QueueLabels
    <2>2. DataStays
      BY <1>18, <2>1, Pends
        DEF Abort, CancelPending, ClearMap, DataStays, fixed_vars, data_vars,
            queue_vars, gpu_vars, error_vars, life_vars, state_vars
    <2>3. QED
      BY <2>2 DEF DataStep
  <1>19. ASSUME NEW t \in Threads, Gate(t) PROVE DataStep
    <2>1. \A u \in Threads, l \in QueueLabels : call'[u].at = l <=> call[u].at = l
      BY <1>19, GateMove DEF Gate, At, Moves, Starts, Quits, Idle, Others, QueueLabels
    <2>2. DataStays
      BY <1>19, <2>1
        DEF Gate, DataStays, fixed_vars, data_vars, queue_vars, gpu_vars, error_vars,
            life_vars, state_vars
    <2>3. QED
      BY <2>2 DEF DataStep
  <1>20. ASSUME NEW t \in Threads, Register(t) PROVE DataStep
    <2>1. \A u \in Threads, l \in QueueLabels : call'[u].at = l <=> call[u].at = l
      BY <1>20, MoveFacts DEF Register, At, Moves, Starts, Quits, Idle, Others, QueueLabels
    <2>2. DataStays
      BY <1>20, <2>1, Pends
        DEF Register, CancelPending, ClearMap, DataStays, fixed_vars, data_vars,
            queue_vars, gpu_vars, error_vars, life_vars, state_vars
    <2>3. QED
      BY <2>2 DEF DataStep
  <1>21. ASSUME NEW t \in Threads, Fire(t) PROVE DataStep
    <2>1. \A u \in Threads, l \in QueueLabels : call'[u].at = l <=> call[u].at = l
      BY <1>21, FiringMoves DEF Fire, At, Moves, Starts, Quits, Idle, Others, QueueLabels
    <2>2. DataStays
      BY <1>21, <2>1, Pends
        DEF Fire, CancelRequest, CancelPending, ClearMap, DataStays, fixed_vars,
            data_vars, queue_vars, gpu_vars, error_vars, life_vars, state_vars
    <2>3. QED
      BY <2>2 DEF DataStep
  <1>22. ASSUME NEW t \in Threads, ResolveTest(t) PROVE DataStep
    <2>1. \A u \in Threads, l \in QueueLabels : call'[u].at = l <=> call[u].at = l
      BY <1>22, FiringMoves DEF ResolveTest, At, Moves, Starts, Quits, Idle, Others,
         QueueLabels
    <2>2. DataStays
      BY <1>22, <2>1
        DEF ResolveTest, DataStays, fixed_vars, data_vars, queue_vars, gpu_vars,
            error_vars, life_vars, state_vars
    <2>3. QED
      BY <2>2 DEF DataStep
  <1>23. ASSUME NEW t \in Threads, ResolveMap(t) PROVE DataStep
    BY <1>23 DEF DataStep
  <1>24. ASSUME NEW r \in DOMAIN requests, PollLost(r), PollFrame PROVE DataStep
    <2>1. \A u \in Threads, l \in QueueLabels : call'[u].at = l <=> call[u].at = l
      BY <1>24, Zenon DEF PollFrame
    <2>2. DataStays
      BY <1>24, <2>1, Pends
        DEF PollFrame, PollLost, CancelRequest, CancelPending, ClearMap, DataStays,
            fixed_vars, data_vars, queue_vars, gpu_vars, error_vars, life_vars, state_vars
    <2>3. QED
      BY <2>2 DEF DataStep
  <1>25. ASSUME NEW r \in DOMAIN requests, PollPassed(r), PollFrame PROVE DataStep
    <2>1. \A u \in Threads, l \in QueueLabels : call'[u].at = l <=> call[u].at = l
      BY <1>25, Zenon DEF PollFrame
    <2>2. DataStays
      BY <1>25, <2>1, Pends
        DEF PollFrame, PollPassed, CancelRequest, CancelPending, ClearMap, DataStays,
            fixed_vars, data_vars, queue_vars, gpu_vars, error_vars, life_vars, state_vars
    <2>3. QED
      BY <2>2 DEF DataStep
  <1>26. ASSUME NEW r \in DOMAIN requests, PollFails(r), PollFrame PROVE DataStep
    <2>1. \A u \in Threads, l \in QueueLabels : call'[u].at = l <=> call[u].at = l
      BY <1>26, Zenon DEF PollFrame
    <2>2. DataStays
      BY <1>26, <2>1, Pends
        DEF PollFrame, PollFails, CancelRequest, CancelPending, ClearMap, DataStays,
            fixed_vars, data_vars, queue_vars, gpu_vars, error_vars, life_vars, state_vars
    <2>3. QED
      BY <2>2 DEF DataStep
  <1>27. ASSUME NEW r \in DOMAIN requests, Cancel(r), PollFrame PROVE DataStep
    <2>1. \A u \in Threads, l \in QueueLabels : call'[u].at = l <=> call[u].at = l
      BY <1>27, Zenon DEF PollFrame
    <2>2. DataStays
      BY <1>27, <2>1, Pends
        DEF PollFrame, Cancel, CancelRequest, CancelPending, ClearMap, DataStays,
            fixed_vars, data_vars, queue_vars, gpu_vars, error_vars, life_vars, state_vars
    <2>3. QED
      BY <2>2 DEF DataStep
  <1>28. CASE Complete
    BY <1>28 DEF DataStep
  <1>29. CASE EndOfUse
    <2>1. \A u \in Threads, l \in QueueLabels : call'[u].at = l <=> call[u].at = l
      BY <1>29, Zenon DEF EndOfUse
    <2>2. DataStays
      BY <1>29, <2>1
        DEF EndOfUse, DataStays, fixed_vars, data_vars, queue_vars, gpu_vars,
            error_vars, life_vars, state_vars
    <2>3. QED
      BY <2>2 DEF DataStep
  <1>30. CASE UNCHANGED vars
    <2>1. \A u \in Threads, l \in QueueLabels : call'[u].at = l <=> call[u].at = l
      BY <1>30, Zenon DEF vars
    <2>2. DataStays
      BY <1>30, <2>1
        DEF vars, DataStays, fixed_vars, data_vars, queue_vars, gpu_vars, error_vars,
            life_vars, state_vars
    <2>3. QED
      BY <2>2 DEF DataStep
  <1>31. QED
    BY <1>1, <1>2, <1>3, <1>4, <1>5, <1>6, <1>7, <1>8, <1>9, <1>10, <1>11, <1>12, <1>13,
       <1>14, <1>15, <1>16, <1>17, <1>18, <1>19, <1>20, <1>21, <1>22, <1>23, <1>24, <1>25,
       <1>26, <1>27, <1>28, <1>29, <1>30, StepCases

\* One thread at most is inside, and none when the mutex is free.
LEMMA Alone ==
  ASSUME LockInv, NEW t \in Threads, Inside(t), NEW u \in Threads, u # t
  PROVE  ~Inside(u)
  BY DEF LockInv

LEMMA NoneInside ==
  ASSUME LockInv, submission = NoThread
  PROVE  carry = NoWork /\ \A u \in Threads : ~Inside(u)
  BY MapGateAssumption DEF LockInv

\* A step that goes through the queue moves one thread only.
LEMMA QueueMoves ==
  ASSUME Shape, NEW t \in Threads, Enter(t) \/ Stage(t) \/ Lower(t) \/ HalSubmit(t)
  PROVE  Others(t)
  <1>1. \A l : Leave(t, l) \/ Goto(t, l) => Others(t)
    BY MoveFacts DEF Moves, Quits
  <1>2. CASE call' = [call EXCEPT ![t].at = "record", ![t].index = Len(gpu) + 1]
    BY <1>2, HalSubmitMoves
  <1>3. QED
    BY <1>1, <1>2 DEF Enter, Flush, Stage, Lower, HalSubmit

\* A pending map has the mode of the usage.
LEMMA ModeNext ==
  ASSUME SlotStep, WriterInv, usage' = usage
  PROVE  pending_map' # NoMap => pending_map'.mode = Mode'
  <1>1. Mode' = Mode
    BY DEF Mode
  <1>2. \/ pending_map' = NoMap \/ pending_map' = pending_map \/ pending_map'.mode = Mode
    <2>1. CASE PlainStep
      BY <2>1 DEF PlainStep
    <2>2. ASSUME NEW t \in Threads, MapStep(t) PROVE pending_map'.mode = Mode
      BY <2>2 DEF MapStep
    <2>3. ASSUME NEW t \in Threads, AbortStep(t)
          PROVE  pending_map' = NoMap \/ pending_map' = pending_map
      BY <2>3 DEF AbortStep, CutBy
    <2>4. ASSUME NEW t \in Threads, NewStep(t)
          PROVE  pending_map' = NoMap \/ pending_map' = pending_map
      BY <2>4 DEF NewStep, CutBy
    <2>5. CASE OneRequest
      BY <2>5 DEF OneRequest, RequestMoves, RequestFails, RequestEnds, RequestSettles, CutBy
    <2>6. QED
      BY <2>1, <2>2, <2>3, <2>4, <2>5 DEF SlotStep
  <1>3. QED
    BY <1>1, <1>2 DEF WriterInv

\* Who may write the buffer through the queue, and what only its mappings write.
WriterParts ==
  /\ usage' = usage
  /\ \A u \in Threads :
       /\ call'[u].at = "stage" => usage # "map_write" /\ ~is_error'
       /\ call'[u].at = "lower" /\ carry'.write # 0 => usage # "map_write" /\ ~is_error'
  /\ (usage = "map_write" \/ is_error') /\ ~direct' => host' = newest'
  /\ done' <= Len(gpu')

LEMMA WriterNext ==
  ASSUME Shape, LockInv, WriterInv, SlotStep, DataStep
  PROVE  WriterInv'
  <1> SUFFICES WriterParts
    BY ModeNext DEF WriterParts, WriterInv, At
  <1>0. /\ \A u \in Threads :
             /\ call[u].at = "stage" => usage # "map_write" /\ ~is_error
             /\ call[u].at = "lower" /\ carry.write # 0 => usage # "map_write" /\ ~is_error
        /\ (usage = "map_write" \/ is_error) /\ ~direct => host = newest
        /\ done <= Len(gpu) /\ done \in Nat /\ Len(gpu) \in Nat
    BY ShapeFacts DEF WriterInv, At, Shape
  <1>1. CASE DataStays
    <2>1. \A u \in Threads : /\ call'[u].at = "stage" <=> call[u].at = "stage"
                             /\ call'[u].at = "lower" <=> call[u].at = "lower"
      BY <1>1 DEF DataStays, QueueLabels
    <2>2. QED
      BY <1>0, <1>1, <2>1 DEF DataStays, WriterParts
  <1>2. ASSUME NEW t \in Threads, Unmap(t) PROVE WriterParts
    <2>1. \A u \in Threads : call'[u] = call[u] \/ call'[u].at = "free_host"
      BY <1>2, UnmapMove DEF Starts, Others
    <2>2. UNCHANGED <<usage, direct, is_error, host, newest, carry, done, gpu>>
      BY <1>2 DEF Unmap, fixed_vars, queue_vars, gpu_vars
    <2>3. QED
      BY <1>0, <2>1, <2>2 DEF WriterParts
  <1>3. ASSUME NEW t \in Threads, WriteMapped(t) PROVE WriterParts
    <2>1. UNCHANGED <<usage, direct, is_error, carry, done, gpu, call>>
      BY <1>3 DEF WriteMapped, fixed_vars, queue_vars, gpu_vars
    <2>2. ~direct => host' = newest'
      BY <1>3 DEF WriteMapped
    <2>3. QED
      BY <1>0, <2>1, <2>2 DEF WriterParts
  <1>4. ASSUME NEW t \in Threads, Lose(t) PROVE WriterParts
    BY <1>0, <1>4 DEF Lose, WriterParts, fixed_vars, data_vars
  <1>5. ASSUME NEW t \in Threads, Enter(t) PROVE WriterParts
    <2>1. UNCHANGED <<usage, direct, is_error, host, newest, done, gpu>>
      BY <1>5 DEF Enter, fixed_vars, data_vars, gpu_vars
    <2>2. \A u \in Threads \ {t} : call'[u] = call[u] /\ ~Inside(u)
      BY <1>5, QueueMoves, NoneInside DEF Enter, Others
    <2>3. /\ call'[t].at = "stage" => usage # "map_write" /\ ~is_error
          /\ call'[t].at = "lower" => \E work \in Commands : carry' = work
      <3>1. ASSUME NEW l \in {"gate", "idle"}, Leave(t, l)
            PROVE  call'[t].at \notin {"stage", "lower"}
        BY <3>1, MoveFacts DEF Moves, Quits, Idle
      <3>2. ASSUME NEW l, Goto(t, l) PROVE call'[t].at = l
        BY <3>2, MoveFacts DEF Moves
      <3>3. Flush(t) => call'[t].at \notin {"stage", "lower"}
        BY <3>1, <3>2 DEF Flush
      <3>4. QED
        BY <1>5, <3>1, <3>2, <3>3 DEF Enter
    <2>4. \A work \in Commands : work.write # 0 => usage # "map_write" /\ ~is_error
      BY DEF Commands, NoWork
    <2>5. QED
      BY <1>0, <2>1, <2>2, <2>3, <2>4 DEF WriterParts, Inside
  <1>6. ASSUME NEW t \in Threads, Stage(t) \/ Lower(t) \/ HalSubmit(t) PROVE WriterParts
    <2>1. /\ UNCHANGED <<usage, direct, is_error, host, done>> /\ Inside(t)
      BY <1>6
        DEF Stage, Lower, HalSubmit, fixed_vars, data_vars, gpu_vars, Inside, At
    <2>2. \A u \in Threads \ {t} : call'[u] = call[u] /\ ~Inside(u)
      BY <1>6, <2>1, QueueMoves, Alone DEF Others
    <2>3. call'[t].at \notin {"stage", "lower"}
      <3>1. ASSUME NEW l \in {"idle", "abort", "gate"}, Leave(t, l)
            PROVE  call'[t].at \notin {"stage", "lower"}
        BY <3>1, MoveFacts DEF Moves, Quits, Idle
      <3>2. Goto(t, "hal_submit") => call'[t].at = "hal_submit"
        BY MoveFacts DEF Moves
      <3>3. CASE call' = [call EXCEPT ![t].at = "record", ![t].index = Len(gpu) + 1]
        BY <3>3, HalSubmitMoves
      <3>4. QED
        BY <1>6, <3>1, <3>2, <3>3 DEF Stage, Lower, HalSubmit
    <2>4. \/ newest' = newest
          \/ call[t].at = "stage"
          \/ call[t].at = "lower" /\ carry.write # 0
      BY <1>6 DEF Stage, Lower, HalSubmit, At, data_vars
    <2>5. done' <= Len(gpu')
      <3>1. gpu' = gpu \/ gpu' = Append(gpu, carry)
        BY <1>6 DEF Stage, Lower, HalSubmit
      <3>2. Len(gpu') \in {Len(gpu), Len(gpu) + 1}
        BY <3>1, AppendFacts DEF Shape
      <3>3. QED
        BY <1>0, <2>1, <3>2
    <2>6. QED
      BY <1>0, <2>1, <2>2, <2>3, <2>4, <2>5 DEF WriterParts, Inside
  <1>7. ASSUME NEW t \in Threads, ResolveMap(t) PROVE WriterParts
    <2>1. UNCHANGED <<usage, direct, is_error, newest, carry, done, gpu>>
      BY <1>7 DEF ResolveMap, fixed_vars, queue_vars, gpu_vars
    <2>2. \A u \in Threads : call'[u] = call[u] \/ call'[u].at \notin {"stage", "lower"}
      BY <1>7, FiringMoves DEF Moves, Quits, Idle, Others
    <2>3. host' = host \/ (usage # "map_write" /\ ~is_error)
      <3>1. host' = host \/ (Current(t) /\ ReadBack)
        BY <1>7 DEF ResolveMap
      <3>2. Current(t) /\ ReadBack => Mode = "read"
        BY DEF Current, ReadBack, WriterInv
      <3>3. Mode = "read" => usage # "map_write"
        BY DEF Mode
      <3>4. QED
        BY <3>1, <3>2, <3>3 DEF ReadBack, HalLive
    <2>4. QED
      BY <1>0, <2>1, <2>2, <2>3 DEF WriterParts
  <1>8. CASE Complete
    <2>1. UNCHANGED <<usage, direct, is_error, host, newest, carry, gpu, call>>
      BY <1>8 DEF Complete, fixed_vars, queue_vars
    <2>2. done' = done + 1 /\ done < Len(gpu)
      BY <1>8 DEF Complete
    <2>3. QED
      BY <1>0, <2>1, <2>2 DEF WriterParts
  <1>9. QED
    BY <1>1, <1>2, <1>3, <1>4, <1>5, <1>6, <1>7, <1>8 DEF DataStep

\* A request that counts as passed after a step did so before, or passes now.
Passing(r) ==
  /\ requests[r].serial = pending_map.serial /\ requests[r].buffer
  /\ \/ requests[r].phase \in {"ready", "taken"}
     \/ requests[r].phase = "waiting" /\ requests[r].gate <= done /\ ~lost
PassedNow == \E r \in DOMAIN requests' :
  /\ requests'[r].serial = pending_map'.serial /\ requests'[r].buffer
  /\ requests'[r].phase \in {"ready", "taken"}

LEMMA PassNext ==
  ASSUME Shape, AgreeInv, SerialInv, OwnerInv, SlotStep, PassedNow, map_state' = "pending"
  PROVE  map_state = "pending" /\ \E r \in DOMAIN requests : Passing(r)
  <1>1. PICK i \in DOMAIN requests' :
          /\ requests'[i].serial = pending_map'.serial /\ requests'[i].buffer
          /\ requests'[i].phase \in {"ready", "taken"}
    BY DEF PassedNow
  <1>2. CASE PlainStep
    <2>1. requests' = requests /\ UNCHANGED <<map_state, pending_map>>
      BY <1>2 DEF PlainStep
    <2>2. QED
      BY <1>1, <2>1 DEF Passing
  <1>3. ASSUME NEW t \in Threads, MapStep(t) PROVE FALSE
    <2>1. requests' = requests /\ pending_map'.serial = next_map_serial + 1
      BY <1>3 DEF MapStep
    <2>2. /\ requests[i].serial \in Nat /\ requests[i].serial <= next_map_serial
          /\ next_map_serial \in Nat
      BY <1>1, <2>1, ShapeFacts DEF RequestSet, SerialInv, Shape
    <2>3. QED
      BY <1>1, <2>1, <2>2
  <1>4. ASSUME NEW s, CutBy(s) PROVE UNCHANGED <<map_state, pending_map>>
    BY <1>4 DEF CutBy
  <1>5. ASSUME NEW t \in Threads, AbortStep(t)
        PROVE  map_state = "pending" /\ \E r \in DOMAIN requests : Passing(r)
    <2>1. requests' = requests /\ UNCHANGED <<map_state, pending_map>>
      BY <1>4, <1>5 DEF AbortStep
    <2>2. QED
      BY <1>1, <2>1 DEF Passing
  <1>6. ASSUME NEW t \in Threads, NewStep(t)
        PROVE  map_state = "pending" /\ \E r \in DOMAIN requests : Passing(r)
    <2>1. UNCHANGED <<map_state, pending_map>>
      BY <1>4, <1>6 DEF NewStep
    <2>2. i \in DOMAIN requests /\ requests'[i] = requests[i]
      BY <1>1, <1>6, NewFacts DEF NewRequest, Ended
    <2>3. QED
      BY <1>1, <2>1, <2>2 DEF Passing
  <1>7. CASE OneRequest
    <2>1. PICK r \in DOMAIN requests :
            RequestMoves(r) \/ RequestFails(r) \/ RequestEnds(r) \/ RequestSettles(r)
      BY <1>7 DEF OneRequest
    <2>2. UNCHANGED <<map_state, pending_map>>
      <3>1. ~RequestSettles(r)
        BY DEF RequestSettles
      <3>2. QED
        BY <1>4, <2>1, <3>1 DEF RequestMoves, RequestFails, RequestEnds
    <2>3. PICK q : Becomes(r, q)
      BY <2>1 DEF RequestMoves, RequestFails, RequestEnds, RequestSettles
    <2>4. /\ DOMAIN requests' = DOMAIN requests /\ requests'[r] = q
          /\ \A j \in DOMAIN requests : j # r => requests'[j] = requests[j]
      BY <2>3 DEF Becomes
    <2>5. CASE i # r
      BY <1>1, <2>2, <2>4, <2>5 DEF Passing
    <2>6. CASE i = r
      <3>1. \A o : Ended(requests[r].serial, o).phase = "done"
        BY DEF Ended
      <3>2. ~RequestEnds(r) /\ ~RequestSettles(r)
        BY <1>1, <2>4, <2>6, <3>1 DEF RequestEnds, RequestSettles, Becomes
      <3>3. ~RequestFails(r)
        <4>1. SUFFICES ASSUME RequestFails(r) PROVE FALSE
          OBVIOUS
        <4>2. requests'[r].serial = requests[r].serial /\ CutBy(requests[r].serial)
          BY <4>1 DEF RequestFails, Becomes
        <4>3. pending_map'.serial # requests[r].serial
          BY <4>2, CutFacts DEF OwnerInv
        <4>4. QED
          BY <1>1, <2>6, <4>2, <4>3
      <3>4. RequestMoves(r)
        BY <2>1, <3>2, <3>3
      <3>5. /\ requests[r].serial = requests'[r].serial
            /\ requests[r].buffer = requests'[r].buffer /\ requests[r].phase # "done"
            /\ requests[r].phase = "waiting" => requests[r].gate <= done /\ ~lost
        BY <3>4 DEF RequestMoves, Becomes
      <3>6. requests[r].phase \in {"waiting", "ready", "taken", "done"}
        BY ShapeFacts DEF RequestSet
      <3>7. Passing(r)
        BY <1>1, <2>2, <2>6, <3>5, <3>6 DEF Passing
      <3>8. QED
        BY <2>2, <3>7
    <2>7. QED
      BY <2>5, <2>6
  <1>8. QED
    BY <1>2, <1>3, <1>5, <1>6, <1>7 DEF SlotStep

\* What is gated by submissions that are complete is not written any more.
LEMMA DoneIsQuiet ==
  ASSUME Shape, NEW k \in Nat, Gated(k), k <= done
  PROVE  Quiet /\ UsesUpTo(done)
  <1>1. Quiet /\ UsesUpTo(k) /\ done \in Nat
    BY DEF Gated, Shape
  <1>2. ASSUME NEW i \in DOMAIN gpu, Uses(gpu[i]) PROVE i <= done
    <2>1. i \in Nat /\ i <= k
      BY <1>1, <1>2, ShapeFacts DEF UsesUpTo
    <2>2. QED
      BY <1>1, <2>1
  <1>3. QED
    BY <1>1, <1>2 DEF UsesUpTo

LEMMA QuietFacts ==
  ASSUME Shape, Quiet, UsesUpTo(done)
  PROVE  /\ staged = 0 /\ carry.write = 0 /\ carry = NoWork
         /\ \A u \in Threads : call[u].at # "stage"
         /\ \A i \in Live : i \in DOMAIN gpu /\ gpu[i].write = 0
  <1>1. staged = 0 /\ carry = NoWork /\ \A u \in Threads : call[u].at # "stage"
    BY DEF Quiet, Uses, At
  <1>2. carry.write = 0
    BY <1>1 DEF NoWork
  <1>3. ASSUME NEW i \in Live PROVE i \in DOMAIN gpu /\ gpu[i].write = 0
    <2>1. i \in DOMAIN gpu /\ ~(i <= done)
      BY ShapeFacts DEF Live, Shape
    <2>2. ~Uses(gpu[i])
      BY <2>1 DEF UsesUpTo
    <2>3. QED
      BY <2>1, <2>2 DEF Uses, NoWork
  <1>4. QED
    BY <1>1, <1>2, <1>3

Sound == ~misreported /\ ~refused

\* Behind a gate that has passed, the memory holds the newest write.
LEMMA PassedShows ==
  ASSUME Shape, AgreeInv, HostInv, GateInv, ChainInv, ShownInv, Sound,
         map_state = "pending", NEW r \in DOMAIN requests, Passing(r)
  PROVE  mem = newest /\ Quiet /\ UsesUpTo(done)
  <1>0. requests[r].gate \in Nat /\ done \in Nat
    BY ShapeFacts DEF RequestSet, Shape
  <1>1. CASE requests[r].phase \in {"ready", "taken"}
    <2>1. Gated(done)
      BY <1>1 DEF Passing, GateInv, Sound
    <2>2. Passed
      BY <1>1 DEF Passing, Passed
    <2>3. QED
      BY <2>1, <2>2 DEF Gated, ShownInv, Sound
  <1>2. CASE requests[r].phase = "waiting" /\ requests[r].gate <= done /\ ~lost
    <2>1. Gated(requests[r].gate)
      BY <1>2 DEF Passing, GateInv, Sound
    <2>2. Quiet /\ UsesUpTo(done)
      BY <1>0, <1>2, <2>1, DoneIsQuiet
    <2>3. HalLive
      BY DEF HalLive, HostInv, AgreeInv, StateAgrees
    <2>4. OnGpu(newest)
      BY <1>2, <2>2, <2>3, QuietFacts DEF ChainInv, Submitting, Sound
    <2>5. mem = newest
      BY <2>2, <2>4, QuietFacts DEF OnGpu
    <2>6. QED
      BY <2>2, <2>5
  <1>3. QED
    BY <1>1, <1>2 DEF Passing

\* While nothing is under way, only a mapping writes the buffer.
LEMMA QuietData ==
  ASSUME Shape, Quiet, UsesUpTo(done), DataStep, map_state # "mapped"
  PROVE  mem' = mem /\ newest' = newest
  <1>0. /\ staged = 0 /\ carry.write = 0 /\ \A u \in Threads : call[u].at # "stage"
        /\ \A i \in Live : gpu[i].write = 0
    BY QuietFacts
  <1>1. CASE DataStays
    BY <1>1 DEF DataStays
  <1>2. ASSUME NEW t \in Threads, Lose(t) \/ Enter(t) \/ HalSubmit(t) \/ ResolveMap(t)
        PROVE  mem' = mem /\ newest' = newest
    BY <1>2 DEF Lose, Enter, HalSubmit, ResolveMap, data_vars
  <1>3. ASSUME NEW t \in Threads, Lower(t) PROVE mem' = mem /\ newest' = newest
    BY <1>0, <1>3 DEF Lower
  <1>4. CASE Complete
    <2>1. done + 1 \in Live
      BY <1>4, ShapeFacts DEF Complete, Live, Shape
    <2>2. QED
      BY <1>0, <1>4, <2>1 DEF Complete
  <1>5. QED
    BY <1>0, <1>1, <1>2, <1>3, <1>4 DEF DataStep, WriteMapped, Stage, At

LEMMA FlagsStay ==
  ASSUME DataStep, Sound'
  PROVE  Sound
  <1>1. ASSUME DataStays PROVE Sound
    BY <1>1 DEF DataStays, error_vars, Sound
  <1>2. ASSUME NEW t \in Threads,
               Lose(t) \/ WriteMapped(t) \/ Enter(t) \/ Stage(t) \/ Lower(t) \/ ResolveMap(t)
        PROVE  Sound
    <2>1. misreported' = misreported /\ refused' = refused
      BY <1>2 DEF Lose, WriteMapped, Enter, Stage, Lower, ResolveMap, error_vars
    <2>2. QED
      BY <2>1 DEF Sound
  <1>3. ASSUME NEW t \in Threads, Unmap(t) PROVE Sound
    <2>1. misreported' = misreported /\ (refused' = TRUE \/ refused' = refused)
      BY <1>3 DEF Unmap, FlushHostMap
    <2>2. QED
      BY <2>1 DEF Sound
  <1>4. ASSUME NEW t \in Threads, HalSubmit(t) PROVE Sound
    <2>1. \/ misreported' = TRUE
          \/ refused' = TRUE
          \/ misreported' = misreported /\ refused' = refused
      BY <1>4 DEF HalSubmit, error_vars
    <2>2. QED
      BY <2>1 DEF Sound
  <1>5. ASSUME Complete PROVE Sound
    BY <1>5 DEF Complete, error_vars, Sound
  <1>6. QED
    BY <1>1, <1>2, <1>3, <1>4, <1>5 DEF DataStep

\* What a mapping shows, in the next state.
ShownParts ==
  /\ map_state' = "pending" /\ PassedNow => mem' = newest'
  /\ map_state' = "mapped" /\ ~is_destroyed' /\ ~is_error' /\ (direct' \/ active_map' # "write")
       => mem' = newest'
  /\ map_state' = "mapped" /\ ~direct' => host' = newest'

LEMMA ShownNext ==
  ASSUME Shape, AgreeInv, LockInv, SerialInv, FireInv, GateInv, HostInv, OwnerInv,
         WriterInv, ChainInv, ShownInv, SlotStep, DataStep
  PROVE  ShownInv'
  <1>s. SUFFICES ASSUME Sound, Sound' PROVE ShownParts
    BY FlagsStay DEF ShownParts, ShownInv, Sound, Passed, PassedNow, HalLive
  <1>1. ASSUME map_state' = "pending", PassedNow PROVE mem' = newest'
    <2>1. map_state = "pending" /\ \E r \in DOMAIN requests : Passing(r)
      BY <1>1, PassNext
    <2>2. mem = newest /\ Quiet /\ UsesUpTo(done)
      BY <1>s, <2>1, PassedShows
    <2>3. QED
      BY <2>1, <2>2, QuietData
  <1>2. map_state = "mapped" => Quiet /\ UsesUpTo(done)
    BY <1>s DEF GateInv, Gated, Sound
  <1>3. /\ map_state = "mapped" /\ HalLive /\ (direct \/ active_map # "write") => mem = newest
        /\ map_state = "mapped" /\ ~direct => host = newest
    BY <1>s DEF ShownInv, Sound
  <1> DEFINE Same == UNCHANGED <<map_state, active_map, is_destroyed, is_error, direct>>
             Maps1 ==
               /\ map_state' = "mapped" /\ ~is_destroyed' /\ ~is_error'
                    /\ (direct' \/ active_map' # "write") => mem' = newest'
               /\ map_state' = "mapped" /\ ~direct' => host' = newest'
  <1>4. ASSUME Same, UNCHANGED <<mem, host, newest>> PROVE Maps1
    BY <1>3, <1>4 DEF HalLive
  <1>5. ASSUME DataStays PROVE Maps1
    <2>1. /\ UNCHANGED <<mem, host, newest, direct, is_error>>
          /\ ~is_destroyed' => ~is_destroyed
          /\ map_state' = "mapped" => map_state = "mapped" /\ active_map' = active_map
      BY <1>5 DEF DataStays
    <2>2. QED
      BY <1>3, <2>1 DEF HalLive
  <1>6. ASSUME NEW t \in Threads, Unmap(t) PROVE Maps1
    BY <1>6 DEF Unmap, ClearMap
  <1>7. ASSUME NEW t \in Threads, WriteMapped(t) PROVE Maps1
    BY <1>7 DEF WriteMapped, state_vars, fixed_vars, life_vars, HalLive
  <1>8. ASSUME NEW t \in Threads, Lose(t) \/ Enter(t) \/ HalSubmit(t) PROVE Maps1
    BY <1>4, <1>8 DEF Lose, Enter, HalSubmit, state_vars, fixed_vars, life_vars, data_vars
  <1>9. ASSUME NEW t \in Threads, Stage(t) PROVE Maps1
    <2>1. map_state # "mapped" /\ map_state' = map_state
      BY <1>2, <1>9, QuietFacts DEF Stage, At, state_vars
    <2>2. QED
      BY <2>1
  <1>10. ASSUME NEW t \in Threads, Lower(t) PROVE Maps1
    <2>1. Same /\ mem' = mem /\ host' = host
      BY <1>10 DEF Lower, state_vars, fixed_vars, life_vars
    <2>2. map_state = "mapped" => newest' = newest
      BY <1>2, <1>10, QuietFacts DEF Lower
    <2>3. QED
      BY <1>3, <2>1, <2>2 DEF HalLive
  <1>11. ASSUME Complete PROVE Maps1
    <2>1. Same /\ newest' = newest /\ host' = host
      BY <1>11 DEF Complete, state_vars, fixed_vars, life_vars
    <2>2. map_state = "mapped" => mem' = mem
      <3>1. done + 1 \in Live
        BY <1>11, ShapeFacts DEF Complete, Live, Shape
      <3>2. QED
        BY <1>2, <1>11, <3>1, QuietFacts DEF Complete
    <2>3. map_state # "mapped" => Maps1
      BY <2>1
    <2>4. map_state = "mapped" => Maps1
      BY <1>4, <2>1, <2>2
    <2>5. QED
      BY <2>3, <2>4
  <1>12. ASSUME NEW t \in Threads, ResolveMap(t) PROVE Maps1
    <2>1. CASE ~Current(t)
      <3>1. Same /\ UNCHANGED <<mem, host, newest>>
        BY <1>12, <2>1 DEF ResolveMap, state_vars, fixed_vars, life_vars
      <3>2. QED
        BY <1>4, <3>1
    <2>2. CASE Current(t) /\ Settle(t, TRUE) /\ host' = IF ReadBack THEN mem ELSE host
      <3>1. /\ map_state = "pending" /\ HalLive
            /\ pending_map.mode = Mode /\ pending_map.mode # "none"
        BY <2>2
          DEF Current, AgreeInv, StateAgrees, HostInv, HalLive, WriterInv
      <3>2. Passing(call[t].request) /\ call[t].request \in DOMAIN requests
        BY <1>12, <2>2 DEF ResolveMap, At, FireInv, Fires, Current, Passing, Mine
      <3>3. mem = newest
        BY <1>s, <3>1, <3>2, PassedShows
      <3>4. UNCHANGED <<mem, newest, direct>>
        BY <1>12 DEF ResolveMap, fixed_vars
      <3>5. CASE Mode = "read"
        BY <2>2, <3>1, <3>3, <3>4, <3>5 DEF ReadBack
      <3>6. CASE Mode = "write"
        <4>1. usage = "map_write"
          BY <3>6 DEF Mode
        <4>2. ~direct => host = newest
          BY <4>1 DEF WriterInv
        <4>3. ~ReadBack
          BY <3>1, <3>6 DEF ReadBack
        <4>4. QED
          BY <2>2, <3>3, <3>4, <4>2, <4>3
      <3>7. Mode \in {"read", "write", "none"}
        BY DEF Mode
      <3>8. QED
        BY <3>1, <3>5, <3>6, <3>7
    <2>3. CASE Settle(t, FALSE)
      BY <2>3 DEF Settle
    <2>4. QED
      BY <1>12, <2>1, <2>2, <2>3 DEF ResolveMap
  <1> HIDE DEF Maps1
  <1>13. Maps1
    BY <1>5, <1>6, <1>7, <1>8, <1>9, <1>10, <1>11, <1>12 DEF DataStep
  <1>14. QED
    BY <1>1, <1>13 DEF ShownParts, Maps1

\* The memory and the GPU after a step that adds no write.
LEMMA OnGpuStays ==
  ASSUME OnGpu(newest), UNCHANGED <<gpu, done, mem, newest>>
  PROVE  OnGpu(newest)'
  BY DEF OnGpu, Live

LEMMA OnGpuCompletes ==
  ASSUME Shape, OnGpu(newest), Complete
  PROVE  OnGpu(newest)'
  <1>1. /\ gpu' = gpu /\ newest' = newest /\ done' = done + 1 /\ done < Len(gpu)
        /\ mem' = IF gpu[done + 1].write = 0 THEN mem ELSE gpu[done + 1].write
    BY DEF Complete, queue_vars
  <1>2. done \in Nat /\ Len(gpu) \in Nat
    BY ShapeFacts DEF Shape
  <1>3. /\ Live' = (done + 2) .. Len(gpu) /\ done + 1 \in Live /\ Live' \subseteq Live
        /\ \A i \in Live : i = done + 1 \/ i \in Live'
        /\ \A i \in Live' : i > done + 1
    BY <1>1, <1>2 DEF Live
  <1>4. CASE mem = newest /\ \A i \in Live : gpu[i].write = 0
    BY <1>1, <1>3, <1>4 DEF OnGpu
  <1>5. ASSUME NEW i \in Live, gpu[i].write = newest, newest # 0,
               \A j \in Live : j > i => gpu[j].write = 0
        PROVE  OnGpu(newest)'
    <2>1. CASE i = done + 1
      <3>1. mem' = newest' /\ \A j \in Live' : gpu'[j].write = 0
        BY <1>1, <1>3, <1>5, <2>1
      <3>2. QED
        BY <3>1 DEF OnGpu
    <2>2. CASE i \in Live'
      BY <1>1, <1>3, <1>5, <2>2 DEF OnGpu
    <2>3. QED
      BY <1>3, <2>1, <2>2
  <1>6. QED
    BY <1>4, <1>5 DEF OnGpu

LEMMA OnGpuSubmits ==
  ASSUME Shape, done <= Len(gpu), gpu' = Append(gpu, carry), UNCHANGED <<done, mem, newest>>,
         carry.write # 0 => carry.write = newest,
         carry.write = 0 => OnGpu(newest)
  PROVE  OnGpu(newest)'
  <1>1. /\ done \in Nat /\ Len(gpu) \in Nat /\ DOMAIN gpu = 1 .. Len(gpu)
        /\ Len(gpu') = Len(gpu) + 1 /\ gpu'[Len(gpu) + 1] = carry
        /\ \A i \in 1 .. Len(gpu) : gpu'[i] = gpu[i]
    BY AppendFacts, ShapeFacts DEF Shape
  <1>2. /\ Live' = (done + 1) .. (Len(gpu) + 1) /\ Len(gpu) + 1 \in Live'
        /\ Live \subseteq Live' /\ Live \subseteq 1 .. Len(gpu)
        /\ \A i \in Live' : i \in Live \/ i = Len(gpu) + 1
        /\ \A i \in Live' : ~(i > Len(gpu) + 1)
    BY <1>1 DEF Live
  <1>3. CASE carry.write # 0
    BY <1>1, <1>2, <1>3 DEF OnGpu
  <1>4. CASE carry.write = 0
    <2>1. \A i \in Live' : (i \in Live /\ gpu'[i].write = gpu[i].write) \/ gpu'[i].write = 0
      BY <1>1, <1>2, <1>4
    <2>2. CASE mem = newest /\ \A i \in Live : gpu[i].write = 0
      BY <2>1, <2>2 DEF OnGpu
    <2>3. ASSUME NEW i \in Live, gpu[i].write = newest, newest # 0,
                 \A j \in Live : j > i => gpu[j].write = 0
          PROVE  OnGpu(newest)'
      <3>1. i \in Live' /\ gpu'[i].write = newest'
        BY <1>1, <1>2, <2>3
      <3>2. \A j \in Live' : j > i => gpu'[j].write = 0
        BY <2>1, <2>3
      <3>3. QED
        BY <2>3, <3>1, <3>2 DEF OnGpu
    <2>4. QED
      BY <1>4, <2>2, <2>3 DEF OnGpu
  <1>5. QED
    BY <1>3, <1>4

LEMMA ChainNext ==
  ASSUME Shape, AgreeInv, LockInv, GateInv, HostInv, WriterInv, ChainInv, ShownInv, DataStep
  PROVE  ChainInv'
  <1> DEFINE Writing == \E u \in Threads : call[u].at = "hal_submit"
             Writing1 == \E u \in Threads : call'[u].at = "hal_submit"
             Chain1 == /\ staged' # 0 => staged' = newest'
                       /\ carry'.write # 0 /\ Writing1 => carry'.write = newest'
                       /\ staged' = 0 /\ ~(carry'.write # 0 /\ Writing1) => OnGpu(newest)'
  <1>s. SUFFICES ASSUME Sound, Sound', HalLive', ~lost', map_state' # "mapped"
                 PROVE  Chain1
    BY FlagsStay DEF ChainInv, Submitting, At, Sound
  <1>0. /\ carry \in Works /\ done \in Nat /\ newest \in Nat
        /\ done <= Len(gpu) /\ NoWork.write = 0
    BY DEF Shape, WriterInv, NoWork
  <1>1. ASSUME HalLive, ~lost, map_state # "mapped"
        PROVE  /\ staged # 0 => staged = newest
               /\ carry.write # 0 /\ Writing => carry.write = newest
               /\ staged = 0 /\ ~(carry.write # 0 /\ Writing) => OnGpu(newest)
    BY <1>s, <1>1 DEF ChainInv, Submitting, At, Sound
  <1>2. map_state = "mapped" => Quiet /\ UsesUpTo(done)
    BY <1>s DEF GateInv, Gated, Sound
  <1>3. CASE DataStays
    <2>1. Writing1 <=> Writing
      BY <1>3 DEF DataStays, QueueLabels
    <2>2. HalLive /\ ~lost /\ map_state # "mapped"
      BY <1>s, <1>3 DEF DataStays, HalLive
    <2>3. UNCHANGED <<staged, carry, gpu, done, mem, newest>>
      BY <1>3 DEF DataStays
    <2>4. QED
      BY <1>1, <2>1, <2>2, <2>3, OnGpuStays
  <1>4. ASSUME NEW t \in Threads, Unmap(t), map_state = "mapped" PROVE Chain1
    <2>1. UNCHANGED <<staged, carry, gpu, done, newest, host, is_destroyed, is_error, direct>>
      BY <1>4 DEF Unmap, fixed_vars, life_vars, queue_vars, gpu_vars
    <2>2. /\ staged = 0 /\ carry.write = 0 /\ \A i \in Live : gpu[i].write = 0
      BY <1>2, <1>4, QuietFacts
    <2>3. HalLive
      BY <1>s, <2>1 DEF HalLive
    <2>4. mem' = newest
      <3>1. CASE active_map = "write" /\ ~direct
        <4>1. mem' = host
          BY <1>s, <1>4, <2>3, <3>1 DEF Unmap, FlushHostMap, Sound
        <4>2. host = newest
          BY <1>s, <1>4, <3>1 DEF ShownInv, Sound
        <4>3. QED
          BY <4>1, <4>2
      <3>2. CASE ~(active_map = "write" /\ ~direct)
        <4>1. mem' = mem
          BY <1>4, <3>2 DEF Unmap, FlushHostMap
        <4>2. mem = newest
          BY <1>s, <1>4, <2>3, <3>2 DEF ShownInv, Sound
        <4>3. QED
          BY <4>1, <4>2
      <3>3. QED
        BY <3>1, <3>2
    <2>5. OnGpu(newest)'
      BY <2>1, <2>2, <2>4 DEF OnGpu, Live
    <2>6. QED
      BY <2>1, <2>2, <2>5
  <1>5. ASSUME NEW t \in Threads, WriteMapped(t) PROVE FALSE
    BY <1>s, <1>5 DEF WriteMapped, state_vars
  <1>6. ASSUME NEW t \in Threads, Lose(t) PROVE FALSE
    BY <1>s, <1>6 DEF Lose
  <1>7. ASSUME NEW t \in Threads, Enter(t) \/ Stage(t) \/ Lower(t) \/ HalSubmit(t)
        PROVE  HalLive /\ ~lost /\ map_state # "mapped" /\ UNCHANGED <<mem, done>>
    BY <1>s, <1>7
      DEF Enter, Stage, Lower, HalSubmit, fixed_vars, life_vars, gpu_vars, state_vars,
          data_vars, HalLive
  <1>8. ASSUME NEW t \in Threads, Enter(t) PROVE Chain1
    <2>1. ~Writing /\ carry = NoWork
      BY <1>8, NoneInside DEF Enter, Inside
    <2>2. UNCHANGED <<gpu, newest>> /\ Others(t)
      BY <1>8, QueueMoves DEF Enter, data_vars
    <2>3. /\ staged # 0 => staged = newest
          /\ staged = 0 => OnGpu(newest)
      BY <1>1, <1>7, <1>8, <2>1
    <2>4. OnGpu(newest) => OnGpu(newest)'
      BY <1>7, <1>8, <2>2, OnGpuStays
    <2>5. \/ /\ staged' = 0 /\ staged # 0 /\ carry'.write = staged
             /\ call'[t].at = "hal_submit"
          \/ /\ staged' = staged /\ ~Writing1
      <3>1. ASSUME NEW l \in {"gate", "idle"}, Leave(t, l) PROVE ~Writing1
        BY <2>1, <2>2, <3>1, MoveFacts DEF Moves, Quits, Idle, Others
      <3>2. ASSUME NEW l, Goto(t, l)
            PROVE  call'[t].at = l /\ (l # "hal_submit" => ~Writing1)
        BY <2>1, <2>2, <3>2, MoveFacts DEF Moves, Others
      <3>3. CASE Flush(t)
        BY <3>1, <3>2, <3>3 DEF Flush, NoWork
      <3>4. CASE /\ staged' = staged
                 /\ \/ Leave(t, "gate") \/ Leave(t, "idle")
                    \/ Goto(t, "stage") \/ Goto(t, "lower")
        BY <3>1, <3>2, <3>4
      <3>5. QED
        BY <1>8, <3>3, <3>4 DEF Enter
    <2>6. QED
      BY <2>2, <2>3, <2>4, <2>5
  <1>9. ASSUME NEW t \in Threads, Inside(t), call[t].at # "hal_submit", Others(t)
        PROVE  /\ ~Writing
               /\ call'[t].at # "hal_submit" => ~Writing1
    BY <1>9, Alone DEF Others, Inside
  <1>10. ASSUME NEW t \in Threads, Stage(t) PROVE Chain1
    <2>1. Inside(t) /\ call[t].at # "hal_submit" /\ Others(t) /\ gpu' = gpu
      BY <1>10, QueueMoves DEF Stage, At, Inside
    <2>2. ~Writing
      BY <1>9, <2>1
    <2>3. newest + 1 # 0
      BY <1>0
    <2>4. ASSUME Leave(t, "idle") PROVE ~Writing1
      BY <1>9, <2>1, <2>4, MoveFacts DEF Moves, Quits, Idle
    <2>5. CASE Leave(t, "idle") /\ UNCHANGED <<staged, newest>>
      <3>1. /\ staged # 0 => staged = newest
            /\ staged = 0 => OnGpu(newest)
        BY <1>1, <1>7, <1>10, <2>2
      <3>2. OnGpu(newest) => OnGpu(newest)'
        BY <1>7, <1>10, <2>1, <2>5, OnGpuStays
      <3>3. QED
        BY <2>4, <2>5, <3>1, <3>2
    <2>6. CASE newest' = newest + 1 /\ staged' = newest + 1 /\ Leave(t, "idle")
      BY <2>3, <2>4, <2>6
    <2>7. CASE /\ newest' = newest + 1 /\ staged' = 0
               /\ carry' = [NoWork EXCEPT !.write = newest + 1] /\ Goto(t, "hal_submit")
      <3>1. call'[t].at = "hal_submit"
        BY <2>7, MoveFacts DEF Moves
      <3>2. carry'.write = newest + 1
        BY <2>7 DEF NoWork
      <3>3. QED
        BY <2>3, <2>7, <3>1, <3>2
    <2>8. QED
      BY <1>10, <2>5, <2>6, <2>7 DEF Stage
  <1>11. ASSUME NEW t \in Threads, Lower(t) PROVE Chain1
    <2>1. Inside(t) /\ call[t].at # "hal_submit" /\ Others(t) /\ gpu' = gpu
      BY <1>11, QueueMoves DEF Lower, At, Inside
    <2>2. ~Writing
      BY <1>9, <2>1
    <2>3. newest + 1 # 0
      BY <1>0
    <2>4. /\ staged # 0 => staged = newest
          /\ staged = 0 => OnGpu(newest)
      BY <1>1, <1>7, <1>11, <2>2
    <2>5. call'[t].at = "hal_submit" /\ staged' = 0
      BY <1>11, MoveFacts DEF Lower, Moves
    <2>6. CASE newest' = newest /\ carry'.write = staged
      <3>1. OnGpu(newest) => OnGpu(newest)'
        BY <1>7, <1>11, <2>1, <2>6, OnGpuStays
      <3>2. QED
        BY <2>4, <2>5, <2>6, <3>1
    <2>7. CASE newest' = newest + 1 /\ carry'.write = newest + 1
      BY <2>3, <2>5, <2>7
    <2>8. QED
      BY <1>0, <1>11, <2>6, <2>7 DEF Lower, Works, NoWork
  <1>12. ASSUME NEW t \in Threads, HalSubmit(t) PROVE Chain1
    <2>1. /\ Inside(t) /\ call[t].at = "hal_submit" /\ staged = 0
          /\ staged' = staged /\ newest' = newest
      BY <1>12 DEF HalSubmit, At, Inside, LockInv, data_vars
    <2>2. gpu' = Append(gpu, carry) /\ carry' = NoWork
      BY <1>s, <1>12 DEF HalSubmit, Sound
    <2>3. /\ carry.write # 0 => carry.write = newest
          /\ carry.write = 0 => OnGpu(newest)
      BY <1>1, <1>7, <1>12, <2>1
    <2>4. OnGpu(newest)'
      BY <1>0, <1>7, <1>12, <2>1, <2>2, <2>3, OnGpuSubmits
    <2>5. QED
      BY <1>0, <2>1, <2>2, <2>4
  <1>13. ASSUME NEW t \in Threads, ResolveMap(t) PROVE Chain1
    <2>1. UNCHANGED <<staged, carry, gpu, done, mem, newest, lost, is_destroyed, is_error>>
      BY <1>13 DEF ResolveMap, fixed_vars, life_vars, queue_vars, gpu_vars
    <2>2. map_state # "mapped"
      <3>1. CASE Current(t)
        BY <3>1 DEF Current, AgreeInv, StateAgrees
      <3>2. CASE ~Current(t)
        BY <1>s, <1>13, <3>2 DEF ResolveMap, state_vars
      <3>3. QED
        BY <3>1, <3>2
    <2>3. HalLive /\ ~lost
      BY <1>s, <2>1 DEF HalLive
    <2>4. Writing1 <=> Writing
      <3>1. Quits(t) /\ call[t].at = "map"
        BY <1>13, MoveFacts DEF ResolveMap, At, Settle, Report
      <3>2. QED
        BY <3>1 DEF Quits, Idle, Others
    <2>5. QED
      BY <1>1, <2>1, <2>2, <2>3, <2>4, OnGpuStays
  <1>14. CASE Complete
    <2>1. /\ UNCHANGED <<staged, carry, newest, lost, is_destroyed, is_error, call, map_state>>
      BY <1>14 DEF Complete, fixed_vars, life_vars, queue_vars, state_vars
    <2>2. HalLive /\ ~lost /\ map_state # "mapped"
      BY <1>s, <2>1 DEF HalLive
    <2>3. QED
      BY <1>1, <1>14, <2>1, <2>2, OnGpuCompletes
  <1> HIDE DEF Chain1
  <1>15. QED
    BY <1>3, <1>4, <1>5, <1>6, <1>8, <1>10, <1>11, <1>12, <1>13, <1>14 DEF DataStep

LEMMA DataNext ==
  ASSUME IInv, MapInv, DataInv, [Next]_vars
  PROVE  DataInv'
  <1>1. /\ Shape /\ AgreeInv /\ LockInv /\ SerialInv /\ FireInv /\ GateInv
        /\ HostInv /\ CarryInv /\ OwnerInv /\ GrantInv
        /\ WriterInv /\ ChainInv /\ ShownInv
    BY DEF IInv, MapInv, DataInv
  <1>2. SlotStep /\ DataStep
    BY <1>1, SlotCases, DataCases
  <1>3. QED
    BY <1>1, <1>2, WriterNext, ChainNext, ShownNext DEF DataInv

LEMMA DataInit == Init => DataInv
  <1> SUFFICES ASSUME Init PROVE DataInv
    OBVIOUS
  <1>1. /\ call = [t \in Threads |-> Idle] /\ Idle.at = "idle"
        /\ DOMAIN requests = {} /\ gpu = <<>> /\ Len(gpu) = 0
        /\ mem = 0 /\ host = 0 /\ newest = 0 /\ staged = 0 /\ done = 0
        /\ carry = NoWork /\ NoWork.write = 0 /\ pending_map = NoMap
    BY DEF Init, Idle, NoWork
  <1>2. WriterInv
    BY <1>1 DEF WriterInv, At
  <1>3. Live = {}
    BY <1>1 DEF Live
  <1>4. ChainInv
    BY <1>1, <1>3 DEF ChainInv, Submitting, OnGpu
  <1>5. ShownInv
    BY <1>1 DEF ShownInv
  <1>6. QED
    BY <1>2, <1>4, <1>5 DEF DataInv

\* No write is lost and none is shown early: a mapping shows the last write accepted
\* before it, and an idle buffer holds that write in GPU memory, as long as the HAL
\* reports no error.
THEOREM MappingIsUpToDate == Spec => []UpToDate
  <1>1. ASSUME IInv, MapInv, DataInv PROVE UpToDate
    <2>1. SUFFICES ASSUME Sound
                   PROVE  /\ map_state = "mapped" => View = newest
                          /\ map_state # "mapped" /\ HalLive /\ ~lost /\ ~InUse => mem = newest
      BY DEF UpToDate, Sound
    <2>2. map_state = "mapped" => View = newest
      <3>1. map_state = "mapped" => ~is_destroyed /\ (is_error => ~direct)
        BY <1>1 DEF IInv, AgreeInv, StateAgrees, MapInv, HostInv
      <3>2. QED
        BY <1>1, <2>1, <3>1 DEF DataInv, ShownInv, View, HalLive, Sound
    <2>3. ASSUME map_state # "mapped", HalLive, ~lost, ~InUse PROVE mem = newest
      <3>1. staged = 0 /\ carry.write = 0 /\ \A i \in Live : gpu[i].write = 0
        BY <2>3 DEF InUse, Uses, NoWork
      <3>2. OnGpu(newest)
        BY <1>1, <2>1, <2>3, <3>1 DEF DataInv, ChainInv, Submitting, Sound
      <3>3. QED
        BY <3>1, <3>2 DEF OnGpu
    <2>4. QED
      BY <2>2, <2>3
  <1>2. IInv /\ MapInv /\ DataInv /\ [Next]_vars => DataInv'
    BY DataNext
  <1>3. Spec => []DataInv
    BY <1>2, DataInit, MapBooks, PTL DEF Spec
  <1>4. IInv /\ MapInv /\ DataInv => UpToDate
    BY <1>1
  <1>5. QED
    BY <1>3, <1>4, MapBooks, PTL

=============================================================================
