---------------------------- MODULE QueueProofs ----------------------------
(***************************************************************************)
(* Proofs about Queue for every number of threads, buffers, commands and   *)
(* every chunk, pool and threshold size: type correctness; then the        *)
(* inductive invariant of locks, hand-over and indices, layer by layer;    *)
(* then the staging memory, whose buffers have one owner and whose bytes   *)
(* stay in place until the GPU has run the copy; then the order of the     *)
(* timeline and what may not get lost on the way to it.                    *)
(***************************************************************************)
EXTENDS Queue, SequenceTheorems, TLAPS

\* align_up never moves an offset back.
LEMMA AlignUpGrows ==
  ASSUME NEW v \in Nat, NEW a \in Nat \ {0}
  PROVE  AlignUp(v, a) \in Nat /\ AlignUp(v, a) >= v
  <1>1. v % a \in 0 .. (a - 1)
    OBVIOUS
  <1>2. QED
    BY <1>1 DEF AlignUp

USE DEF batch_vars, memory_vars, hal_vars, call_vars, write_vars, local_vars,
        hand_vars

\* Leaving the `submission` lock empties the hands of the call.
LEMMA LeaveTyped ==
  ASSUME TypeOK, NEW t \in Threads, Leave(t)
  PROVE  /\ submission' \in Threads \cup {NoThread}
         /\ pc' \in [Threads -> Labels]
         /\ taken' = {} /\ encoded' = {} /\ held' = {} /\ cmds' = {} /\ after' \in Nat
  <1>1. pc \in [Threads -> Labels]
    BY DEF TypeOK
  <1>2. QED
    BY <1>1 DEF Leave, EmptyHands, Goto, Labels

\* Staging a copy keeps the batch, the pool and the memory well typed.
LEMMA StageTyped ==
  ASSUME TypeOK, NEW c \in NewCopies, Stage(c)
  PROVE  /\ c \in CopyType
         /\ chunks' \subseteq ChunkType
         /\ current' \in Buffers \cup {NoBuffer}
         /\ staged_bytes' \in Nat
         /\ free' \subseteq Buffers
         /\ content' \in [Buffers -> [Units -> Nat]]
         /\ next_write' \in Nat
  <1> USE QueueAssumption
  <1>1. c \in CopyType /\ c.w \in Nat /\ c.off \in Nat /\ c.size \in Nat /\ c.buf \in Buffers
    <2>1. next_write \in Nat
      BY DEF TypeOK
    <2>2. \A n \in Units : n \in Nat
      BY DEF Units
    <2>3. \A n \in WriteSizes : n \in Nat \ {0}
      OBVIOUS
    <2>4. QED
      BY <2>1, <2>2, <2>3 DEF NewCopies, CopyType
  <1>2. Write(c) => content' \in [Buffers -> [Units -> Nat]]
    <2>1. content \in [Buffers -> [Units -> Nat]]
      BY DEF TypeOK
    <2>2. content[c.buf] \in [Units -> Nat]
      BY <1>1, <2>1
    <2>3. [u \in Units |-> IF c.off <= u /\ u < c.off + c.size THEN c.w
                           ELSE content[c.buf][u]] \in [Units -> Nat]
      BY <1>1, <2>2
    <2>4. QED
      BY <1>1, <2>1, <2>3 DEF Write
  <1>3. ASSUME NEW d \in BOOLEAN, AddChunk(c, d), d \/ c.size <= ChunkSize
        PROVE  chunks' \subseteq ChunkType /\ staged_bytes' \in Nat
    <2>1. chunks \subseteq ChunkType /\ staged_bytes \in Nat
      BY DEF TypeOK
    <2>2. [buf |-> c.buf, dedicated |-> d, cursor |-> c.size] \in ChunkType
      BY <1>1, <1>3 DEF ChunkType
    <2>3. staged_bytes + (IF d THEN c.size ELSE ChunkSize) \in Nat
      BY <1>1, <2>1
    <2>4. QED
      BY <1>3, <2>1, <2>2, <2>3 DEF AddChunk
  <1>4. next_write' \in Nat
    BY DEF Stage, TypeOK
  <1>5. CASE StageDedicated(c)
    BY <1>1, <1>2, <1>3, <1>4, <1>5 DEF StageDedicated, TypeOK
  <1>6. ASSUME NEW align \in Alignments, StageCurrent(c, align)
        PROVE  /\ chunks' \subseteq ChunkType
               /\ content' \in [Buffers -> [Units -> Nat]]
               /\ UNCHANGED <<current, free, staged_bytes>>
    <2>1. PICK chunk \in chunks :
            /\ Fits(chunk, c.size, align) /\ c.off = AlignUp(chunk.cursor, align)
            /\ chunks' = (chunks \ {chunk}) \cup {[chunk EXCEPT !.cursor = c.off + c.size]}
      BY <1>6 DEF StageCurrent
    <2>2. chunks \subseteq ChunkType
      BY DEF TypeOK
    <2>3. chunk \in ChunkType
      BY <2>1, <2>2
    <2>4. [chunk EXCEPT !.cursor = c.off + c.size] \in ChunkType
      <3>1. c.off + c.size \in 0 .. ChunkSize
        BY <1>1, <2>1 DEF Fits
      <3>2. [chunk EXCEPT !.cursor = c.off + c.size]
              \in [buf : Buffers, dedicated : BOOLEAN, cursor : Nat]
        BY <2>3, <3>1 DEF ChunkType
      <3>3. [chunk EXCEPT !.cursor = c.off + c.size].cursor = c.off + c.size
        BY <2>3 DEF ChunkType
      <3>4. QED
        BY <3>1, <3>2, <3>3 DEF ChunkType
    <2>5. QED
      BY <1>2, <1>6, <2>1, <2>2, <2>4 DEF StageCurrent
  <1>7. ASSUME NEW align \in Alignments, StageNew(c, align)
        PROVE  /\ chunks' \subseteq ChunkType /\ staged_bytes' \in Nat
               /\ content' \in [Buffers -> [Units -> Nat]]
               /\ current' = c.buf /\ free' = free \ {c.buf}
    BY <1>1, <1>2, <1>3, <1>7 DEF StageNew, TakeChunk
  <1>8. QED
    BY <1>1, <1>4, <1>5, <1>6, <1>7 DEF Stage, TypeOK

LEMMA StageFailsTyped ==
  ASSUME TypeOK, StageFails
  PROVE  /\ chunks' \subseteq ChunkType
         /\ current' \in Buffers \cup {NoBuffer}
         /\ staged_bytes' \in Nat
         /\ free' \subseteq Buffers
  <1>1. CASE UNCHANGED <<chunks, current, staged_bytes, free>>
    BY <1>1 DEF TypeOK
  <1>2. ASSUME NEW b \in Buffers, TakeChunk(b),
               chunks' = chunks \cup {[buf |-> b, dedicated |-> FALSE, cursor |-> 0]},
               staged_bytes' = staged_bytes + ChunkSize, current' = b
        PROVE  /\ chunks' \subseteq ChunkType
               /\ current' \in Buffers \cup {NoBuffer}
               /\ staged_bytes' \in Nat
               /\ free' \subseteq Buffers
    <2>1. [buf |-> b, dedicated |-> FALSE, cursor |-> 0] \in ChunkType
      BY QueueAssumption DEF ChunkType
    <2>2. chunks \subseteq ChunkType /\ free \subseteq Buffers /\ staged_bytes \in Nat
      BY DEF TypeOK
    <2>3. staged_bytes' \in Nat
      BY <1>2, <2>2, QueueAssumption
    <2>4. chunks' \subseteq ChunkType /\ free' \subseteq Buffers
      BY <1>2, <2>1, <2>2 DEF TakeChunk
    <2>5. QED
      BY <1>2, <2>3, <2>4
  <1>3. QED
    BY <1>1, <1>2 DEF StageFails

LEMMA RecycleTyped ==
  ASSUME TypeOK, NEW n, RecycleCompleted(n)
  PROVE  /\ in_flight' \in Seq(FlightType)
         /\ free' \subseteq Buffers
  <1>1. PICK k \in 0 .. Len(in_flight) :
          /\ in_flight' = SubSeq(in_flight, k + 1, Len(in_flight))
          /\ \E kept \in SUBSET UNION {in_flight[i].bufs : i \in 1 .. k} :
               free' = free \cup kept
    BY DEF RecycleCompleted
  <1>2. in_flight \in Seq(FlightType) /\ free \subseteq Buffers
    BY DEF TypeOK
  <1>3. k \in Nat /\ k <= Len(in_flight) /\ Len(in_flight) \in Nat
        /\ \A i \in 1 .. Len(in_flight) : in_flight[i] \in FlightType
    BY <1>1, <1>2
  <1>4. in_flight' \in Seq(FlightType)
    BY <1>1, <1>3, SubSeqProperties
  <1>5. \A i \in 1 .. k : in_flight[i].bufs \subseteq Buffers
    BY <1>3 DEF FlightType
  <1>6. free' \subseteq Buffers
    BY <1>1, <1>2, <1>5
  <1>7. QED
    BY <1>4, <1>6 DEF FlightType

LEMMA RetireTyped ==
  ASSUME TypeOK, NEW n \in Nat, Retire(n, held)
  PROVE  in_flight' \in Seq(FlightType)
  <1>1. Standard(held) \subseteq Buffers
    BY DEF TypeOK, Standard, ChunkType
  <1> DEFINE new == [index |-> n, bufs |-> Standard(held)]
  <1>2. new \in FlightType /\ in_flight \in Seq(FlightType)
    BY <1>1 DEF TypeOK, FlightType
  <1> HIDE DEF new
  <1>3. Append(in_flight, new) \in Seq(FlightType)
    BY <1>2
  <1>4. QED
    BY <1>2, <1>3 DEF Retire, new

\* What the HAL accepts is a typed submission at the end of the timeline.
LEMMA SubmissionTyped ==
  ASSUME TypeOK, NEW s \in SubmissionType
  PROVE  /\ Append(gpu, s) \in Seq(SubmissionType)
         /\ Len(Append(gpu, s)) = Len(gpu) + 1
         /\ done \in 0 .. (Len(gpu) + 1)
  <1>1. gpu \in Seq(SubmissionType) /\ done \in 0 .. Len(gpu)
    BY DEF TypeOK
  <1>2. Append(gpu, s) \in Seq(SubmissionType) /\ Len(Append(gpu, s)) = Len(gpu) + 1
    BY <1>1
  <1>3. Len(gpu) \in Nat
    BY <1>1
  <1>4. QED
    BY <1>1, <1>2, <1>3

LEMMA TypeInit == Init => TypeOK
  <1> SUFFICES ASSUME Init PROVE TypeOK
    OBVIOUS
  <1>1. content \in [Buffers -> [Units -> Nat]]
    BY QueueAssumption DEF Init
  <1>2. pc \in [Threads -> Labels] /\ kind \in [Threads -> Kinds]
        /\ index \in [Threads -> Nat] /\ target \in [Threads -> Nat]
    BY DEF Init, Labels, Kinds
  <1>3. done \in 0 .. Len(gpu) /\ latest \in Nat /\ after \in Nat
    BY DEF Init
  <1>4. /\ in_flight \in Seq(FlightType)
        /\ gpu \in Seq(SubmissionType)
    BY DEF Init
  <1>5. QED
    BY <1>1, <1>2, <1>3, <1>4 DEF Init, TypeOK

LEMMA TypeNext == TypeOK /\ [Next]_vars => TypeOK'
  <1> SUFFICES ASSUME TypeOK, [Next]_vars PROVE TypeOK'
    OBVIOUS
  <1> USE DEF Goto
  <1>1. ASSUME NEW t \in Threads, BeginLocked(t) PROVE TypeOK'
    BY <1>1 DEF BeginLocked, Begin, Kinds, TypeOK, Labels
  <1>2. ASSUME NEW t \in Threads, BeginPoll(t) PROVE TypeOK'
    BY <1>2 DEF BeginPoll, Begin, Kinds, TypeOK, Labels
  <1>3. ASSUME NEW t \in Threads, BeginWaitFor(t) PROVE TypeOK'
    BY <1>3 DEF BeginWaitFor, Begin, Kinds, TypeOK, Labels
  <1>4. ASSUME NEW t \in Threads, Enter(t) PROVE TypeOK'
    BY <1>4, LeaveTyped DEF Enter, TypeOK, Labels
  <1>5. ASSUME NEW t \in Threads, Validate(t) PROVE TypeOK'
    <2>1. pc' \in [Threads -> Labels] /\ kind' \in [Threads -> Kinds]
      BY <1>5 DEF Validate, TypeOK, Labels, Kinds
    <2>2. after' \in Nat
      BY <1>5 DEF Validate, TypeOK
    <2>3. PICK list \in UNION {[1 .. n -> Commands] : n \in 0 .. 2} :
            \E marked \in SUBSET {list[i] : i \in DOMAIN list} :
              submitted' = submitted \cup marked /\ (cmds' = marked \/ cmds' = cmds)
      <3>1. PICK list \in UNION {[1 .. n -> Commands] : n \in 0 .. 2}, valid \in BOOLEAN :
              Validate(t)!2!(list, valid)
        BY <1>5 DEF Validate
      <3>2. QED
        BY <3>1
    <2>4. \A i \in DOMAIN list : list[i] \in Commands
      OBVIOUS
    <2>5. submitted' \subseteq Commands /\ cmds' \subseteq Commands
      BY <2>3, <2>4 DEF TypeOK
    <2>6. QED
      BY <1>5, <2>1, <2>2, <2>5 DEF Validate, TypeOK
  <1>6. ASSUME NEW t \in Threads, PollHal(t) PROVE TypeOK'
    <2>1. pc' \in [Threads -> Labels]
      BY <1>6 DEF PollHal, AfterRecycle, TypeOK, Labels
    <2>2. gpu \in Seq(SubmissionType) /\ done \in 0 .. Len(gpu) /\ index \in [Threads -> Nat]
      BY DEF TypeOK
    <2>3. done \in Nat
      BY <2>2
    <2>4. index' \in [Threads -> Nat]
      BY <1>6, <2>2, <2>3 DEF PollHal
    <2>5. QED
      BY <1>6, <2>1, <2>4 DEF PollHal, TypeOK
  <1>7. ASSUME NEW t \in Threads, Recycle(t) PROVE TypeOK'
    BY <1>7, RecycleTyped DEF Recycle, AfterRecycle, TypeOK, Labels
  <1>8. ASSUME NEW t \in Threads, StageWrite(t) PROVE TypeOK'
    <2>1. PICK c \in NewCopies :
            /\ Stage(c)
            /\ copies' = copies \cup {c} /\ accepted' = accepted \cup {c.w}
      BY <1>8 DEF StageWrite
    <2>2. c \in CopyType /\ c.w \in Nat
      BY <2>1, StageTyped DEF CopyType
    <2>3. pc' \in [Threads -> Labels]
      BY <1>8 DEF StageWrite, TypeOK, Labels
    <2>4. QED
      BY <1>8, <2>1, <2>2, <2>3, StageTyped DEF StageWrite, TypeOK
  <1>9. ASSUME NEW t \in Threads, StageWriteFails(t) PROVE TypeOK'
    BY <1>9, StageFailsTyped, LeaveTyped DEF StageWriteFails, TypeOK, Labels
  <1>10. ASSUME NEW t \in Threads, CheckThreshold(t) PROVE TypeOK'
    BY <1>10, LeaveTyped DEF CheckThreshold, TypeOK, Labels
  <1>11. ASSUME NEW t \in Threads, Take(t) PROVE TypeOK'
    BY <1>11, LeaveTyped DEF Take, TakeSubmission, TypeOK, Labels
  <1>12. ASSUME NEW t \in Threads, LowerTake(t) PROVE TypeOK'
    BY <1>12 DEF LowerTake, TakeSubmission, TypeOK, Labels
  <1>13. ASSUME NEW t \in Threads, LowerWrite(t) PROVE TypeOK'
    BY <1>13, StageTyped DEF LowerWrite, TypeOK, Labels
  <1>14. ASSUME NEW t \in Threads, LowerDone(t) PROVE TypeOK'
    BY <1>14 DEF LowerDone, TakeSubmission, TypeOK, Labels
  <1>15. ASSUME NEW t \in Threads, LowerError(t) PROVE TypeOK'
    BY <1>15, StageFailsTyped DEF LowerError, TypeOK, Labels
  <1>16. ASSUME NEW t \in Threads, LowerAbort(t) PROVE TypeOK'
    BY <1>16 DEF LowerAbort, TakeSubmission, TypeOK, Labels
  <1>17. ASSUME NEW t \in Threads, HalSubmit(t) PROVE TypeOK'
    <2>1. Submission(TRUE) \in SubmissionType
      BY DEF Submission, SubmissionType, TypeOK
    <2>2. pc' \in [Threads -> Labels] /\ index' \in [Threads -> Nat]
      BY <1>17 DEF HalSubmit, TypeOK, Labels
    <2>3. QED
      BY <1>17, <2>1, <2>2, SubmissionTyped DEF HalSubmit, TypeOK
  <1>18. ASSUME NEW t \in Threads, HalSubmitFails(t) PROVE TypeOK'
    <2>1. Submission(FALSE) \in SubmissionType
      BY DEF Submission, SubmissionType, TypeOK
    <2>2. gpu' \in Seq(SubmissionType) /\ done' \in 0 .. Len(gpu')
      BY <1>18, <2>1, SubmissionTyped DEF HalSubmitFails, TypeOK
    <2>3. QED
      BY <1>18, <2>2, LeaveTyped DEF HalSubmitFails, TypeOK
  <1>19. ASSUME NEW t \in Threads, RecordSubmission(t) PROVE TypeOK'
    BY <1>19 DEF RecordSubmission, TypeOK, Labels
  <1>20. ASSUME NEW t \in Threads, RetireChunks(t) PROVE TypeOK'
    BY <1>20, RetireTyped, LeaveTyped DEF RetireChunks, TypeOK, Labels
  <1>21. ASSUME NEW t \in Threads, RetireUnread(t) PROVE TypeOK'
    BY <1>21, RetireTyped, LeaveTyped DEF RetireUnread, TypeOK, Labels
  <1>22. ASSUME NEW t \in Threads, Snapshot(t) PROVE TypeOK'
    BY <1>22 DEF Snapshot, TypeOK, Labels
  <1>23. ASSUME NEW t \in Threads, WaitBegin(t) PROVE TypeOK'
    BY <1>23 DEF WaitBegin, TypeOK, Labels
  <1>24. ASSUME NEW t \in Threads, Wait(t) PROVE TypeOK'
    BY <1>24 DEF Wait, TypeOK, Labels
  <1>25. ASSUME NEW t \in Threads, WaitFails(t) PROVE TypeOK'
    BY <1>25 DEF WaitFails, TypeOK, Labels
  <1>26. ASSUME NEW t \in Threads, DropWait(t) PROVE TypeOK'
    <2>1. pc' \in [Threads -> Labels] /\ in_flight' \in Seq(FlightType)
      BY <1>26 DEF DropWait, TypeOK, Labels
    <2>2. QED
      BY <1>26, <2>1 DEF DropWait, EmptyHands, TypeOK
  <1>27. ASSUME NEW t \in Threads, Drop(t) PROVE TypeOK'
    <2>1. pc' \in [Threads -> Labels]
      BY <1>27 DEF Drop, TypeOK, Labels
    <2>2. Rest(TRUE) \in SubmissionType /\ Rest(FALSE) \in SubmissionType
      BY DEF Rest, SubmissionType, TypeOK
    <2>3. gpu' \in Seq(SubmissionType) /\ done' \in 0 .. Len(gpu') /\ latest' \in Nat
      <3>1. gpu \in Seq(SubmissionType) /\ latest \in Nat /\ done \in 0 .. Len(gpu)
        BY DEF TypeOK
      <3>2. gpu' \in {gpu, Append(gpu, Rest(TRUE)), Append(gpu, Rest(FALSE))}
            /\ done' = done /\ latest' \in {latest, Len(gpu) + 1}
        BY <1>27 DEF Drop
      <3>3. \A s \in SubmissionType :
              /\ Append(gpu, s) \in Seq(SubmissionType)
              /\ Len(Append(gpu, s)) = Len(gpu) + 1
              /\ done \in 0 .. (Len(gpu) + 1)
        BY SubmissionTyped
      <3>4. Len(gpu) \in Nat
        BY <3>1
      <3>5. latest' \in Nat
        BY <3>1, <3>2, <3>4
      <3>6. CASE gpu' = gpu
        BY <3>1, <3>2, <3>5, <3>6
      <3>7. ASSUME NEW s \in SubmissionType, gpu' = Append(gpu, s)
            PROVE  gpu' \in Seq(SubmissionType) /\ done' \in 0 .. Len(gpu')
        BY <3>2, <3>3, <3>7
      <3>8. QED
        BY <2>2, <3>2, <3>5, <3>6, <3>7
    <2>4. QED
      BY <1>27, <2>1, <2>3 DEF Drop, TakeSubmission, TypeOK
  <1>28. CASE MarkLost
    BY <1>28 DEF MarkLost, TakeSubmission, TypeOK
  <1>29. CASE GpuComplete
    BY <1>29 DEF GpuComplete, TypeOK
  <1>30. CASE UNCHANGED vars
    BY <1>30 DEF vars, TypeOK
  <1>31. QED
    BY <1>1, <1>2, <1>3, <1>4, <1>5, <1>6, <1>7, <1>8, <1>9, <1>10, <1>11, <1>12, <1>13, <1>14, <1>15, <1>16, <1>17, <1>18, <1>19, <1>20, <1>21, <1>22, <1>23, <1>24, <1>25, <1>26, <1>27, <1>28, <1>29, <1>30
    DEF Next, Step, Finished

THEOREM Typing == Spec => []TypeOK
  <1>1. QED
    BY TypeInit, TypeNext, PTL DEF Spec

-----------------------------------------------------------------------------
(* Locks, hand-over and indices, each layer kept on top of those before it *)

\* The part of the type invariant the control of the calls needs.
LEMMA PcTyped ==
  ASSUME TypeOK
  PROVE  /\ pc \in [Threads -> Labels] /\ kind \in [Threads -> Kinds]
         /\ submission \in Threads \cup {NoThread}
         /\ batch_lock \in Threads \cup {NoThread}
  BY DEF TypeOK

\* The locks: a call between Enter and Leave holds `submission`, a lowering
\* walk the batch, and a dropped queue serves no call.
LEMMA LockNext ==
  ASSUME TypeOK, LockInv, [Next]_vars
  PROVE  LockInv'
  <1> USE DEF Goto
  <1>1. ASSUME NEW t \in Threads, BeginLocked(t) PROVE LockInv'
    BY <1>1, PcTyped, QueueAssumption DEF BeginLocked, Begin, LockInv, InSubmission
  <1>2. ASSUME NEW t \in Threads, BeginPoll(t) PROVE LockInv'
    BY <1>2, PcTyped, QueueAssumption DEF BeginPoll, Begin, LockInv, InSubmission
  <1>3. ASSUME NEW t \in Threads, BeginWaitFor(t) PROVE LockInv'
    BY <1>3, PcTyped, QueueAssumption DEF BeginWaitFor, Begin, LockInv, InSubmission
  <1>4. ASSUME NEW t \in Threads, Enter(t) PROVE LockInv'
    BY <1>4, PcTyped, QueueAssumption DEF Enter, Leave, EmptyHands, LockInv, InSubmission
  <1>5. ASSUME NEW t \in Threads, Validate(t) PROVE LockInv'
    <2>1. /\ pc[t] = "validate" /\ UNCHANGED <<submission, batch_lock, dropped>>
          /\ \/ pc' = [pc EXCEPT ![t] = "take"] /\ kind' = [kind EXCEPT ![t] = "flush"]
             \/ pc' = [pc EXCEPT ![t] = "take"] /\ kind' = kind
             \/ pc' = [pc EXCEPT ![t] = "poll_hal"] /\ kind' = kind
      BY <1>5 DEF Validate
    <2>2. QED
      BY <2>1, PcTyped, QueueAssumption DEF LockInv, InSubmission
  <1>6. ASSUME NEW t \in Threads, PollHal(t) PROVE LockInv'
    BY <1>6, PcTyped, QueueAssumption DEF PollHal, AfterRecycle, LockInv, InSubmission
  <1>7. ASSUME NEW t \in Threads, Recycle(t) PROVE LockInv'
    BY <1>7, PcTyped, QueueAssumption DEF Recycle, AfterRecycle, LockInv, InSubmission
  <1>8. ASSUME NEW t \in Threads, StageWrite(t) PROVE LockInv'
    BY <1>8, PcTyped, QueueAssumption DEF StageWrite, LockInv, InSubmission
  <1>9. ASSUME NEW t \in Threads, StageWriteFails(t) PROVE LockInv'
    BY <1>9, PcTyped, QueueAssumption DEF StageWriteFails, Leave, EmptyHands, LockInv, InSubmission
  <1>10. ASSUME NEW t \in Threads, CheckThreshold(t) PROVE LockInv'
    BY <1>10, PcTyped, QueueAssumption DEF CheckThreshold, Leave, EmptyHands, LockInv, InSubmission
  <1>11. ASSUME NEW t \in Threads, Take(t) PROVE LockInv'
    BY <1>11, PcTyped, QueueAssumption DEF Take, Leave, EmptyHands, LockInv, InSubmission
  <1>12. ASSUME NEW t \in Threads, LowerTake(t) PROVE LockInv'
    BY <1>12, PcTyped, QueueAssumption DEF LowerTake, LockInv, InSubmission
  <1>13. ASSUME NEW t \in Threads, LowerWrite(t) PROVE LockInv'
    BY <1>13, PcTyped, QueueAssumption DEF LowerWrite, LockInv, InSubmission
  <1>14. ASSUME NEW t \in Threads, LowerDone(t) PROVE LockInv'
    BY <1>14, PcTyped, QueueAssumption DEF LowerDone, LockInv, InSubmission
  <1>15. ASSUME NEW t \in Threads, LowerError(t) PROVE LockInv'
    BY <1>15, PcTyped, QueueAssumption DEF LowerError, LockInv, InSubmission
  <1>16. ASSUME NEW t \in Threads, LowerAbort(t) PROVE LockInv'
    BY <1>16, PcTyped, QueueAssumption DEF LowerAbort, LockInv, InSubmission
  <1>17. ASSUME NEW t \in Threads, HalSubmit(t) PROVE LockInv'
    BY <1>17, PcTyped, QueueAssumption DEF HalSubmit, LockInv, InSubmission
  <1>18. ASSUME NEW t \in Threads, HalSubmitFails(t) PROVE LockInv'
    BY <1>18, PcTyped, QueueAssumption DEF HalSubmitFails, Leave, EmptyHands, LockInv, InSubmission
  <1>19. ASSUME NEW t \in Threads, RecordSubmission(t) PROVE LockInv'
    BY <1>19, PcTyped, QueueAssumption DEF RecordSubmission, LockInv, InSubmission
  <1>20. ASSUME NEW t \in Threads, RetireChunks(t) PROVE LockInv'
    BY <1>20, PcTyped, QueueAssumption DEF RetireChunks, Leave, EmptyHands, LockInv, InSubmission
  <1>21. ASSUME NEW t \in Threads, RetireUnread(t) PROVE LockInv'
    BY <1>21, PcTyped, QueueAssumption DEF RetireUnread, Leave, EmptyHands, LockInv, InSubmission
  <1>22. ASSUME NEW t \in Threads, Snapshot(t) PROVE LockInv'
    BY <1>22, PcTyped, QueueAssumption DEF Snapshot, LockInv, InSubmission
  <1>23. ASSUME NEW t \in Threads, WaitBegin(t) PROVE LockInv'
    BY <1>23, PcTyped, QueueAssumption DEF WaitBegin, LockInv, InSubmission
  <1>24. ASSUME NEW t \in Threads, Wait(t) PROVE LockInv'
    BY <1>24, PcTyped, QueueAssumption DEF Wait, LockInv, InSubmission
  <1>25. ASSUME NEW t \in Threads, WaitFails(t) PROVE LockInv'
    BY <1>25, PcTyped, QueueAssumption DEF WaitFails, LockInv, InSubmission
  <1>26. ASSUME NEW t \in Threads, DropWait(t) PROVE LockInv'
    BY <1>26, PcTyped, QueueAssumption DEF DropWait, LockInv, InSubmission
  <1>27. ASSUME NEW t \in Threads, Drop(t) PROVE LockInv'
    BY <1>27, PcTyped, QueueAssumption DEF Drop, LockInv, InSubmission
  <1>28. CASE MarkLost
    BY <1>28, PcTyped, QueueAssumption DEF MarkLost, LockInv, InSubmission
  <1>29. CASE GpuComplete
    BY <1>29, PcTyped, QueueAssumption DEF GpuComplete, LockInv, InSubmission
  <1>30. CASE UNCHANGED vars
    BY <1>30, PcTyped, QueueAssumption DEF vars, LockInv, InSubmission
  <1>31. QED
    BY <1>1, <1>2, <1>3, <1>4, <1>5, <1>6, <1>7, <1>8, <1>9, <1>10, <1>11, <1>12, <1>13, <1>14, <1>15, <1>16, <1>17, <1>18, <1>19, <1>20, <1>21, <1>22, <1>23, <1>24, <1>25, <1>26, <1>27, <1>28, <1>29, <1>30
    DEF Next, Step, Finished

\* What the call inside `submission` has in its hands, by its place in the code.
LEMMA HandNext ==
  ASSUME TypeOK, LockInv, HandInv, [Next]_vars
  PROVE  HandInv'
  <1> USE DEF Goto
  <1>1. ASSUME NEW t \in Threads, BeginLocked(t) PROVE HandInv'
    BY <1>1, PcTyped, QueueAssumption DEF BeginLocked, Begin, TakeSubmission, LockInv, InSubmission, HandInv
  <1>2. ASSUME NEW t \in Threads, BeginPoll(t) PROVE HandInv'
    BY <1>2, PcTyped, QueueAssumption DEF BeginPoll, Begin, TakeSubmission, LockInv, InSubmission, HandInv
  <1>3. ASSUME NEW t \in Threads, BeginWaitFor(t) PROVE HandInv'
    BY <1>3, PcTyped, QueueAssumption DEF BeginWaitFor, Begin, TakeSubmission, LockInv, InSubmission, HandInv
  <1>4. ASSUME NEW t \in Threads, Enter(t) PROVE HandInv'
    BY <1>4, PcTyped, QueueAssumption DEF Enter, Leave, EmptyHands, TakeSubmission, LockInv, InSubmission, HandInv
  <1>5. ASSUME NEW t \in Threads, Validate(t) PROVE HandInv'
    BY <1>5, PcTyped, QueueAssumption DEF Validate, TakeSubmission, LockInv, InSubmission, HandInv
  <1>6. ASSUME NEW t \in Threads, PollHal(t) PROVE HandInv'
    BY <1>6, PcTyped, QueueAssumption DEF PollHal, AfterRecycle, TakeSubmission, LockInv, InSubmission, HandInv
  <1>7. ASSUME NEW t \in Threads, Recycle(t) PROVE HandInv'
    BY <1>7, PcTyped, QueueAssumption DEF Recycle, AfterRecycle, TakeSubmission, LockInv, InSubmission, HandInv
  <1>8. ASSUME NEW t \in Threads, StageWrite(t) PROVE HandInv'
    BY <1>8, PcTyped, QueueAssumption DEF StageWrite, TakeSubmission, LockInv, InSubmission, HandInv
  <1>9. ASSUME NEW t \in Threads, StageWriteFails(t) PROVE HandInv'
    BY <1>9, PcTyped, QueueAssumption DEF StageWriteFails, Leave, EmptyHands, TakeSubmission, LockInv, InSubmission, HandInv
  <1>10. ASSUME NEW t \in Threads, CheckThreshold(t) PROVE HandInv'
    BY <1>10, PcTyped, QueueAssumption DEF CheckThreshold, Leave, EmptyHands, TakeSubmission, LockInv, InSubmission, HandInv
  <1>11. ASSUME NEW t \in Threads, Take(t) PROVE HandInv'
    BY <1>11, PcTyped, QueueAssumption DEF Take, Leave, EmptyHands, TakeSubmission, LockInv, InSubmission, HandInv
  <1>12. ASSUME NEW t \in Threads, LowerTake(t) PROVE HandInv'
    BY <1>12, PcTyped, QueueAssumption DEF LowerTake, TakeSubmission, LockInv, InSubmission, HandInv
  <1>13. ASSUME NEW t \in Threads, LowerWrite(t) PROVE HandInv'
    BY <1>13, PcTyped, QueueAssumption DEF LowerWrite, TakeSubmission, LockInv, InSubmission, HandInv
  <1>14. ASSUME NEW t \in Threads, LowerDone(t) PROVE HandInv'
    BY <1>14, PcTyped, QueueAssumption DEF LowerDone, TakeSubmission, LockInv, InSubmission, HandInv
  <1>15. ASSUME NEW t \in Threads, LowerError(t) PROVE HandInv'
    BY <1>15, PcTyped, QueueAssumption DEF LowerError, TakeSubmission, LockInv, InSubmission, HandInv
  <1>16. ASSUME NEW t \in Threads, LowerAbort(t) PROVE HandInv'
    BY <1>16, PcTyped, QueueAssumption DEF LowerAbort, TakeSubmission, LockInv, InSubmission, HandInv
  <1>17. ASSUME NEW t \in Threads, HalSubmit(t) PROVE HandInv'
    BY <1>17, PcTyped, QueueAssumption DEF HalSubmit, TakeSubmission, LockInv, InSubmission, HandInv
  <1>18. ASSUME NEW t \in Threads, HalSubmitFails(t) PROVE HandInv'
    BY <1>18, PcTyped, QueueAssumption DEF HalSubmitFails, Leave, EmptyHands, TakeSubmission, LockInv, InSubmission, HandInv
  <1>19. ASSUME NEW t \in Threads, RecordSubmission(t) PROVE HandInv'
    BY <1>19, PcTyped, QueueAssumption DEF RecordSubmission, TakeSubmission, LockInv, InSubmission, HandInv
  <1>20. ASSUME NEW t \in Threads, RetireChunks(t) PROVE HandInv'
    BY <1>20, PcTyped, QueueAssumption DEF RetireChunks, Leave, EmptyHands, TakeSubmission, LockInv, InSubmission, HandInv
  <1>21. ASSUME NEW t \in Threads, RetireUnread(t) PROVE HandInv'
    BY <1>21, PcTyped, QueueAssumption DEF RetireUnread, Leave, EmptyHands, TakeSubmission, LockInv, InSubmission, HandInv
  <1>22. ASSUME NEW t \in Threads, Snapshot(t) PROVE HandInv'
    BY <1>22, PcTyped, QueueAssumption DEF Snapshot, TakeSubmission, LockInv, InSubmission, HandInv
  <1>23. ASSUME NEW t \in Threads, WaitBegin(t) PROVE HandInv'
    BY <1>23, PcTyped, QueueAssumption DEF WaitBegin, TakeSubmission, LockInv, InSubmission, HandInv
  <1>24. ASSUME NEW t \in Threads, Wait(t) PROVE HandInv'
    BY <1>24, PcTyped, QueueAssumption DEF Wait, TakeSubmission, LockInv, InSubmission, HandInv
  <1>25. ASSUME NEW t \in Threads, WaitFails(t) PROVE HandInv'
    BY <1>25, PcTyped, QueueAssumption DEF WaitFails, TakeSubmission, LockInv, InSubmission, HandInv
  <1>26. ASSUME NEW t \in Threads, DropWait(t) PROVE HandInv'
    BY <1>26, PcTyped, QueueAssumption DEF DropWait, EmptyHands, LockInv, InSubmission, HandInv
  <1>27. ASSUME NEW t \in Threads, Drop(t) PROVE HandInv'
    BY <1>27, PcTyped, QueueAssumption DEF Drop, TakeSubmission, LockInv, InSubmission, HandInv
  <1>28. CASE MarkLost
    BY <1>28, PcTyped, QueueAssumption DEF MarkLost, TakeSubmission, LockInv, InSubmission, HandInv
  <1>29. CASE GpuComplete
    BY <1>29, PcTyped, QueueAssumption DEF GpuComplete, TakeSubmission, LockInv, InSubmission, HandInv
  <1>30. CASE UNCHANGED vars
    BY <1>30, PcTyped, QueueAssumption DEF vars, TakeSubmission, LockInv, InSubmission, HandInv
  <1>31. QED
    BY <1>1, <1>2, <1>3, <1>4, <1>5, <1>6, <1>7, <1>8, <1>9, <1>10, <1>11, <1>12, <1>13, <1>14, <1>15, <1>16, <1>17, <1>18, <1>19, <1>20, <1>21, <1>22, <1>23, <1>24, <1>25, <1>26, <1>27, <1>28, <1>29, <1>30
    DEF Next, Step, Finished

\* The indices of the timeline are natural numbers.
LEMMA TimelineTyped ==
  ASSUME TypeOK
  PROVE  /\ latest \in Nat /\ done \in Nat /\ Len(gpu) \in Nat /\ done <= Len(gpu)
         /\ index \in [Threads -> Nat] /\ target \in [Threads -> Nat]
  <1>1. gpu \in Seq(SubmissionType) /\ done \in 0 .. Len(gpu)
    BY DEF TypeOK
  <1>2. QED
    BY <1>1 DEF TypeOK

\* One submission more makes the timeline longer by one.
LEMMA TimelineGrows ==
  ASSUME TypeOK, NEW s
  PROVE  Len(Append(gpu, s)) = Len(gpu) + 1
  <1>1. gpu \in Seq(SubmissionType)
    BY DEF TypeOK
  <1>2. QED
    BY <1>1

\* A thread recycles with an index the GPU has passed.
LEMMA IndexNext ==
  ASSUME TypeOK, LockInv, IndexInv, [Next]_vars
  PROVE  IndexInv'
  <1> USE DEF Goto
  <1>1. ASSUME NEW t \in Threads, BeginLocked(t) PROVE IndexInv'
    BY <1>1, PcTyped, TimelineTyped, TimelineGrows, QueueAssumption DEF BeginLocked, Begin, LockInv, InSubmission, IndexInv
  <1>2. ASSUME NEW t \in Threads, BeginPoll(t) PROVE IndexInv'
    BY <1>2, PcTyped, TimelineTyped, TimelineGrows, QueueAssumption DEF BeginPoll, Begin, LockInv, InSubmission, IndexInv
  <1>3. ASSUME NEW t \in Threads, BeginWaitFor(t) PROVE IndexInv'
    BY <1>3, PcTyped, TimelineTyped, TimelineGrows, QueueAssumption DEF BeginWaitFor, Begin, LockInv, InSubmission, IndexInv
  <1>4. ASSUME NEW t \in Threads, Enter(t) PROVE IndexInv'
    BY <1>4, PcTyped, TimelineTyped, TimelineGrows, QueueAssumption DEF Enter, Leave, EmptyHands, LockInv, InSubmission, IndexInv
  <1>5. ASSUME NEW t \in Threads, Validate(t) PROVE IndexInv'
    BY <1>5, PcTyped, TimelineTyped, TimelineGrows, QueueAssumption DEF Validate, LockInv, InSubmission, IndexInv
  <1>6. ASSUME NEW t \in Threads, PollHal(t) PROVE IndexInv'
    <2>1. /\ pc' \in {[pc EXCEPT ![t] = l] : l \in {"recycle", "stage", "lower_take", "idle"}}
          /\ index' \in {index, [index EXCEPT ![t] = done]}
          /\ pc'[t] = "recycle" => index'[t] = done
          /\ UNCHANGED <<latest, gpu, done, target>>
      BY <1>6, PcTyped, TimelineTyped DEF PollHal, AfterRecycle
    <2>2. QED
      BY <1>6, <2>1, PcTyped, TimelineTyped DEF PollHal, IndexInv
  <1>7. ASSUME NEW t \in Threads, Recycle(t) PROVE IndexInv'
    BY <1>7, PcTyped, TimelineTyped, TimelineGrows, QueueAssumption DEF Recycle, AfterRecycle, LockInv, InSubmission, IndexInv
  <1>8. ASSUME NEW t \in Threads, StageWrite(t) PROVE IndexInv'
    BY <1>8, PcTyped, TimelineTyped, TimelineGrows, QueueAssumption DEF StageWrite, LockInv, InSubmission, IndexInv
  <1>9. ASSUME NEW t \in Threads, StageWriteFails(t) PROVE IndexInv'
    BY <1>9, PcTyped, TimelineTyped, TimelineGrows, QueueAssumption DEF StageWriteFails, Leave, EmptyHands, LockInv, InSubmission, IndexInv
  <1>10. ASSUME NEW t \in Threads, CheckThreshold(t) PROVE IndexInv'
    BY <1>10, PcTyped, TimelineTyped, TimelineGrows, QueueAssumption DEF CheckThreshold, Leave, EmptyHands, LockInv, InSubmission, IndexInv
  <1>11. ASSUME NEW t \in Threads, Take(t) PROVE IndexInv'
    BY <1>11, PcTyped, TimelineTyped, TimelineGrows, QueueAssumption DEF Take, Leave, EmptyHands, LockInv, InSubmission, IndexInv
  <1>12. ASSUME NEW t \in Threads, LowerTake(t) PROVE IndexInv'
    BY <1>12, PcTyped, TimelineTyped, TimelineGrows, QueueAssumption DEF LowerTake, LockInv, InSubmission, IndexInv
  <1>13. ASSUME NEW t \in Threads, LowerWrite(t) PROVE IndexInv'
    BY <1>13, PcTyped, TimelineTyped, TimelineGrows, QueueAssumption DEF LowerWrite, LockInv, InSubmission, IndexInv
  <1>14. ASSUME NEW t \in Threads, LowerDone(t) PROVE IndexInv'
    BY <1>14, PcTyped, TimelineTyped, TimelineGrows, QueueAssumption DEF LowerDone, LockInv, InSubmission, IndexInv
  <1>15. ASSUME NEW t \in Threads, LowerError(t) PROVE IndexInv'
    BY <1>15, PcTyped, TimelineTyped, TimelineGrows, QueueAssumption DEF LowerError, LockInv, InSubmission, IndexInv
  <1>16. ASSUME NEW t \in Threads, LowerAbort(t) PROVE IndexInv'
    BY <1>16, PcTyped, TimelineTyped, TimelineGrows, QueueAssumption DEF LowerAbort, LockInv, InSubmission, IndexInv
  <1>17. ASSUME NEW t \in Threads, HalSubmit(t) PROVE IndexInv'
    BY <1>17, PcTyped, TimelineTyped, TimelineGrows, QueueAssumption DEF HalSubmit, LockInv, InSubmission, IndexInv
  <1>18. ASSUME NEW t \in Threads, HalSubmitFails(t) PROVE IndexInv'
    <2>1. Len(gpu') \in Nat /\ Len(gpu') >= Len(gpu)
      <3>1. gpu' = gpu \/ gpu' = Append(gpu, Submission(FALSE))
        BY <1>18 DEF HalSubmitFails
      <3>2. \/ Len(gpu') = Len(gpu)
            \/ Len(gpu') = Len(gpu) + 1
        BY <3>1, TimelineGrows, Zenon
      <3>3. QED
        BY <3>2, TimelineTyped
    <2>2. \A u \in Threads : pc'[u] \notin {"record", "retire"}
      BY <1>18, PcTyped, QueueAssumption DEF HalSubmitFails, Leave, LockInv, InSubmission
    <2>3. /\ pc' \in {[pc EXCEPT ![t] = l] : l \in {"snapshot", "idle"}}
          /\ UNCHANGED <<latest, done, index, target>>
      BY <1>18 DEF HalSubmitFails, Leave
    <2>4. QED
      BY <2>1, <2>2, <2>3, PcTyped, TimelineTyped DEF IndexInv
  <1>19. ASSUME NEW t \in Threads, RecordSubmission(t) PROVE IndexInv'
    BY <1>19, PcTyped, TimelineTyped, TimelineGrows, QueueAssumption DEF RecordSubmission, LockInv, InSubmission, IndexInv
  <1>20. ASSUME NEW t \in Threads, RetireChunks(t) PROVE IndexInv'
    BY <1>20, PcTyped, TimelineTyped, TimelineGrows, QueueAssumption DEF RetireChunks, Leave, EmptyHands, LockInv, InSubmission, IndexInv
  <1>21. ASSUME NEW t \in Threads, RetireUnread(t) PROVE IndexInv'
    BY <1>21, PcTyped, TimelineTyped, TimelineGrows, QueueAssumption DEF RetireUnread, Leave, EmptyHands, LockInv, InSubmission, IndexInv
  <1>22. ASSUME NEW t \in Threads, Snapshot(t) PROVE IndexInv'
    BY <1>22, PcTyped, TimelineTyped, TimelineGrows, QueueAssumption DEF Snapshot, LockInv, InSubmission, IndexInv
  <1>23. ASSUME NEW t \in Threads, WaitBegin(t) PROVE IndexInv'
    BY <1>23, PcTyped, TimelineTyped, TimelineGrows, QueueAssumption DEF WaitBegin, LockInv, InSubmission, IndexInv
  <1>24. ASSUME NEW t \in Threads, Wait(t) PROVE IndexInv'
    BY <1>24, PcTyped, TimelineTyped, TimelineGrows, QueueAssumption DEF Wait, LockInv, InSubmission, IndexInv
  <1>25. ASSUME NEW t \in Threads, WaitFails(t) PROVE IndexInv'
    BY <1>25, PcTyped, TimelineTyped, TimelineGrows, QueueAssumption DEF WaitFails, LockInv, InSubmission, IndexInv
  <1>26. ASSUME NEW t \in Threads, DropWait(t) PROVE IndexInv'
    BY <1>26, PcTyped, TimelineTyped, TimelineGrows, QueueAssumption DEF DropWait, LockInv, InSubmission, IndexInv
  <1>27. ASSUME NEW t \in Threads, Drop(t) PROVE IndexInv'
    <2>1. /\ Len(gpu') \in Nat /\ Len(gpu') >= Len(gpu)
          /\ latest' = latest \/ latest' = Len(gpu')
      <3>1. \/ gpu' = gpu /\ latest' = latest
            \/ gpu' = Append(gpu, Rest(TRUE)) /\ latest' = Len(gpu) + 1
            \/ gpu' = Append(gpu, Rest(FALSE)) /\ latest' = latest
        BY <1>27 DEF Drop
      <3>2. \/ Len(gpu') = Len(gpu) /\ latest' = latest
            \/ Len(gpu') = Len(gpu) + 1 /\ latest' = Len(gpu) + 1
            \/ Len(gpu') = Len(gpu) + 1 /\ latest' = latest
        BY <3>1, TimelineGrows, Zenon
      <3>3. QED
        BY <3>2, TimelineTyped
    <2>2. /\ \A u \in Threads : pc'[u] \in {"idle", "drop_wait"}
          /\ UNCHANGED <<done, index, target>>
      BY <1>27, PcTyped DEF Drop
    <2>3. QED
      BY <2>1, <2>2, TimelineTyped DEF IndexInv
  <1>28. CASE MarkLost
    BY <1>28, PcTyped, TimelineTyped, TimelineGrows, QueueAssumption DEF MarkLost, LockInv, InSubmission, IndexInv
  <1>29. CASE GpuComplete
    BY <1>29, PcTyped, TimelineTyped, TimelineGrows, QueueAssumption DEF GpuComplete, LockInv, InSubmission, IndexInv
  <1>30. CASE UNCHANGED vars
    BY <1>30, PcTyped, TimelineTyped, TimelineGrows, QueueAssumption DEF vars, LockInv, InSubmission, IndexInv
  <1>31. QED
    BY <1>1, <1>2, <1>3, <1>4, <1>5, <1>6, <1>7, <1>8, <1>9, <1>10, <1>11, <1>12, <1>13, <1>14, <1>15, <1>16, <1>17, <1>18, <1>19, <1>20, <1>21, <1>22, <1>23, <1>24, <1>25, <1>26, <1>27, <1>28, <1>29, <1>30
    DEF Next, Step, Finished

\* After the loss of the device nothing is inside `submission` or pending.
LossInv == lost => submission = NoThread /\ copies = {}

LEMMA LossNext ==
  ASSUME TypeOK, LockInv, LossInv, [Next]_vars
  PROVE  LossInv'
  <1> USE DEF Goto
  <1>1. ASSUME NEW t \in Threads, BeginLocked(t) PROVE LossInv'
    BY <1>1, PcTyped, QueueAssumption DEF BeginLocked, Begin, TakeSubmission, LockInv, InSubmission, LossInv
  <1>2. ASSUME NEW t \in Threads, BeginPoll(t) PROVE LossInv'
    BY <1>2, PcTyped, QueueAssumption DEF BeginPoll, Begin, TakeSubmission, LockInv, InSubmission, LossInv
  <1>3. ASSUME NEW t \in Threads, BeginWaitFor(t) PROVE LossInv'
    BY <1>3, PcTyped, QueueAssumption DEF BeginWaitFor, Begin, TakeSubmission, LockInv, InSubmission, LossInv
  <1>4. ASSUME NEW t \in Threads, Enter(t) PROVE LossInv'
    BY <1>4, PcTyped, QueueAssumption DEF Enter, Leave, EmptyHands, TakeSubmission, LockInv, InSubmission, LossInv
  <1>5. ASSUME NEW t \in Threads, Validate(t) PROVE LossInv'
    BY <1>5, PcTyped, QueueAssumption DEF Validate, TakeSubmission, LockInv, InSubmission, LossInv
  <1>6. ASSUME NEW t \in Threads, PollHal(t) PROVE LossInv'
    BY <1>6, PcTyped, QueueAssumption DEF PollHal, AfterRecycle, TakeSubmission, LockInv, InSubmission, LossInv
  <1>7. ASSUME NEW t \in Threads, Recycle(t) PROVE LossInv'
    BY <1>7, PcTyped, QueueAssumption DEF Recycle, AfterRecycle, TakeSubmission, LockInv, InSubmission, LossInv
  <1>8. ASSUME NEW t \in Threads, StageWrite(t) PROVE LossInv'
    BY <1>8, PcTyped, QueueAssumption DEF StageWrite, TakeSubmission, LockInv, InSubmission, LossInv
  <1>9. ASSUME NEW t \in Threads, StageWriteFails(t) PROVE LossInv'
    BY <1>9, PcTyped, QueueAssumption DEF StageWriteFails, Leave, EmptyHands, TakeSubmission, LockInv, InSubmission, LossInv
  <1>10. ASSUME NEW t \in Threads, CheckThreshold(t) PROVE LossInv'
    BY <1>10, PcTyped, QueueAssumption DEF CheckThreshold, Leave, EmptyHands, TakeSubmission, LockInv, InSubmission, LossInv
  <1>11. ASSUME NEW t \in Threads, Take(t) PROVE LossInv'
    BY <1>11, PcTyped, QueueAssumption DEF Take, Leave, EmptyHands, TakeSubmission, LockInv, InSubmission, LossInv
  <1>12. ASSUME NEW t \in Threads, LowerTake(t) PROVE LossInv'
    BY <1>12, PcTyped, QueueAssumption DEF LowerTake, TakeSubmission, LockInv, InSubmission, LossInv
  <1>13. ASSUME NEW t \in Threads, LowerWrite(t) PROVE LossInv'
    BY <1>13, PcTyped, QueueAssumption DEF LowerWrite, TakeSubmission, LockInv, InSubmission, LossInv
  <1>14. ASSUME NEW t \in Threads, LowerDone(t) PROVE LossInv'
    BY <1>14, PcTyped, QueueAssumption DEF LowerDone, TakeSubmission, LockInv, InSubmission, LossInv
  <1>15. ASSUME NEW t \in Threads, LowerError(t) PROVE LossInv'
    BY <1>15, PcTyped, QueueAssumption DEF LowerError, TakeSubmission, LockInv, InSubmission, LossInv
  <1>16. ASSUME NEW t \in Threads, LowerAbort(t) PROVE LossInv'
    BY <1>16, PcTyped, QueueAssumption DEF LowerAbort, TakeSubmission, LockInv, InSubmission, LossInv
  <1>17. ASSUME NEW t \in Threads, HalSubmit(t) PROVE LossInv'
    BY <1>17, PcTyped, QueueAssumption DEF HalSubmit, TakeSubmission, LockInv, InSubmission, LossInv
  <1>18. ASSUME NEW t \in Threads, HalSubmitFails(t) PROVE LossInv'
    BY <1>18, PcTyped, QueueAssumption DEF HalSubmitFails, Leave, EmptyHands, TakeSubmission, LockInv, InSubmission, LossInv
  <1>19. ASSUME NEW t \in Threads, RecordSubmission(t) PROVE LossInv'
    BY <1>19, PcTyped, QueueAssumption DEF RecordSubmission, TakeSubmission, LockInv, InSubmission, LossInv
  <1>20. ASSUME NEW t \in Threads, RetireChunks(t) PROVE LossInv'
    BY <1>20, PcTyped, QueueAssumption DEF RetireChunks, Leave, EmptyHands, TakeSubmission, LockInv, InSubmission, LossInv
  <1>21. ASSUME NEW t \in Threads, RetireUnread(t) PROVE LossInv'
    BY <1>21, PcTyped, QueueAssumption DEF RetireUnread, Leave, EmptyHands, TakeSubmission, LockInv, InSubmission, LossInv
  <1>22. ASSUME NEW t \in Threads, Snapshot(t) PROVE LossInv'
    BY <1>22, PcTyped, QueueAssumption DEF Snapshot, TakeSubmission, LockInv, InSubmission, LossInv
  <1>23. ASSUME NEW t \in Threads, WaitBegin(t) PROVE LossInv'
    BY <1>23, PcTyped, QueueAssumption DEF WaitBegin, TakeSubmission, LockInv, InSubmission, LossInv
  <1>24. ASSUME NEW t \in Threads, Wait(t) PROVE LossInv'
    BY <1>24, PcTyped, QueueAssumption DEF Wait, TakeSubmission, LockInv, InSubmission, LossInv
  <1>25. ASSUME NEW t \in Threads, WaitFails(t) PROVE LossInv'
    BY <1>25, PcTyped, QueueAssumption DEF WaitFails, TakeSubmission, LockInv, InSubmission, LossInv
  <1>26. ASSUME NEW t \in Threads, DropWait(t) PROVE LossInv'
    BY <1>26, PcTyped, QueueAssumption DEF DropWait, TakeSubmission, LockInv, InSubmission, LossInv
  <1>27. ASSUME NEW t \in Threads, Drop(t) PROVE LossInv'
    BY <1>27, PcTyped, QueueAssumption DEF Drop, TakeSubmission, LockInv, InSubmission, LossInv
  <1>28. CASE MarkLost
    BY <1>28, PcTyped, QueueAssumption DEF MarkLost, TakeSubmission, LockInv, InSubmission, LossInv
  <1>29. CASE GpuComplete
    BY <1>29, PcTyped, QueueAssumption DEF GpuComplete, TakeSubmission, LockInv, InSubmission, LossInv
  <1>30. CASE UNCHANGED vars
    BY <1>30, PcTyped, QueueAssumption DEF vars, TakeSubmission, LockInv, InSubmission, LossInv
  <1>31. QED
    BY <1>1, <1>2, <1>3, <1>4, <1>5, <1>6, <1>7, <1>8, <1>9, <1>10, <1>11, <1>12, <1>13, <1>14, <1>15, <1>16, <1>17, <1>18, <1>19, <1>20, <1>21, <1>22, <1>23, <1>24, <1>25, <1>26, <1>27, <1>28, <1>29, <1>30
    DEF Next, Step, Finished

LEMMA LossStep ==
  ASSUME TypeOK, LockInv, LossInv, [Next]_vars, lost
  PROVE  gpu' = gpu
  <1> USE DEF Goto
  <1>1. ASSUME NEW t \in Threads, BeginLocked(t) PROVE gpu' = gpu
    BY <1>1, PcTyped, QueueAssumption DEF BeginLocked, Begin, LockInv, InSubmission, LossInv
  <1>2. ASSUME NEW t \in Threads, BeginPoll(t) PROVE gpu' = gpu
    BY <1>2, PcTyped, QueueAssumption DEF BeginPoll, Begin, LockInv, InSubmission, LossInv
  <1>3. ASSUME NEW t \in Threads, BeginWaitFor(t) PROVE gpu' = gpu
    BY <1>3, PcTyped, QueueAssumption DEF BeginWaitFor, Begin, LockInv, InSubmission, LossInv
  <1>4. ASSUME NEW t \in Threads, Enter(t) PROVE gpu' = gpu
    BY <1>4, PcTyped, QueueAssumption DEF Enter, Leave, EmptyHands, LockInv, InSubmission, LossInv
  <1>5. ASSUME NEW t \in Threads, Validate(t) PROVE gpu' = gpu
    BY <1>5, PcTyped, QueueAssumption DEF Validate, LockInv, InSubmission, LossInv
  <1>6. ASSUME NEW t \in Threads, PollHal(t) PROVE gpu' = gpu
    BY <1>6, PcTyped, QueueAssumption DEF PollHal, AfterRecycle, LockInv, InSubmission, LossInv
  <1>7. ASSUME NEW t \in Threads, Recycle(t) PROVE gpu' = gpu
    BY <1>7, PcTyped, QueueAssumption DEF Recycle, AfterRecycle, LockInv, InSubmission, LossInv
  <1>8. ASSUME NEW t \in Threads, StageWrite(t) PROVE gpu' = gpu
    BY <1>8, PcTyped, QueueAssumption DEF StageWrite, LockInv, InSubmission, LossInv
  <1>9. ASSUME NEW t \in Threads, StageWriteFails(t) PROVE gpu' = gpu
    BY <1>9, PcTyped, QueueAssumption DEF StageWriteFails, Leave, EmptyHands, LockInv, InSubmission, LossInv
  <1>10. ASSUME NEW t \in Threads, CheckThreshold(t) PROVE gpu' = gpu
    BY <1>10, PcTyped, QueueAssumption DEF CheckThreshold, Leave, EmptyHands, LockInv, InSubmission, LossInv
  <1>11. ASSUME NEW t \in Threads, Take(t) PROVE gpu' = gpu
    BY <1>11, PcTyped, QueueAssumption DEF Take, Leave, EmptyHands, LockInv, InSubmission, LossInv
  <1>12. ASSUME NEW t \in Threads, LowerTake(t) PROVE gpu' = gpu
    BY <1>12, PcTyped, QueueAssumption DEF LowerTake, LockInv, InSubmission, LossInv
  <1>13. ASSUME NEW t \in Threads, LowerWrite(t) PROVE gpu' = gpu
    BY <1>13, PcTyped, QueueAssumption DEF LowerWrite, LockInv, InSubmission, LossInv
  <1>14. ASSUME NEW t \in Threads, LowerDone(t) PROVE gpu' = gpu
    BY <1>14, PcTyped, QueueAssumption DEF LowerDone, LockInv, InSubmission, LossInv
  <1>15. ASSUME NEW t \in Threads, LowerError(t) PROVE gpu' = gpu
    BY <1>15, PcTyped, QueueAssumption DEF LowerError, LockInv, InSubmission, LossInv
  <1>16. ASSUME NEW t \in Threads, LowerAbort(t) PROVE gpu' = gpu
    BY <1>16, PcTyped, QueueAssumption DEF LowerAbort, LockInv, InSubmission, LossInv
  <1>17. ASSUME NEW t \in Threads, HalSubmit(t) PROVE gpu' = gpu
    BY <1>17, PcTyped, QueueAssumption DEF HalSubmit, LockInv, InSubmission, LossInv
  <1>18. ASSUME NEW t \in Threads, HalSubmitFails(t) PROVE gpu' = gpu
    BY <1>18, PcTyped, QueueAssumption DEF HalSubmitFails, Leave, EmptyHands, LockInv, InSubmission, LossInv
  <1>19. ASSUME NEW t \in Threads, RecordSubmission(t) PROVE gpu' = gpu
    BY <1>19, PcTyped, QueueAssumption DEF RecordSubmission, LockInv, InSubmission, LossInv
  <1>20. ASSUME NEW t \in Threads, RetireChunks(t) PROVE gpu' = gpu
    BY <1>20, PcTyped, QueueAssumption DEF RetireChunks, Leave, EmptyHands, LockInv, InSubmission, LossInv
  <1>21. ASSUME NEW t \in Threads, RetireUnread(t) PROVE gpu' = gpu
    BY <1>21, PcTyped, QueueAssumption DEF RetireUnread, Leave, EmptyHands, LockInv, InSubmission, LossInv
  <1>22. ASSUME NEW t \in Threads, Snapshot(t) PROVE gpu' = gpu
    BY <1>22, PcTyped, QueueAssumption DEF Snapshot, LockInv, InSubmission, LossInv
  <1>23. ASSUME NEW t \in Threads, WaitBegin(t) PROVE gpu' = gpu
    BY <1>23, PcTyped, QueueAssumption DEF WaitBegin, LockInv, InSubmission, LossInv
  <1>24. ASSUME NEW t \in Threads, Wait(t) PROVE gpu' = gpu
    BY <1>24, PcTyped, QueueAssumption DEF Wait, LockInv, InSubmission, LossInv
  <1>25. ASSUME NEW t \in Threads, WaitFails(t) PROVE gpu' = gpu
    BY <1>25, PcTyped, QueueAssumption DEF WaitFails, LockInv, InSubmission, LossInv
  <1>26. ASSUME NEW t \in Threads, DropWait(t) PROVE gpu' = gpu
    BY <1>26, PcTyped, QueueAssumption DEF DropWait, LockInv, InSubmission, LossInv
  <1>27. ASSUME NEW t \in Threads, Drop(t) PROVE gpu' = gpu
    BY <1>27, PcTyped, QueueAssumption DEF Drop, LockInv, InSubmission, LossInv
  <1>28. CASE MarkLost
    BY <1>28, PcTyped, QueueAssumption DEF MarkLost, LockInv, InSubmission, LossInv
  <1>29. CASE GpuComplete
    BY <1>29, PcTyped, QueueAssumption DEF GpuComplete, LockInv, InSubmission, LossInv
  <1>30. CASE UNCHANGED vars
    BY <1>30, PcTyped, QueueAssumption DEF vars, LockInv, InSubmission, LossInv
  <1>31. QED
    BY <1>1, <1>2, <1>3, <1>4, <1>5, <1>6, <1>7, <1>8, <1>9, <1>10, <1>11, <1>12, <1>13, <1>14, <1>15, <1>16, <1>17, <1>18, <1>19, <1>20, <1>21, <1>22, <1>23, <1>24, <1>25, <1>26, <1>27, <1>28, <1>29, <1>30
    DEF Next, Step, Finished

\* A submission the HAL reported as accepted is covered by the latest index, or
\* is the one whose submitter is about to record it under `submission`.
CoverInv ==
  \A i \in DOMAIN gpu : gpu[i].ok =>
    \/ i <= latest
    \/ i = Len(gpu) /\ submission \in Threads /\ pc[submission] = "record"

LEMMA TimelineDomain ==
  ASSUME TypeOK, NEW s
  PROVE  /\ DOMAIN gpu = 1 .. Len(gpu) /\ Len(gpu) \in Nat
         /\ DOMAIN Append(gpu, s) = 1 .. (Len(gpu) + 1)
         /\ Append(gpu, s)[Len(gpu) + 1] = s
         /\ \A i \in 1 .. Len(gpu) : Append(gpu, s)[i] = gpu[i]
  <1>1. gpu \in Seq(SubmissionType)
    BY DEF TypeOK
  <1>2. QED
    BY <1>1

\* What happens to the cover when a submission is appended that is recorded by
\* the same step, is failed, or is to be recorded next.
LEMMA CoverAppend ==
  ASSUME TypeOK, LockInv, CoverInv, NEW s, gpu' = Append(gpu, s),
         \/ latest' = Len(gpu) + 1
         \/ latest' = latest /\ ~s.ok
         \/ latest' = latest /\ submission' \in Threads /\ pc'[submission'] = "record",
         submission \in Threads => pc[submission] # "record"
  PROVE  CoverInv'
  <1>1. /\ DOMAIN gpu = 1 .. Len(gpu) /\ Len(gpu) \in Nat
        /\ DOMAIN gpu' = 1 .. (Len(gpu) + 1) /\ gpu'[Len(gpu) + 1] = s
        /\ \A i \in 1 .. Len(gpu) : gpu'[i] = gpu[i]
    BY TimelineDomain
  <1>2. Len(gpu') = Len(gpu) + 1 /\ latest \in Nat
    BY TimelineGrows, TimelineTyped
  <1>3. ASSUME NEW i \in 1 .. Len(gpu), gpu'[i].ok PROVE i <= latest'
    <2>1. i <= latest
      BY <1>1, <1>3 DEF CoverInv
    <2>2. QED
      BY <1>1, <1>2, <2>1
  <1>4. gpu'[Len(gpu) + 1].ok =>
          \/ Len(gpu) + 1 <= latest'
          \/ submission' \in Threads /\ pc'[submission'] = "record"
    BY <1>1
  <1>5. ASSUME NEW i \in DOMAIN gpu', gpu'[i].ok
        PROVE  \/ i <= latest'
               \/ i = Len(gpu') /\ submission' \in Threads /\ pc'[submission'] = "record"
    <2>1. CASE i = Len(gpu) + 1
      BY <1>2, <1>4, <1>5, <2>1
    <2>2. CASE i \in 1 .. Len(gpu)
      BY <1>3, <1>5, <2>2
    <2>3. QED
      BY <1>1, <2>1, <2>2
  <1>6. QED
    BY <1>5 DEF CoverInv

LEMMA CoverNext ==
  ASSUME TypeOK, LockInv, IndexInv, CoverInv, [Next]_vars
  PROVE  CoverInv'
  <1> USE DEF Goto
  <1>1. ASSUME NEW t \in Threads, BeginLocked(t) PROVE CoverInv'
    BY <1>1, PcTyped, QueueAssumption DEF BeginLocked, Begin, LockInv, InSubmission, CoverInv
  <1>2. ASSUME NEW t \in Threads, BeginPoll(t) PROVE CoverInv'
    BY <1>2, PcTyped, QueueAssumption DEF BeginPoll, Begin, LockInv, InSubmission, CoverInv
  <1>3. ASSUME NEW t \in Threads, BeginWaitFor(t) PROVE CoverInv'
    BY <1>3, PcTyped, QueueAssumption DEF BeginWaitFor, Begin, LockInv, InSubmission, CoverInv
  <1>4. ASSUME NEW t \in Threads, Enter(t) PROVE CoverInv'
    BY <1>4, PcTyped, QueueAssumption DEF Enter, Leave, EmptyHands, LockInv, InSubmission, CoverInv
  <1>5. ASSUME NEW t \in Threads, Validate(t) PROVE CoverInv'
    BY <1>5, PcTyped, QueueAssumption DEF Validate, LockInv, InSubmission, CoverInv
  <1>6. ASSUME NEW t \in Threads, PollHal(t) PROVE CoverInv'
    BY <1>6, PcTyped, QueueAssumption DEF PollHal, AfterRecycle, LockInv, InSubmission, CoverInv
  <1>7. ASSUME NEW t \in Threads, Recycle(t) PROVE CoverInv'
    BY <1>7, PcTyped, QueueAssumption DEF Recycle, AfterRecycle, LockInv, InSubmission, CoverInv
  <1>8. ASSUME NEW t \in Threads, StageWrite(t) PROVE CoverInv'
    BY <1>8, PcTyped, QueueAssumption DEF StageWrite, LockInv, InSubmission, CoverInv
  <1>9. ASSUME NEW t \in Threads, StageWriteFails(t) PROVE CoverInv'
    BY <1>9, PcTyped, QueueAssumption DEF StageWriteFails, Leave, EmptyHands, LockInv, InSubmission, CoverInv
  <1>10. ASSUME NEW t \in Threads, CheckThreshold(t) PROVE CoverInv'
    BY <1>10, PcTyped, QueueAssumption DEF CheckThreshold, Leave, EmptyHands, LockInv, InSubmission, CoverInv
  <1>11. ASSUME NEW t \in Threads, Take(t) PROVE CoverInv'
    BY <1>11, PcTyped, QueueAssumption DEF Take, Leave, EmptyHands, LockInv, InSubmission, CoverInv
  <1>12. ASSUME NEW t \in Threads, LowerTake(t) PROVE CoverInv'
    BY <1>12, PcTyped, QueueAssumption DEF LowerTake, LockInv, InSubmission, CoverInv
  <1>13. ASSUME NEW t \in Threads, LowerWrite(t) PROVE CoverInv'
    BY <1>13, PcTyped, QueueAssumption DEF LowerWrite, LockInv, InSubmission, CoverInv
  <1>14. ASSUME NEW t \in Threads, LowerDone(t) PROVE CoverInv'
    BY <1>14, PcTyped, QueueAssumption DEF LowerDone, LockInv, InSubmission, CoverInv
  <1>15. ASSUME NEW t \in Threads, LowerError(t) PROVE CoverInv'
    BY <1>15, PcTyped, QueueAssumption DEF LowerError, LockInv, InSubmission, CoverInv
  <1>16. ASSUME NEW t \in Threads, LowerAbort(t) PROVE CoverInv'
    BY <1>16, PcTyped, QueueAssumption DEF LowerAbort, LockInv, InSubmission, CoverInv
  <1>17. ASSUME NEW t \in Threads, HalSubmit(t) PROVE CoverInv'
    <2>1. gpu' = Append(gpu, Submission(TRUE)) /\ latest' = latest
      BY <1>17 DEF HalSubmit
    <2>2. submission = t /\ submission' = t /\ pc[t] = "hal" /\ pc'[t] = "record"
      BY <1>17, PcTyped DEF HalSubmit, LockInv, InSubmission
    <2>3. QED
      BY <2>1, <2>2, CoverAppend
  <1>18. ASSUME NEW t \in Threads, HalSubmitFails(t) PROVE CoverInv'
    <2>1. submission = t /\ pc[t] = "hal" /\ latest' = latest
      BY <1>18, PcTyped DEF HalSubmitFails, LockInv, InSubmission
    <2>2. CASE gpu' = gpu
      BY <2>1, <2>2 DEF CoverInv
    <2>3. CASE gpu' = Append(gpu, Submission(FALSE))
      <3>1. ~Submission(FALSE).ok
        BY DEF Submission
      <3>2. QED
        BY <2>1, <2>3, <3>1, CoverAppend
    <2>4. QED
      BY <1>18, <2>2, <2>3 DEF HalSubmitFails
  <1>19. ASSUME NEW t \in Threads, RecordSubmission(t) PROVE CoverInv'
    <2>1. /\ gpu' = gpu /\ index[t] = Len(gpu) /\ index[t] \in Nat /\ latest \in Nat
          /\ latest' = IF index[t] > latest THEN index[t] ELSE latest
      BY <1>19, TimelineTyped DEF RecordSubmission, IndexInv
    <2>2. \A i \in DOMAIN gpu : i <= Len(gpu)
      BY TimelineDomain
    <2>3. \A i \in DOMAIN gpu : i \in Nat
      BY TimelineDomain
    <2>4. QED
      BY <2>1, <2>2, <2>3 DEF CoverInv
  <1>20. ASSUME NEW t \in Threads, RetireChunks(t) PROVE CoverInv'
    BY <1>20, PcTyped, QueueAssumption DEF RetireChunks, Leave, EmptyHands, LockInv, InSubmission, CoverInv
  <1>21. ASSUME NEW t \in Threads, RetireUnread(t) PROVE CoverInv'
    BY <1>21, PcTyped, QueueAssumption DEF RetireUnread, Leave, EmptyHands, LockInv, InSubmission, CoverInv
  <1>22. ASSUME NEW t \in Threads, Snapshot(t) PROVE CoverInv'
    BY <1>22, PcTyped, QueueAssumption DEF Snapshot, LockInv, InSubmission, CoverInv
  <1>23. ASSUME NEW t \in Threads, WaitBegin(t) PROVE CoverInv'
    BY <1>23, PcTyped, QueueAssumption DEF WaitBegin, LockInv, InSubmission, CoverInv
  <1>24. ASSUME NEW t \in Threads, Wait(t) PROVE CoverInv'
    BY <1>24, PcTyped, QueueAssumption DEF Wait, LockInv, InSubmission, CoverInv
  <1>25. ASSUME NEW t \in Threads, WaitFails(t) PROVE CoverInv'
    BY <1>25, PcTyped, QueueAssumption DEF WaitFails, LockInv, InSubmission, CoverInv
  <1>26. ASSUME NEW t \in Threads, DropWait(t) PROVE CoverInv'
    BY <1>26, PcTyped, QueueAssumption DEF DropWait, LockInv, InSubmission, CoverInv
  <1>27. ASSUME NEW t \in Threads, Drop(t) PROVE CoverInv'
    <2>1. submission \in Threads => pc[submission] # "record"
      BY <1>27 DEF Drop
    <2>2. CASE gpu' = gpu /\ latest' = latest
      BY <2>1, <2>2 DEF CoverInv
    <2>3. CASE gpu' = Append(gpu, Rest(TRUE)) /\ latest' = Len(gpu) + 1
      BY <2>1, <2>3, CoverAppend
    <2>4. CASE gpu' = Append(gpu, Rest(FALSE)) /\ latest' = latest
      <3>1. ~Rest(FALSE).ok
        BY DEF Rest
      <3>2. QED
        BY <2>1, <2>4, <3>1, CoverAppend
    <2>5. QED
      BY <1>27, <2>2, <2>3, <2>4 DEF Drop
  <1>28. CASE MarkLost
    BY <1>28, PcTyped, QueueAssumption DEF MarkLost, LockInv, InSubmission, CoverInv
  <1>29. CASE GpuComplete
    BY <1>29, PcTyped, QueueAssumption DEF GpuComplete, LockInv, InSubmission, CoverInv
  <1>30. CASE UNCHANGED vars
    BY <1>30, PcTyped, QueueAssumption DEF vars, LockInv, InSubmission, CoverInv
  <1>31. QED
    BY <1>1, <1>2, <1>3, <1>4, <1>5, <1>6, <1>7, <1>8, <1>9, <1>10, <1>11, <1>12, <1>13, <1>14, <1>15, <1>16, <1>17, <1>18, <1>19, <1>20, <1>21, <1>22, <1>23, <1>24, <1>25, <1>26, <1>27, <1>28, <1>29, <1>30
    DEF Next, Step, Finished

ControlInv == TypeOK /\ LockInv /\ IndexInv /\ LossInv /\ CoverInv

LEMMA ControlInit == Init => ControlInv
  <1> SUFFICES ASSUME Init PROVE ControlInv
    OBVIOUS
  <1>1. LockInv /\ IndexInv /\ LossInv /\ CoverInv
    BY QueueAssumption DEF Init, LockInv, InSubmission, IndexInv, LossInv, CoverInv
  <1>2. QED
    BY <1>1, TypeInit DEF ControlInv

LEMMA ControlNext == ControlInv /\ [Next]_vars => ControlInv'
  BY TypeNext, LockNext, IndexNext, LossNext, CoverNext DEF ControlInv

\* Nothing reaches the GPU once the queue is marked lost: every call that waited
\* for the lock finds the flag, and the drop of the queue finds no write.
THEOREM LossStopsQueue == Spec => NothingAfterLoss
  <1>1. ControlInv /\ [Next]_vars => [lost => gpu' = gpu]_vars
    BY LossStep DEF ControlInv
  <1>2. QED
    BY <1>1, ControlInit, ControlNext, PTL DEF Spec, NothingAfterLoss

\* Outside the lock the latest index covers every submission the HAL reported as
\* accepted: whoever reads it, after a flush, gates on all the work before.
THEOREM GateCovers == Spec => []LatestCovers
  <1>1. ControlInv => LatestCovers
    BY QueueAssumption DEF ControlInv, CoverInv, LatestCovers
  <1>2. QED
    BY <1>1, ControlInit, ControlNext, PTL DEF Spec

-----------------------------------------------------------------------------
(* Staging memory                                                          *)

\* A buffer that nothing in the queue holds and no unfinished copy reads.
Fresh(b) ==
  /\ b \in Buffers /\ b \notin Bufs(chunks) /\ b \notin Bufs(held)
  /\ \A i \in DOMAIN in_flight : b \notin in_flight[i].bufs

LEMMA UnallocatedFresh ==
  ASSUME NEW b \in Unallocated
  PROVE  Fresh(b) /\ b \notin free /\ b \notin Bufs(LiveCopies)
  BY DEF Unallocated, Fresh, Retired

\* take_chunk hands out a buffer without an owner.
LEMMA TakeChunkFresh ==
  ASSUME TypeOK, OneOwner, NEW b, TakeChunk(b)
  PROVE  /\ Fresh(b) /\ b \notin free' /\ free' \subseteq free
         /\ b \in free \/ b \in Unallocated
  <1>1. CASE b \in free
    <2>1. free \subseteq Buffers
      BY DEF TypeOK
    <2>2. QED
      BY <1>1, <2>1 DEF TakeChunk, OneOwner, Fresh
  <1>2. CASE b \in Unallocated
    BY <1>2, UnallocatedFresh DEF TakeChunk
  <1>3. QED
    BY <1>1, <1>2 DEF TakeChunk

\* Staging a copy extends one chunk of the batch, or adds one whose buffer had
\* no owner, and the copy lies past everything the chunk held before.
Staged(c, new, old) ==
  /\ chunks' = (chunks \ old) \cup {new}
  /\ new.buf = c.buf /\ c.off + c.size <= new.cursor
  /\ \/ /\ old = {} /\ Fresh(c.buf) /\ c.buf \notin free' /\ free' \subseteq free
        /\ c.buf \in free \/ c.buf \in Unallocated
     \/ \E x \in chunks : old = {x} /\ x.buf = c.buf /\ x.cursor <= c.off /\ free' = free
  /\ Write(c)

LEMMA StageShape ==
  ASSUME TypeOK, OneOwner, NEW c \in NewCopies, Stage(c)
  PROVE  \E new, old : Staged(c, new, old)
  <1> USE QueueAssumption
  <1>1. c.off \in Nat /\ c.size \in Nat
    BY StageTyped DEF CopyType
  <1>2. chunks \subseteq ChunkType
    BY DEF TypeOK
  <1>3. CASE StageDedicated(c)
    <2>1. Fresh(c.buf) /\ c.buf \notin free /\ c.buf \in Unallocated
      BY <1>3, UnallocatedFresh DEF StageDedicated
    <2>2. Staged(c, [buf |-> c.buf, dedicated |-> TRUE, cursor |-> c.size], {})
      BY <1>1, <1>3, <2>1 DEF StageDedicated, AddChunk, Staged
    <2>3. QED
      BY <2>2
  <1>4. ASSUME NEW align \in Alignments, StageCurrent(c, align)
        PROVE  \E new, old : Staged(c, new, old)
    <2>1. PICK x \in chunks :
            /\ x.buf = c.buf /\ c.off = AlignUp(x.cursor, align)
            /\ chunks' = (chunks \ {x}) \cup {[x EXCEPT !.cursor = c.off + c.size]}
            /\ free' = free /\ Write(c)
      BY <1>4 DEF StageCurrent
    <2>2. x \in [buf : Buffers, dedicated : BOOLEAN, cursor : Nat] /\ align \in Nat \ {0}
      BY <1>2 DEF ChunkType
    <2>3. x.cursor <= c.off
      BY <2>1, <2>2, AlignUpGrows
    <2>4. /\ [x EXCEPT !.cursor = c.off + c.size].buf = c.buf
          /\ [x EXCEPT !.cursor = c.off + c.size].cursor = c.off + c.size
      BY <2>1, <2>2
    <2>5. Staged(c, [x EXCEPT !.cursor = c.off + c.size], {x})
      BY <1>1, <2>1, <2>3, <2>4 DEF Staged
    <2>6. QED
      BY <2>5
  <1>5. ASSUME NEW align \in Alignments, StageNew(c, align)
        PROVE  \E new, old : Staged(c, new, old)
    <2>1. /\ Fresh(c.buf) /\ c.buf \notin free' /\ free' \subseteq free
          /\ c.buf \in free \/ c.buf \in Unallocated
      BY <1>5, TakeChunkFresh DEF StageNew
    <2>2. Staged(c, [buf |-> c.buf, dedicated |-> FALSE, cursor |-> c.size], {})
      BY <1>1, <1>5, <2>1 DEF StageNew, AddChunk, Staged
    <2>3. QED
      BY <2>2
  <1>6. QED
    BY <1>3, <1>4, <1>5 DEF Stage

LEMMA StageOwner ==
  ASSUME TypeOK, OneOwner, NEW c \in NewCopies, Stage(c), UNCHANGED <<held, in_flight>>
  PROVE  OneOwner'
  <1>1. PICK new, old : Staged(c, new, old)
    BY StageShape
  <1>2. CASE /\ old = {} /\ Fresh(c.buf) /\ c.buf \notin free' /\ free' \subseteq free
    BY <1>1, <1>2 DEF Staged, Fresh, OneOwner, Bufs
  <1>3. CASE \E x \in chunks : old = {x} /\ x.buf = c.buf /\ free' = free
    <2>1. Bufs(chunks') = Bufs(chunks)
      BY <1>1, <1>3 DEF Staged, Bufs
    <2>2. \A x, y \in chunks' : x.buf = y.buf => x = y
      BY <1>1, <1>3 DEF Staged, OneOwner
    <2>3. QED
      BY <1>3, <2>1, <2>2 DEF OneOwner
  <1>4. QED
    BY <1>1, <1>2, <1>3 DEF Staged

\* A failed staging leaves the batch as it was or with one more, unread, chunk.
LEMMA StageFailsShape ==
  ASSUME TypeOK, OneOwner, StageFails
  PROVE  \/ chunks' = chunks /\ free' = free
         \/ \E new : /\ chunks' = chunks \cup {new} /\ Fresh(new.buf) /\ new.cursor = 0
                     /\ new.buf \notin free' /\ free' \subseteq free
                     /\ new.buf \in free \/ new.buf \in Unallocated
  <1>1. ASSUME NEW b \in Buffers, TakeChunk(b),
               chunks' = chunks \cup {[buf |-> b, dedicated |-> FALSE, cursor |-> 0]}
        PROVE  \E new : /\ chunks' = chunks \cup {new} /\ Fresh(new.buf) /\ new.cursor = 0
                        /\ new.buf \notin free' /\ free' \subseteq free
                        /\ new.buf \in free \/ new.buf \in Unallocated
    <2> DEFINE new == [buf |-> b, dedicated |-> FALSE, cursor |-> 0]
    <2>1. new.buf = b /\ new.cursor = 0
      OBVIOUS
    <2>2. /\ Fresh(b) /\ b \notin free' /\ free' \subseteq free
          /\ b \in free \/ b \in Unallocated
      BY <1>1, TakeChunkFresh
    <2>3. QED
      BY <1>1, <2>1, <2>2
  <1>2. QED
    BY <1>1 DEF StageFails

LEMMA StageFailsOwner ==
  ASSUME TypeOK, OneOwner, StageFails, held' \in {held, {}}, UNCHANGED in_flight
  PROVE  OneOwner'
  <1>1. CASE chunks' = chunks /\ free' = free
    BY <1>1 DEF OneOwner, Bufs
  <1>2. ASSUME NEW new, chunks' = chunks \cup {new}, Fresh(new.buf),
               new.buf \notin free', free' \subseteq free
        PROVE  OneOwner'
    BY <1>2 DEF Fresh, OneOwner, Bufs
  <1>3. QED
    BY <1>1, <1>2, StageFailsShape

\* Recycling moves completed entries of in_flight to the pool or drops them.
LEMMA RecycleShape ==
  ASSUME TypeOK, NEW n, RecycleCompleted(n)
  PROVE  \E k \in 0 .. Len(in_flight) :
           /\ \A i \in 1 .. k : i \in DOMAIN in_flight /\ in_flight[i].index <= n
           /\ DOMAIN in_flight' = 1 .. (Len(in_flight) - k)
           /\ \A i \in DOMAIN in_flight' :
                i + k \in DOMAIN in_flight /\ in_flight'[i] = in_flight[i + k]
           /\ \A b \in free' : b \in free \/ \E i \in 1 .. k : b \in in_flight[i].bufs
  <1>1. in_flight \in Seq(FlightType)
    BY DEF TypeOK
  <1>2. PICK k \in 0 .. Len(in_flight) :
          /\ \A i \in 1 .. k : in_flight[i].index <= n
          /\ in_flight' = SubSeq(in_flight, k + 1, Len(in_flight))
          /\ \E kept \in SUBSET UNION {in_flight[i].bufs : i \in 1 .. k} :
               free' = free \cup kept
    BY DEF RecycleCompleted
  <1>3. Len(in_flight) \in Nat /\ DOMAIN in_flight = 1 .. Len(in_flight)
    BY <1>1
  <1>4. /\ Len(in_flight') = Len(in_flight) - k
        /\ DOMAIN in_flight' = 1 .. (Len(in_flight) - k)
        /\ \A i \in 1 .. (Len(in_flight) - k) : in_flight'[i] = in_flight[i + k]
    BY <1>1, <1>2, <1>3, SubSeqProperties
  <1>5. \A i \in 1 .. k : i \in DOMAIN in_flight
    BY <1>3
  <1>6. \A i \in DOMAIN in_flight' : i + k \in DOMAIN in_flight
    BY <1>3, <1>4
  <1>7. \A b \in free' : b \in free \/ \E i \in 1 .. k : b \in in_flight[i].bufs
    BY <1>2
  <1>8. QED
    BY <1>2, <1>4, <1>5, <1>6, <1>7

LEMMA RecycleOwner ==
  ASSUME TypeOK, OneOwner, NEW n, RecycleCompleted(n), UNCHANGED <<chunks, held>>
  PROVE  OneOwner'
  <1>1. PICK k \in 0 .. Len(in_flight) :
           /\ \A i \in 1 .. k : i \in DOMAIN in_flight /\ in_flight[i].index <= n
           /\ DOMAIN in_flight' = 1 .. (Len(in_flight) - k)
           /\ \A i \in DOMAIN in_flight' :
                i + k \in DOMAIN in_flight /\ in_flight'[i] = in_flight[i + k]
           /\ \A b \in free' : b \in free \/ \E i \in 1 .. k : b \in in_flight[i].bufs
    BY RecycleShape
  <1>2. free' \cap (Bufs(chunks') \cup Bufs(held')) = {}
    BY <1>1 DEF OneOwner
  <1>3. ASSUME NEW i \in DOMAIN in_flight'
        PROVE  /\ in_flight'[i].bufs \cap (Bufs(chunks') \cup Bufs(held') \cup free') = {}
               /\ \A j \in DOMAIN in_flight' :
                    j # i => in_flight'[i].bufs \cap in_flight'[j].bufs = {}
    <2>1. i + k \in DOMAIN in_flight /\ in_flight'[i] = in_flight[i + k] /\ i \in Nat /\ i >= 1
      BY <1>1, <1>3
    <2>2. \A j \in 1 .. k : j \in DOMAIN in_flight /\ j # i + k
      BY <1>1, <2>1
    <2>3. \A j \in DOMAIN in_flight' :
            j # i => j + k \in DOMAIN in_flight /\ j + k # i + k
                     /\ in_flight'[j] = in_flight[j + k]
      BY <1>1, <2>1
    <2>4. in_flight'[i].bufs \cap (Bufs(chunks') \cup Bufs(held') \cup free') = {}
      BY <1>1, <2>1, <2>2 DEF OneOwner
    <2>5. QED
      BY <2>1, <2>3, <2>4 DEF OneOwner
  <1>4. QED
    BY <1>2, <1>3 DEF OneOwner

\* Retiring hands the chunks of a submission over to a new entry of in_flight.
LEMMA RetireShape ==
  ASSUME TypeOK, NEW n, Retire(n, held)
  PROVE  /\ Len(in_flight) \in Nat /\ DOMAIN in_flight = 1 .. Len(in_flight)
         /\ \A i \in DOMAIN in_flight' :
              \/ i \in DOMAIN in_flight /\ in_flight'[i] = in_flight[i]
              \/ /\ i = Len(in_flight) + 1 /\ in_flight'[i].index = n
                 /\ in_flight'[i].bufs \subseteq Bufs(held)
  <1>1. in_flight \in Seq(FlightType)
    BY DEF TypeOK
  <1>2. Len(in_flight) \in Nat /\ DOMAIN in_flight = 1 .. Len(in_flight)
    BY <1>1
  <1>3. CASE in_flight' = in_flight
    BY <1>2, <1>3
  <1> DEFINE new == [index |-> n, bufs |-> Standard(held)]
  <1>4. CASE in_flight' = Append(in_flight, new)
    <2>1. new.index = n /\ new.bufs = Standard(held)
      OBVIOUS
    <2> HIDE DEF new
    <2>2. /\ DOMAIN in_flight' = 1 .. (Len(in_flight) + 1)
          /\ in_flight'[Len(in_flight) + 1] = new
          /\ \A i \in 1 .. Len(in_flight) : in_flight'[i] = in_flight[i]
      BY <1>1, <1>4
    <2>3. Standard(held) \subseteq Bufs(held)
      BY DEF Standard, Bufs
    <2>4. QED
      BY <1>2, <2>1, <2>2, <2>3
  <1>5. QED
    BY <1>3, <1>4 DEF Retire

LEMMA RetireOwner ==
  ASSUME TypeOK, OneOwner, NEW n, Retire(n, held), held' = {}, UNCHANGED <<chunks, free>>
  PROVE  OneOwner'
  <1>1. /\ Len(in_flight) \in Nat /\ DOMAIN in_flight = 1 .. Len(in_flight)
        /\ \A i \in DOMAIN in_flight' :
             \/ i \in DOMAIN in_flight /\ in_flight'[i] = in_flight[i]
             \/ i = Len(in_flight) + 1 /\ in_flight'[i].bufs \subseteq Bufs(held)
    BY RetireShape
  <1>2. Bufs(held') = {}
    BY DEF Bufs
  <1>3. ASSUME NEW i \in DOMAIN in_flight'
        PROVE  /\ in_flight'[i].bufs \cap (Bufs(chunks') \cup Bufs(held') \cup free') = {}
               /\ \A j \in DOMAIN in_flight' :
                    j # i => in_flight'[i].bufs \cap in_flight'[j].bufs = {}
    BY <1>1, <1>2, <1>3 DEF OneOwner
  <1>4. QED
    BY <1>2, <1>3 DEF OneOwner

\* The buffers of the queue change owner, they never get a second one.
LEMMA OwnerNext ==
  ASSUME TypeOK, OneOwner, [Next]_vars
  PROVE  OneOwner'
  <1> USE DEF Goto
  <1>1. ASSUME NEW t \in Threads, BeginLocked(t) PROVE OneOwner'
    BY <1>1 DEF BeginLocked, Begin, TakeSubmission, OneOwner, Bufs
  <1>2. ASSUME NEW t \in Threads, BeginPoll(t) PROVE OneOwner'
    BY <1>2 DEF BeginPoll, Begin, TakeSubmission, OneOwner, Bufs
  <1>3. ASSUME NEW t \in Threads, BeginWaitFor(t) PROVE OneOwner'
    BY <1>3 DEF BeginWaitFor, Begin, TakeSubmission, OneOwner, Bufs
  <1>4. ASSUME NEW t \in Threads, Enter(t) PROVE OneOwner'
    BY <1>4 DEF Enter, Leave, EmptyHands, TakeSubmission, OneOwner, Bufs
  <1>5. ASSUME NEW t \in Threads, Validate(t) PROVE OneOwner'
    BY <1>5 DEF Validate, TakeSubmission, OneOwner, Bufs
  <1>6. ASSUME NEW t \in Threads, PollHal(t) PROVE OneOwner'
    BY <1>6 DEF PollHal, AfterRecycle, TakeSubmission, OneOwner, Bufs
  <1>7. ASSUME NEW t \in Threads, Recycle(t) PROVE OneOwner'
    BY <1>7, RecycleOwner DEF Recycle
  <1>8. ASSUME NEW t \in Threads, StageWrite(t) PROVE OneOwner'
    <2>1. PICK c \in NewCopies : Stage(c)
      BY <1>8 DEF StageWrite
    <2>2. QED
      BY <1>8, <2>1, StageOwner DEF StageWrite
  <1>9. ASSUME NEW t \in Threads, StageWriteFails(t) PROVE OneOwner'
    BY <1>9, StageFailsOwner DEF StageWriteFails, Leave, EmptyHands
  <1>10. ASSUME NEW t \in Threads, CheckThreshold(t) PROVE OneOwner'
    BY <1>10 DEF CheckThreshold, Leave, EmptyHands, TakeSubmission, OneOwner, Bufs
  <1>11. ASSUME NEW t \in Threads, Take(t) PROVE OneOwner'
    BY <1>11 DEF Take, Leave, EmptyHands, TakeSubmission, OneOwner, Bufs
  <1>12. ASSUME NEW t \in Threads, LowerTake(t) PROVE OneOwner'
    BY <1>12 DEF LowerTake, TakeSubmission, OneOwner, Bufs
  <1>13. ASSUME NEW t \in Threads, LowerWrite(t) PROVE OneOwner'
    <2>1. PICK c \in NewCopies : Stage(c)
      BY <1>13 DEF LowerWrite
    <2>2. QED
      BY <1>13, <2>1, StageOwner DEF LowerWrite
  <1>14. ASSUME NEW t \in Threads, LowerDone(t) PROVE OneOwner'
    BY <1>14 DEF LowerDone, TakeSubmission, OneOwner, Bufs
  <1>15. ASSUME NEW t \in Threads, LowerError(t) PROVE OneOwner'
    BY <1>15, StageFailsOwner DEF LowerError
  <1>16. ASSUME NEW t \in Threads, LowerAbort(t) PROVE OneOwner'
    BY <1>16 DEF LowerAbort, TakeSubmission, OneOwner, Bufs
  <1>17. ASSUME NEW t \in Threads, HalSubmit(t) PROVE OneOwner'
    BY <1>17 DEF HalSubmit, TakeSubmission, OneOwner, Bufs
  <1>18. ASSUME NEW t \in Threads, HalSubmitFails(t) PROVE OneOwner'
    BY <1>18 DEF HalSubmitFails, Leave, EmptyHands, TakeSubmission, OneOwner, Bufs
  <1>19. ASSUME NEW t \in Threads, RecordSubmission(t) PROVE OneOwner'
    BY <1>19 DEF RecordSubmission, TakeSubmission, OneOwner, Bufs
  <1>20. ASSUME NEW t \in Threads, RetireChunks(t) PROVE OneOwner'
    BY <1>20, RetireOwner DEF RetireChunks, Leave, EmptyHands
  <1>21. ASSUME NEW t \in Threads, RetireUnread(t) PROVE OneOwner'
    BY <1>21, RetireOwner DEF RetireUnread, Leave, EmptyHands
  <1>22. ASSUME NEW t \in Threads, Snapshot(t) PROVE OneOwner'
    BY <1>22 DEF Snapshot, TakeSubmission, OneOwner, Bufs
  <1>23. ASSUME NEW t \in Threads, WaitBegin(t) PROVE OneOwner'
    BY <1>23 DEF WaitBegin, TakeSubmission, OneOwner, Bufs
  <1>24. ASSUME NEW t \in Threads, Wait(t) PROVE OneOwner'
    BY <1>24 DEF Wait, TakeSubmission, OneOwner, Bufs
  <1>25. ASSUME NEW t \in Threads, WaitFails(t) PROVE OneOwner'
    BY <1>25 DEF WaitFails, TakeSubmission, OneOwner, Bufs
  <1>26. ASSUME NEW t \in Threads, DropWait(t) PROVE OneOwner'
    BY <1>26 DEF DropWait, EmptyHands, OneOwner, Bufs
  <1>27. ASSUME NEW t \in Threads, Drop(t) PROVE OneOwner'
    BY <1>27 DEF Drop, TakeSubmission, OneOwner, Bufs
  <1>28. CASE MarkLost
    BY <1>28 DEF MarkLost, TakeSubmission, OneOwner, Bufs
  <1>29. CASE GpuComplete
    BY <1>29 DEF GpuComplete, TakeSubmission, OneOwner, Bufs
  <1>30. CASE UNCHANGED vars
    BY <1>30 DEF vars, TakeSubmission, OneOwner, Bufs
  <1>31. QED
    BY <1>1, <1>2, <1>3, <1>4, <1>5, <1>6, <1>7, <1>8, <1>9, <1>10, <1>11, <1>12, <1>13, <1>14, <1>15, <1>16, <1>17, <1>18, <1>19, <1>20, <1>21, <1>22, <1>23, <1>24, <1>25, <1>26, <1>27, <1>28, <1>29, <1>30
    DEF Next, Step, Finished

LEMMA StageBatch ==
  ASSUME TypeOK, OneOwner, BatchInv, NEW c \in NewCopies, Stage(c)
  PROVE  /\ Bufs(chunks) \subseteq Bufs(chunks') /\ c.buf \in Bufs(chunks')
         /\ \A chunk \in chunks' : \A d \in copies \cup encoded \cup {c} :
              d.buf = chunk.buf => d.off + d.size <= chunk.cursor
  <1>1. PICK new, old : Staged(c, new, old)
    BY StageShape
  <1>2. new \in chunks' /\ new.buf = c.buf
    BY <1>1 DEF Staged
  <1>3. Bufs(chunks) \subseteq Bufs(chunks') /\ c.buf \in Bufs(chunks')
    BY <1>1, <1>2 DEF Staged, Bufs
  <1>4. /\ c.off \in Nat /\ c.size \in Nat /\ new.cursor \in Nat
        /\ \A x \in chunks : x.cursor \in Nat
        /\ \A d \in copies \cup encoded : d.off \in Nat /\ d.size \in Nat
    <2>1. c \in CopyType /\ chunks' \subseteq ChunkType
      BY StageTyped
    <2>2. chunks \subseteq ChunkType /\ copies \subseteq CopyType /\ encoded \subseteq CopyType
      BY DEF TypeOK
    <2>3. QED
      BY <1>2, <2>1, <2>2 DEF CopyType, ChunkType
  <1>5. ASSUME NEW chunk \in chunks', NEW d \in copies \cup encoded \cup {c},
               d.buf = chunk.buf
        PROVE  d.off + d.size <= chunk.cursor
    <2>1. CASE chunk # new /\ d # c
      BY <1>1, <1>5, <2>1 DEF Staged, BatchInv
    <2>2. CASE chunk # new /\ d = c
      <3>1. chunk \in chunks /\ chunk.buf \in Bufs(chunks)
        BY <1>1, <1>5, <2>2 DEF Staged, Bufs
      <3>2. PICK x \in chunks : old = {x} /\ x.buf = c.buf
        BY <1>1, <1>5, <2>2, <3>1 DEF Staged, Fresh
      <3>3. chunk = x
        BY <1>5, <2>2, <3>1, <3>2 DEF OneOwner
      <3>4. QED
        BY <1>1, <1>5, <2>2, <3>2, <3>3 DEF Staged
    <2>3. CASE chunk = new /\ d = c
      BY <1>1, <2>3 DEF Staged
    <2>4. CASE chunk = new /\ d # c
      <3>1. d \in copies \cup encoded /\ d.buf = c.buf
        BY <1>2, <1>5, <2>4
      <3>2. d.buf \in Bufs(chunks) \cup Bufs(held)
        BY <3>1 DEF BatchInv, Bufs
      <3>3. PICK x \in chunks : x.buf = c.buf /\ x.cursor <= c.off
        BY <1>1, <3>1, <3>2 DEF Staged, Fresh
      <3>4. d.off + d.size <= x.cursor
        BY <3>1, <3>3 DEF BatchInv
      <3>5. c.off + c.size <= new.cursor
        BY <1>1 DEF Staged
      <3>6. QED
        BY <1>4, <2>4, <3>1, <3>3, <3>4, <3>5
    <2>5. QED
      BY <2>1, <2>2, <2>3, <2>4
  <1>6. QED
    BY <1>3, <1>5

LEMMA StageFailsBatch ==
  ASSUME TypeOK, OneOwner, BatchInv, StageFails
  PROVE  /\ Bufs(chunks) \subseteq Bufs(chunks')
         /\ \A chunk \in chunks' : \A d \in copies \cup encoded :
              d.buf = chunk.buf => d.off + d.size <= chunk.cursor
  <1>1. CASE chunks' = chunks
    BY <1>1 DEF BatchInv, Bufs
  <1>2. ASSUME NEW new, chunks' = chunks \cup {new}, Fresh(new.buf)
        PROVE  /\ Bufs(chunks) \subseteq Bufs(chunks')
               /\ \A chunk \in chunks' : \A d \in copies \cup encoded :
                    d.buf = chunk.buf => d.off + d.size <= chunk.cursor
    <2>1. \A d \in copies \cup encoded : d.buf \in Bufs(chunks) \cup Bufs(held)
      BY DEF BatchInv, Bufs
    <2>2. \A d \in copies \cup encoded : d.buf # new.buf
      BY <1>2, <2>1 DEF Fresh
    <2>3. Bufs(chunks) \subseteq Bufs(chunks')
      BY <1>2 DEF Bufs
    <2>4. QED
      BY <1>2, <2>2, <2>3 DEF BatchInv
  <1>3. QED
    BY <1>1, <1>2, StageFailsShape

\* The memory of the copies that are not on the timeline.
LEMMA BatchNext ==
  ASSUME TypeOK, LockInv, HandInv, OneOwner, BatchInv, [Next]_vars
  PROVE  BatchInv'
  <1> USE DEF Goto
  <1>1. ASSUME NEW t \in Threads, BeginLocked(t) PROVE BatchInv'
    BY <1>1, PcTyped, QueueAssumption DEF BeginLocked, Begin, TakeSubmission, LockInv, HandInv, InSubmission, BatchInv, Bufs
  <1>2. ASSUME NEW t \in Threads, BeginPoll(t) PROVE BatchInv'
    BY <1>2, PcTyped, QueueAssumption DEF BeginPoll, Begin, TakeSubmission, LockInv, HandInv, InSubmission, BatchInv, Bufs
  <1>3. ASSUME NEW t \in Threads, BeginWaitFor(t) PROVE BatchInv'
    BY <1>3, PcTyped, QueueAssumption DEF BeginWaitFor, Begin, TakeSubmission, LockInv, HandInv, InSubmission, BatchInv, Bufs
  <1>4. ASSUME NEW t \in Threads, Enter(t) PROVE BatchInv'
    BY <1>4, PcTyped, QueueAssumption DEF Enter, Leave, EmptyHands, TakeSubmission, LockInv, HandInv, InSubmission, BatchInv, Bufs
  <1>5. ASSUME NEW t \in Threads, Validate(t) PROVE BatchInv'
    BY <1>5, PcTyped, QueueAssumption DEF Validate, TakeSubmission, LockInv, HandInv, InSubmission, BatchInv, Bufs
  <1>6. ASSUME NEW t \in Threads, PollHal(t) PROVE BatchInv'
    BY <1>6, PcTyped, QueueAssumption DEF PollHal, AfterRecycle, TakeSubmission, LockInv, HandInv, InSubmission, BatchInv, Bufs
  <1>7. ASSUME NEW t \in Threads, Recycle(t) PROVE BatchInv'
    BY <1>7, PcTyped, QueueAssumption DEF Recycle, AfterRecycle, TakeSubmission, LockInv, HandInv, InSubmission, BatchInv, Bufs
  <1>8. ASSUME NEW t \in Threads, StageWrite(t) PROVE BatchInv'
    <2>1. PICK c \in NewCopies : Stage(c) /\ copies' = copies \cup {c}
      BY <1>8 DEF StageWrite
    <2>2. encoded' = encoded /\ taken' = taken /\ held' = held /\ pc'[t] = "threshold"
          /\ \A u \in Threads \ {t} : pc'[u] = pc[u]
      BY <1>8, PcTyped DEF StageWrite
    <2>3. /\ Bufs(chunks) \subseteq Bufs(chunks') /\ c.buf \in Bufs(chunks')
          /\ \A chunk \in chunks' : \A d \in copies \cup encoded \cup {c} :
               d.buf = chunk.buf => d.off + d.size <= chunk.cursor
      BY <2>1, StageBatch
    <2>4. QED
      BY <2>1, <2>2, <2>3 DEF BatchInv, Bufs
  <1>9. ASSUME NEW t \in Threads, StageWriteFails(t) PROVE BatchInv'
    <2>1. taken' = {} /\ encoded' = {} /\ copies' = copies
      BY <1>9 DEF StageWriteFails, Leave, EmptyHands
    <2>2. QED
      BY <1>9, <2>1, StageFailsBatch DEF StageWriteFails, BatchInv, Bufs
  <1>10. ASSUME NEW t \in Threads, CheckThreshold(t) PROVE BatchInv'
    BY <1>10, PcTyped, QueueAssumption DEF CheckThreshold, Leave, EmptyHands, TakeSubmission, LockInv, HandInv, InSubmission, BatchInv, Bufs
  <1>11. ASSUME NEW t \in Threads, Take(t) PROVE BatchInv'
    BY <1>11, PcTyped, QueueAssumption DEF Take, Leave, EmptyHands, TakeSubmission, LockInv, HandInv, InSubmission, BatchInv, Bufs
  <1>12. ASSUME NEW t \in Threads, LowerTake(t) PROVE BatchInv'
    BY <1>12, PcTyped, QueueAssumption DEF LowerTake, TakeSubmission, LockInv, HandInv, InSubmission, BatchInv, Bufs
  <1>13. ASSUME NEW t \in Threads, LowerWrite(t) PROVE BatchInv'
    <2>1. PICK c \in NewCopies : Stage(c) /\ encoded' = encoded \cup {c}
      BY <1>13 DEF LowerWrite
    <2>2. copies' = copies /\ taken' = taken /\ held' = held /\ pc' = pc
      BY <1>13 DEF LowerWrite
    <2>3. \A u \in Threads : pc[u] # "hal"
      BY <1>13, QueueAssumption DEF LowerWrite, LockInv, InSubmission
    <2>4. /\ Bufs(chunks) \subseteq Bufs(chunks') /\ c.buf \in Bufs(chunks')
          /\ \A chunk \in chunks' : \A d \in copies \cup encoded \cup {c} :
               d.buf = chunk.buf => d.off + d.size <= chunk.cursor
      BY <2>1, StageBatch
    <2>5. QED
      BY <2>1, <2>2, <2>3, <2>4 DEF BatchInv, Bufs
  <1>14. ASSUME NEW t \in Threads, LowerDone(t) PROVE BatchInv'
    <2>1. /\ copies' = {} /\ chunks' = {} /\ held' = held \cup chunks
          /\ UNCHANGED <<taken, encoded>>
      BY <1>14 DEF LowerDone, TakeSubmission
    <2>2. Bufs(held') = Bufs(held) \cup Bufs(chunks)
      BY <2>1 DEF Bufs
    <2>3. Bufs(taken') \subseteq Bufs(held') /\ Bufs(encoded') \subseteq Bufs(held')
      BY <2>1, <2>2 DEF BatchInv
    <2>4. Bufs(copies') = {}
      BY <2>1 DEF Bufs
    <2>5. QED
      BY <2>1, <2>3, <2>4 DEF BatchInv
  <1>15. ASSUME NEW t \in Threads, LowerError(t) PROVE BatchInv'
    <2>1. UNCHANGED <<taken, encoded, copies, held>>
      BY <1>15 DEF LowerError
    <2>2. \A u \in Threads : pc'[u] # "hal"
      BY <1>15, PcTyped, QueueAssumption DEF LowerError, LockInv, InSubmission
    <2>3. QED
      BY <1>15, <2>1, <2>2, StageFailsBatch DEF LowerError, BatchInv, Bufs
  <1>16. ASSUME NEW t \in Threads, LowerAbort(t) PROVE BatchInv'
    BY <1>16, PcTyped, QueueAssumption DEF LowerAbort, TakeSubmission, LockInv, HandInv, InSubmission, BatchInv, Bufs
  <1>17. ASSUME NEW t \in Threads, HalSubmit(t) PROVE BatchInv'
    BY <1>17, PcTyped, QueueAssumption DEF HalSubmit, TakeSubmission, LockInv, HandInv, InSubmission, BatchInv, Bufs
  <1>18. ASSUME NEW t \in Threads, HalSubmitFails(t) PROVE BatchInv'
    BY <1>18, PcTyped, QueueAssumption DEF HalSubmitFails, Leave, EmptyHands, TakeSubmission, LockInv, HandInv, InSubmission, BatchInv, Bufs
  <1>19. ASSUME NEW t \in Threads, RecordSubmission(t) PROVE BatchInv'
    BY <1>19, PcTyped, QueueAssumption DEF RecordSubmission, TakeSubmission, LockInv, HandInv, InSubmission, BatchInv, Bufs
  <1>20. ASSUME NEW t \in Threads, RetireChunks(t) PROVE BatchInv'
    BY <1>20, PcTyped, QueueAssumption DEF RetireChunks, Leave, EmptyHands, TakeSubmission, LockInv, HandInv, InSubmission, BatchInv, Bufs
  <1>21. ASSUME NEW t \in Threads, RetireUnread(t) PROVE BatchInv'
    BY <1>21, PcTyped, QueueAssumption DEF RetireUnread, Leave, EmptyHands, TakeSubmission, LockInv, HandInv, InSubmission, BatchInv, Bufs
  <1>22. ASSUME NEW t \in Threads, Snapshot(t) PROVE BatchInv'
    BY <1>22, PcTyped, QueueAssumption DEF Snapshot, TakeSubmission, LockInv, HandInv, InSubmission, BatchInv, Bufs
  <1>23. ASSUME NEW t \in Threads, WaitBegin(t) PROVE BatchInv'
    BY <1>23, PcTyped, QueueAssumption DEF WaitBegin, TakeSubmission, LockInv, HandInv, InSubmission, BatchInv, Bufs
  <1>24. ASSUME NEW t \in Threads, Wait(t) PROVE BatchInv'
    BY <1>24, PcTyped, QueueAssumption DEF Wait, TakeSubmission, LockInv, HandInv, InSubmission, BatchInv, Bufs
  <1>25. ASSUME NEW t \in Threads, WaitFails(t) PROVE BatchInv'
    BY <1>25, PcTyped, QueueAssumption DEF WaitFails, TakeSubmission, LockInv, HandInv, InSubmission, BatchInv, Bufs
  <1>26. ASSUME NEW t \in Threads, DropWait(t) PROVE BatchInv'
    BY <1>26 DEF DropWait, EmptyHands, BatchInv, Bufs
  <1>27. ASSUME NEW t \in Threads, Drop(t) PROVE BatchInv'
    BY <1>27, PcTyped, QueueAssumption DEF Drop, TakeSubmission, LockInv, HandInv, InSubmission, BatchInv, Bufs
  <1>28. CASE MarkLost
    BY <1>28, PcTyped, QueueAssumption DEF MarkLost, TakeSubmission, LockInv, HandInv, InSubmission, BatchInv, Bufs
  <1>29. CASE GpuComplete
    BY <1>29, PcTyped, QueueAssumption DEF GpuComplete, TakeSubmission, LockInv, HandInv, InSubmission, BatchInv, Bufs
  <1>30. CASE UNCHANGED vars
    BY <1>30, PcTyped, QueueAssumption DEF vars, TakeSubmission, LockInv, HandInv, InSubmission, BatchInv, Bufs
  <1>31. QED
    BY <1>1, <1>2, <1>3, <1>4, <1>5, <1>6, <1>7, <1>8, <1>9, <1>10, <1>11, <1>12, <1>13, <1>14, <1>15, <1>16, <1>17, <1>18, <1>19, <1>20, <1>21, <1>22, <1>23, <1>24, <1>25, <1>26, <1>27, <1>28, <1>29, <1>30
    DEF Next, Step, Finished

\* The unfinished copies of the timeline, as the timeline moves.
LEMMA LiveSame ==
  gpu' = gpu /\ done' = done => LiveOnGpu' = LiveOnGpu
  BY DEF LiveOnGpu

LEMMA LiveAppend ==
  ASSUME TypeOK, NEW s, gpu' = Append(gpu, s), done' = done
  PROVE  /\ Len(gpu') = Len(gpu) + 1 /\ gpu'[Len(gpu) + 1] = s
         /\ \A j \in 1 .. Len(gpu) : gpu'[j] = gpu[j]
         /\ LiveOnGpu' \subseteq LiveOnGpu \cup s.copies
  <1>1. gpu \in Seq(SubmissionType) /\ done \in Nat
    BY TimelineTyped DEF TypeOK
  <1>2. /\ Len(gpu') = Len(gpu) + 1 /\ gpu'[Len(gpu) + 1] = s /\ Len(gpu) \in Nat
        /\ \A j \in 1 .. Len(gpu) : gpu'[j] = gpu[j]
    BY <1>1
  <1>3. ASSUME NEW j \in (done + 1) .. Len(gpu'), NEW c \in gpu'[j].copies
        PROVE  c \in LiveOnGpu \cup s.copies
    <2>1. CASE j = Len(gpu) + 1
      BY <1>2, <1>3, <2>1
    <2>2. CASE j \in (done + 1) .. Len(gpu)
      BY <1>1, <1>2, <1>3, <2>2 DEF LiveOnGpu
    <2>3. QED
      BY <1>1, <1>2, <1>3, <2>1, <2>2
  <1>4. LiveOnGpu' \subseteq LiveOnGpu \cup s.copies
    BY <1>3 DEF LiveOnGpu
  <1>5. QED
    BY <1>2, <1>4

LEMMA LiveComplete ==
  ASSUME TypeOK, gpu' = gpu, done' = done + 1
  PROVE  LiveOnGpu' \subseteq LiveOnGpu
  <1>1. done \in Nat /\ Len(gpu) \in Nat
    BY TimelineTyped
  <1>2. \A j \in (done' + 1) .. Len(gpu) : j \in (done + 1) .. Len(gpu)
    BY <1>1
  <1>3. QED
    BY <1>2 DEF LiveOnGpu

\* A copy on the timeline does not read a buffer that is handed out.
LEMMA FreshNotLive ==
  ASSUME GpuInv, NEW b, b \in free \/ b \in Unallocated
  PROVE  b \notin Bufs(LiveOnGpu)
  <1>1. CASE b \in free
    BY <1>1 DEF GpuInv
  <1>2. CASE b \in Unallocated
    BY <1>2, UnallocatedFresh DEF LiveCopies, Bufs
  <1>3. QED
    BY <1>1, <1>2

LEMMA StageGpu ==
  ASSUME TypeOK, OneOwner, GpuInv, NEW c \in NewCopies, Stage(c)
  PROVE  Bufs(LiveOnGpu) \cap Bufs(chunks') = {} /\ Bufs(LiveOnGpu) \cap free' = {}
  <1>1. PICK new, old : Staged(c, new, old)
    BY StageShape
  <1>2. free' \subseteq free
    BY <1>1 DEF Staged
  <1>3. Bufs(chunks') \subseteq Bufs(chunks) \cup {c.buf}
    BY <1>1 DEF Staged, Bufs
  <1>4. c.buf \notin Bufs(LiveOnGpu)
    <2>1. CASE c.buf \in free \/ c.buf \in Unallocated
      BY <2>1, FreshNotLive
    <2>2. CASE \E x \in chunks : x.buf = c.buf
      <3>1. c.buf \in Bufs(chunks)
        BY <2>2 DEF Bufs
      <3>2. QED
        BY <3>1 DEF GpuInv
    <2>3. QED
      BY <1>1, <2>1, <2>2 DEF Staged
  <1>5. QED
    BY <1>2, <1>3, <1>4 DEF GpuInv

LEMMA StageFailsGpu ==
  ASSUME TypeOK, OneOwner, GpuInv, StageFails
  PROVE  Bufs(LiveOnGpu) \cap Bufs(chunks') = {} /\ Bufs(LiveOnGpu) \cap free' = {}
  <1>1. CASE chunks' = chunks /\ free' = free
    BY <1>1 DEF GpuInv
  <1>2. ASSUME NEW new, chunks' = chunks \cup {new}, free' \subseteq free,
               new.buf \in free \/ new.buf \in Unallocated
        PROVE  Bufs(LiveOnGpu) \cap Bufs(chunks') = {} /\ Bufs(LiveOnGpu) \cap free' = {}
    <2>1. new.buf \notin Bufs(LiveOnGpu)
      BY <1>2, FreshNotLive
    <2>2. Bufs(chunks') \subseteq Bufs(chunks) \cup {new.buf}
      BY <1>2 DEF Bufs
    <2>3. QED
      BY <1>2, <2>1, <2>2 DEF GpuInv
  <1>3. QED
    BY <1>1, <1>2, StageFailsShape

LEMMA RecycleGpu ==
  ASSUME TypeOK, GpuInv, NEW n \in Nat, n <= done, RecycleCompleted(n),
         UNCHANGED <<gpu, done>>
  PROVE  /\ Bufs(LiveOnGpu) \cap free' = {}
         /\ \A i \in DOMAIN in_flight' : \A j \in (done + 1) .. Len(gpu) :
              j > in_flight'[i].index => Bufs(gpu[j].copies) \cap in_flight'[i].bufs = {}
  <1>1. PICK k \in 0 .. Len(in_flight) :
           /\ \A i \in 1 .. k : i \in DOMAIN in_flight /\ in_flight[i].index <= n
           /\ DOMAIN in_flight' = 1 .. (Len(in_flight) - k)
           /\ \A i \in DOMAIN in_flight' :
                i + k \in DOMAIN in_flight /\ in_flight'[i] = in_flight[i + k]
           /\ \A b \in free' : b \in free \/ \E i \in 1 .. k : b \in in_flight[i].bufs
    BY RecycleShape
  <1>2. /\ in_flight \in Seq(FlightType) /\ done \in Nat /\ Len(gpu) \in Nat
        /\ \A i \in DOMAIN in_flight : in_flight[i].index \in Nat
    <2>1. in_flight \in Seq(FlightType)
      BY DEF TypeOK
    <2>2. \A i \in DOMAIN in_flight : in_flight[i] \in FlightType
      BY <2>1
    <2>3. QED
      BY <2>1, <2>2, TimelineTyped DEF FlightType
  <1>3. ASSUME NEW b \in free', NEW c \in LiveOnGpu, c.buf = b
        PROVE  FALSE
    <2>1. PICK j \in (done + 1) .. Len(gpu) : c \in gpu[j].copies
      BY <1>3 DEF LiveOnGpu
    <2>2. CASE b \in free
      BY <1>3, <2>2 DEF GpuInv, Bufs
    <2>3. ASSUME NEW i \in 1 .. k, b \in in_flight[i].bufs
          PROVE  FALSE
      <3>1. i \in DOMAIN in_flight /\ in_flight[i].index <= n /\ in_flight[i].index \in Nat
        BY <1>1, <1>2
      <3>2. j > in_flight[i].index
        BY <1>2, <2>1, <3>1
      <3>3. Bufs(gpu[j].copies) \cap in_flight[i].bufs = {}
        BY <3>1, <3>2 DEF GpuInv
      <3>4. b \in Bufs(gpu[j].copies)
        BY <1>3, <2>1 DEF Bufs
      <3>5. QED
        BY <2>3, <3>3, <3>4
    <2>4. QED
      BY <1>1, <2>2, <2>3
  <1>4. Bufs(LiveOnGpu) \cap free' = {}
    BY <1>3 DEF Bufs
  <1>5. \A i \in DOMAIN in_flight' : \A j \in (done + 1) .. Len(gpu) :
          j > in_flight'[i].index => Bufs(gpu[j].copies) \cap in_flight'[i].bufs = {}
    BY <1>1 DEF GpuInv
  <1>6. QED
    BY <1>4, <1>5

\* A retirement of chunks that only submissions up to n may read.
LEMMA RetireGpu ==
  ASSUME TypeOK, GpuInv, NEW n \in Nat, Retire(n, held), UNCHANGED <<gpu, done>>,
         n = Len(gpu) \/ Bufs(LiveOnGpu) \cap Bufs(held) = {}
  PROVE  \A i \in DOMAIN in_flight' : \A j \in (done + 1) .. Len(gpu) :
           j > in_flight'[i].index => Bufs(gpu[j].copies) \cap in_flight'[i].bufs = {}
  <1> SUFFICES ASSUME NEW i \in DOMAIN in_flight', NEW j \in (done + 1) .. Len(gpu),
                      j > in_flight'[i].index
               PROVE  Bufs(gpu[j].copies) \cap in_flight'[i].bufs = {}
    OBVIOUS
  <1>1. CASE i \in DOMAIN in_flight /\ in_flight'[i] = in_flight[i]
    BY <1>1 DEF GpuInv
  <1>2. CASE in_flight'[i].index = n /\ in_flight'[i].bufs \subseteq Bufs(held)
    <2>1. n # Len(gpu)
      BY <1>2, TimelineTyped
    <2>2. Bufs(gpu[j].copies) \subseteq Bufs(LiveOnGpu)
      BY DEF LiveOnGpu, Bufs
    <2>3. QED
      BY <1>2, <2>1, <2>2
  <1>3. QED
    BY <1>1, <1>2, RetireShape

\* A submission of copies that read the chunks in the hands of the call.
LEMMA SubmitGpu ==
  ASSUME TypeOK, OneOwner, GpuInv, NEW s, gpu' = Append(gpu, s), done' = done,
         Bufs(s.copies) \subseteq Bufs(held) \/ Bufs(s.copies) \subseteq Bufs(chunks),
         UNCHANGED <<free, in_flight>>,
         chunks' = {} \/ (chunks' = chunks /\ Bufs(s.copies) \subseteq Bufs(held))
  PROVE  /\ Bufs(LiveOnGpu') \cap Bufs(chunks') = {}
         /\ Bufs(LiveOnGpu') \cap free' = {}
         /\ \A i \in DOMAIN in_flight' : \A j \in (done' + 1) .. Len(gpu') :
              j > in_flight'[i].index => Bufs(gpu'[j].copies) \cap in_flight'[i].bufs = {}
  <1>1. /\ Len(gpu') = Len(gpu) + 1 /\ gpu'[Len(gpu) + 1] = s
        /\ \A j \in 1 .. Len(gpu) : gpu'[j] = gpu[j]
        /\ LiveOnGpu' \subseteq LiveOnGpu \cup s.copies
    BY LiveAppend
  <1>2. Bufs(LiveOnGpu') \subseteq Bufs(LiveOnGpu) \cup Bufs(s.copies)
    BY <1>1 DEF Bufs
  <1>3. Bufs(s.copies) \cap free = {}
    BY DEF OneOwner
  <1>4. Bufs(LiveOnGpu') \cap Bufs(chunks') = {}
    <2>1. CASE chunks' = {}
      BY <2>1 DEF Bufs
    <2>2. CASE chunks' = chunks /\ Bufs(s.copies) \subseteq Bufs(held)
      BY <1>2, <2>2 DEF OneOwner, GpuInv
    <2>3. QED
      BY <2>1, <2>2
  <1>5. Bufs(LiveOnGpu') \cap free' = {}
    BY <1>2, <1>3 DEF GpuInv
  <1>6. ASSUME NEW i \in DOMAIN in_flight', NEW j \in (done' + 1) .. Len(gpu'),
               j > in_flight'[i].index
        PROVE  Bufs(gpu'[j].copies) \cap in_flight'[i].bufs = {}
    <2>1. CASE j = Len(gpu) + 1
      BY <1>1, <2>1 DEF OneOwner
    <2>2. CASE j \in (done + 1) .. Len(gpu)
      <3>1. gpu'[j] = gpu[j]
        BY <1>1, <2>2, TimelineTyped
      <3>2. QED
        BY <1>6, <2>2, <3>1 DEF GpuInv
    <2>3. QED
      BY <1>1, <1>6, <2>1, <2>2, TimelineTyped
  <1>7. QED
    BY <1>4, <1>5, <1>6

\* The memory of the copies on the timeline.
LEMMA GpuNext ==
  ASSUME TypeOK, LockInv, HandInv, IndexInv, OneOwner, BatchInv, GpuInv, [Next]_vars
  PROVE  GpuInv'
  <1> USE DEF Goto
  <1>1. ASSUME NEW t \in Threads, BeginLocked(t) PROVE GpuInv'
    BY <1>1, LiveSame, PcTyped, QueueAssumption DEF BeginLocked, Begin, TakeSubmission, LockInv, InSubmission, GpuInv, Bufs
  <1>2. ASSUME NEW t \in Threads, BeginPoll(t) PROVE GpuInv'
    BY <1>2, LiveSame, PcTyped, QueueAssumption DEF BeginPoll, Begin, TakeSubmission, LockInv, InSubmission, GpuInv, Bufs
  <1>3. ASSUME NEW t \in Threads, BeginWaitFor(t) PROVE GpuInv'
    BY <1>3, LiveSame, PcTyped, QueueAssumption DEF BeginWaitFor, Begin, TakeSubmission, LockInv, InSubmission, GpuInv, Bufs
  <1>4. ASSUME NEW t \in Threads, Enter(t) PROVE GpuInv'
    BY <1>4, LiveSame, PcTyped, QueueAssumption DEF Enter, Leave, EmptyHands, TakeSubmission, LockInv, InSubmission, GpuInv, Bufs
  <1>5. ASSUME NEW t \in Threads, Validate(t) PROVE GpuInv'
    <2>1. /\ UNCHANGED <<chunks, free, in_flight, held, gpu, done>>
          /\ \A u \in Threads : pc'[u] = pc[u] \/ pc'[u] \in {"take", "poll_hal"}
      BY <1>5, PcTyped DEF Validate
    <2>2. QED
      BY <2>1, LiveSame DEF GpuInv
  <1>6. ASSUME NEW t \in Threads, PollHal(t) PROVE GpuInv'
    <2>1. /\ UNCHANGED <<chunks, free, in_flight, held, gpu, done>>
          /\ \A u \in Threads :
               pc'[u] = pc[u] \/ pc'[u] \in {"recycle", "stage", "lower_take", "idle"}
      BY <1>6, PcTyped DEF PollHal, AfterRecycle
    <2>2. QED
      BY <2>1, LiveSame DEF GpuInv
  <1>7. ASSUME NEW t \in Threads, Recycle(t) PROVE GpuInv'
    <2>1. index[t] \in Nat /\ index[t] <= done
      BY <1>7, TimelineTyped DEF Recycle, IndexInv
    <2>2. /\ Bufs(LiveOnGpu) \cap free' = {}
          /\ \A i \in DOMAIN in_flight' : \A j \in (done + 1) .. Len(gpu) :
               j > in_flight'[i].index => Bufs(gpu[j].copies) \cap in_flight'[i].bufs = {}
      BY <1>7, <2>1, RecycleGpu DEF Recycle
    <2>3. /\ UNCHANGED <<chunks, held, gpu, done>>
          /\ \A u \in Threads : pc'[u] = pc[u] \/ pc'[u] \in {"stage", "lower_take", "idle"}
      BY <1>7, PcTyped DEF Recycle, AfterRecycle
    <2>4. QED
      BY <2>2, <2>3, LiveSame DEF GpuInv
  <1>8. ASSUME NEW t \in Threads, StageWrite(t) PROVE GpuInv'
    <2>1. PICK c \in NewCopies : Stage(c)
      BY <1>8 DEF StageWrite
    <2>2. Bufs(LiveOnGpu) \cap Bufs(chunks') = {} /\ Bufs(LiveOnGpu) \cap free' = {}
      BY <2>1, StageGpu
    <2>3. \A u \in Threads : pc'[u] = pc[u] \/ pc'[u] = "threshold"
      BY <1>8, PcTyped DEF StageWrite
    <2>4. QED
      BY <1>8, <2>2, <2>3, LiveSame DEF StageWrite, GpuInv
  <1>9. ASSUME NEW t \in Threads, StageWriteFails(t) PROVE GpuInv'
    <2>1. Bufs(LiveOnGpu) \cap Bufs(chunks') = {} /\ Bufs(LiveOnGpu) \cap free' = {}
      BY <1>9, StageFailsGpu DEF StageWriteFails
    <2>2. held' = {} /\ in_flight' = in_flight /\ gpu' = gpu /\ done' = done
      BY <1>9 DEF StageWriteFails, Leave, EmptyHands
    <2>3. QED
      BY <2>1, <2>2, LiveSame DEF GpuInv, Bufs
  <1>10. ASSUME NEW t \in Threads, CheckThreshold(t) PROVE GpuInv'
    BY <1>10, LiveSame, PcTyped, QueueAssumption DEF CheckThreshold, Leave, EmptyHands, TakeSubmission, LockInv, InSubmission, GpuInv, Bufs
  <1>11. ASSUME NEW t \in Threads, Take(t) PROVE GpuInv'
    BY <1>11, LiveSame, PcTyped, QueueAssumption DEF Take, Leave, EmptyHands, TakeSubmission, LockInv, InSubmission, GpuInv, Bufs
  <1>12. ASSUME NEW t \in Threads, LowerTake(t) PROVE GpuInv'
    BY <1>12, LiveSame, PcTyped, QueueAssumption DEF LowerTake, TakeSubmission, LockInv, InSubmission, GpuInv, Bufs
  <1>13. ASSUME NEW t \in Threads, LowerWrite(t) PROVE GpuInv'
    <2>1. PICK c \in NewCopies : Stage(c)
      BY <1>13 DEF LowerWrite
    <2>2. Bufs(LiveOnGpu) \cap Bufs(chunks') = {} /\ Bufs(LiveOnGpu) \cap free' = {}
      BY <2>1, StageGpu
    <2>3. QED
      BY <1>13, <2>2, LiveSame DEF LowerWrite, GpuInv
  <1>14. ASSUME NEW t \in Threads, LowerDone(t) PROVE GpuInv'
    <2>1. /\ chunks' = {} /\ held' = held \cup chunks /\ UNCHANGED <<free, in_flight, gpu, done>>
          /\ pc[t] = "lower"
      BY <1>14 DEF LowerDone, TakeSubmission
    <2>2. Bufs(held') = Bufs(held) \cup Bufs(chunks) /\ Bufs(chunks') = {}
      BY <2>1 DEF Bufs
    <2>3. Bufs(LiveOnGpu) \cap Bufs(held') = {}
      BY <2>1, <2>2 DEF GpuInv
    <2>4. QED
      BY <2>1, <2>2, <2>3, LiveSame DEF GpuInv
  <1>15. ASSUME NEW t \in Threads, LowerError(t) PROVE GpuInv'
    <2>1. Bufs(LiveOnGpu) \cap Bufs(chunks') = {} /\ Bufs(LiveOnGpu) \cap free' = {}
      BY <1>15, StageFailsGpu DEF LowerError
    <2>2. /\ UNCHANGED <<held, in_flight, gpu, done>>
          /\ pc[t] = "lower" /\ \A u \in Threads : pc'[u] = pc[u] \/ u = t
      BY <1>15, PcTyped DEF LowerError
    <2>3. QED
      BY <2>1, <2>2, LiveSame DEF GpuInv
  <1>16. ASSUME NEW t \in Threads, LowerAbort(t) PROVE GpuInv'
    <2>1. /\ chunks' = {} /\ held' = held \cup chunks /\ UNCHANGED <<free, in_flight, gpu, done>>
          /\ pc[t] = "lower_abort"
      BY <1>16 DEF LowerAbort, TakeSubmission
    <2>2. Bufs(held') = Bufs(held) \cup Bufs(chunks) /\ Bufs(chunks') = {}
      BY <2>1 DEF Bufs
    <2>3. Bufs(LiveOnGpu) \cap Bufs(held') = {}
      BY <2>1, <2>2 DEF GpuInv
    <2>4. QED
      BY <2>1, <2>2, <2>3, LiveSame DEF GpuInv
  <1>17. ASSUME NEW t \in Threads, HalSubmit(t) PROVE GpuInv'
    <2>1. /\ gpu' = Append(gpu, Submission(TRUE)) /\ done' = done
          /\ UNCHANGED <<chunks, free, in_flight, held>>
      BY <1>17 DEF HalSubmit
    <2>2. Bufs(Submission(TRUE).copies) \subseteq Bufs(held)
      BY <1>17 DEF HalSubmit, Submission, BatchInv, Bufs
    <2>3. \A u \in Threads : pc'[u] \notin {"lower", "lower_abort", "hal", "retire_latest"}
      BY <1>17, PcTyped, QueueAssumption DEF HalSubmit, LockInv, InSubmission
    <2>4. QED
      BY <2>1, <2>2, <2>3, SubmitGpu DEF GpuInv
  <1>18. ASSUME NEW t \in Threads, HalSubmitFails(t) PROVE GpuInv'
    <2>1. /\ gpu' \in {gpu, Append(gpu, Submission(FALSE))} /\ done' = done
          /\ held' = {} /\ UNCHANGED <<chunks, free, in_flight>>
      BY <1>18 DEF HalSubmitFails, Leave, EmptyHands
    <2>2. Bufs(Submission(FALSE).copies) \subseteq Bufs(held)
      BY <1>18 DEF HalSubmitFails, Submission, BatchInv, Bufs
    <2>3. Bufs(held') = {}
      BY <2>1 DEF Bufs
    <2>4. CASE gpu' = gpu
      BY <2>1, <2>3, <2>4, LiveSame DEF GpuInv
    <2>5. CASE gpu' = Append(gpu, Submission(FALSE))
      BY <2>1, <2>2, <2>3, <2>5, SubmitGpu DEF GpuInv
    <2>6. QED
      BY <2>1, <2>4, <2>5
  <1>19. ASSUME NEW t \in Threads, RecordSubmission(t) PROVE GpuInv'
    BY <1>19, LiveSame, PcTyped, QueueAssumption DEF RecordSubmission, TakeSubmission, LockInv, InSubmission, GpuInv, Bufs
  <1>20. ASSUME NEW t \in Threads, RetireChunks(t) PROVE GpuInv'
    <2>1. index[t] \in Nat /\ index[t] = Len(gpu)
      BY <1>20, TimelineTyped DEF RetireChunks, IndexInv
    <2>2. /\ held' = {} /\ UNCHANGED <<chunks, free, gpu, done>>
      BY <1>20 DEF RetireChunks, Leave, EmptyHands
    <2>3. \A i \in DOMAIN in_flight' : \A j \in (done + 1) .. Len(gpu) :
            j > in_flight'[i].index => Bufs(gpu[j].copies) \cap in_flight'[i].bufs = {}
      BY <1>20, <2>1, <2>2, RetireGpu DEF RetireChunks
    <2>4. QED
      BY <2>2, <2>3, LiveSame DEF GpuInv, Bufs
  <1>21. ASSUME NEW t \in Threads, RetireUnread(t) PROVE GpuInv'
    <2>1. latest \in Nat /\ Bufs(LiveOnGpu) \cap Bufs(held) = {}
      BY <1>21, TimelineTyped DEF RetireUnread, GpuInv
    <2>2. /\ held' = {} /\ UNCHANGED <<chunks, free, gpu, done>>
      BY <1>21 DEF RetireUnread, Leave, EmptyHands
    <2>3. \A i \in DOMAIN in_flight' : \A j \in (done + 1) .. Len(gpu) :
            j > in_flight'[i].index => Bufs(gpu[j].copies) \cap in_flight'[i].bufs = {}
      BY <1>21, <2>1, <2>2, RetireGpu DEF RetireUnread
    <2>4. QED
      BY <2>2, <2>3, LiveSame DEF GpuInv, Bufs
  <1>22. ASSUME NEW t \in Threads, Snapshot(t) PROVE GpuInv'
    BY <1>22, LiveSame, PcTyped, QueueAssumption DEF Snapshot, TakeSubmission, LockInv, InSubmission, GpuInv, Bufs
  <1>23. ASSUME NEW t \in Threads, WaitBegin(t) PROVE GpuInv'
    BY <1>23, LiveSame, PcTyped, QueueAssumption DEF WaitBegin, TakeSubmission, LockInv, InSubmission, GpuInv, Bufs
  <1>24. ASSUME NEW t \in Threads, Wait(t) PROVE GpuInv'
    BY <1>24, LiveSame, PcTyped, QueueAssumption DEF Wait, TakeSubmission, LockInv, InSubmission, GpuInv, Bufs
  <1>25. ASSUME NEW t \in Threads, WaitFails(t) PROVE GpuInv'
    BY <1>25, LiveSame, PcTyped, QueueAssumption DEF WaitFails, TakeSubmission, LockInv, InSubmission, GpuInv, Bufs
  <1>26. ASSUME NEW t \in Threads, DropWait(t) PROVE GpuInv'
    <2>1. /\ free' = {} /\ held' = {} /\ DOMAIN in_flight' = {}
          /\ UNCHANGED <<chunks, gpu, done>>
      BY <1>26 DEF DropWait, EmptyHands
    <2>2. QED
      BY <2>1, LiveSame DEF GpuInv, Bufs
  <1>27. ASSUME NEW t \in Threads, Drop(t) PROVE GpuInv'
    <2>1. /\ done' = done /\ chunks' = {} /\ UNCHANGED <<free, in_flight>>
          /\ gpu' \in {gpu, Append(gpu, Rest(TRUE)), Append(gpu, Rest(FALSE))}
      BY <1>27 DEF Drop, TakeSubmission
    <2>2. \A u \in Threads : pc'[u] \in {"idle", "drop_wait"}
      BY <1>27, PcTyped DEF Drop
    <2>3. Bufs(chunks') = {}
      BY <2>1 DEF Bufs
    <2>4. CASE gpu' = gpu
      BY <2>1, <2>2, <2>3, <2>4, LiveSame DEF GpuInv
    <2>5. ASSUME NEW ok \in BOOLEAN, gpu' = Append(gpu, Rest(ok))
          PROVE  GpuInv'
      <3>1. Bufs(Rest(ok).copies) \subseteq Bufs(chunks)
        BY DEF Rest, BatchInv
      <3>2. QED
        BY <2>1, <2>2, <2>5, <3>1, SubmitGpu DEF GpuInv
    <2>6. QED
      BY <2>1, <2>4, <2>5
  <1>28. CASE MarkLost
    BY <1>28, LiveSame, PcTyped, QueueAssumption DEF MarkLost, TakeSubmission, LockInv, InSubmission, GpuInv, Bufs
  <1>29. CASE GpuComplete
    <2>1. gpu' = gpu /\ done' = done + 1 /\ UNCHANGED <<chunks, free, held, in_flight, pc>>
      BY <1>29 DEF GpuComplete
    <2>2. Bufs(LiveOnGpu') \subseteq Bufs(LiveOnGpu)
      BY <2>1, LiveComplete DEF Bufs
    <2>3. \A j \in (done' + 1) .. Len(gpu') : j \in (done + 1) .. Len(gpu)
      BY <2>1, TimelineTyped
    <2>4. QED
      BY <2>1, <2>2, <2>3 DEF GpuInv
  <1>30. CASE UNCHANGED vars
    BY <1>30, LiveSame, PcTyped, QueueAssumption DEF vars, TakeSubmission, LockInv, InSubmission, GpuInv, Bufs
  <1>31. QED
    BY <1>1, <1>2, <1>3, <1>4, <1>5, <1>6, <1>7, <1>8, <1>9, <1>10, <1>11, <1>12, <1>13, <1>14, <1>15, <1>16, <1>17, <1>18, <1>19, <1>20, <1>21, <1>22, <1>23, <1>24, <1>25, <1>26, <1>27, <1>28, <1>29, <1>30
    DEF Next, Step, Finished

\* No step but a staging one writes staging memory, so a copy that is no longer
\* alive is the only thing the other steps can take away.
LEMMA StagingFrame ==
  ASSUME StagingIntact, content' = content, LiveCopies' \subseteq LiveCopies
  PROVE  StagingIntact'
  BY DEF StagingIntact

\* A staging write lands past every live copy of the same buffer.
LEMMA StageIntact ==
  ASSUME TypeOK, OneOwner, BatchInv, GpuInv, StagingIntact,
         NEW c \in NewCopies, Stage(c), LiveCopies' \subseteq LiveCopies \cup {c}
  PROVE  StagingIntact'
  <1>1. PICK new, old : Staged(c, new, old)
    BY StageShape
  <1>2. /\ c.buf \in Buffers /\ c.off \in Nat /\ c.size \in Nat
        /\ content \in [Buffers -> [Units -> Nat]]
    BY StageTyped DEF CopyType, TypeOK
  <1>3. \A u \in Units : content'[c.buf][u] =
          IF c.off <= u /\ u < c.off + c.size THEN c.w ELSE content[c.buf][u]
    BY <1>1, <1>2 DEF Staged, Write
  <1>4. \A b : b # c.buf => content'[b] = content[b]
    BY <1>1, <1>2 DEF Staged, Write
  <1>5. ASSUME NEW d \in LiveCopies, d.buf = c.buf
        PROVE  \/ d = c
               \/ d.off \in Nat /\ d.size \in Nat /\ d.off + d.size <= c.off
    <2>1. c.buf \in Bufs(LiveCopies)
      BY <1>5 DEF Bufs
    <2>2. \/ d.buf \in Bufs(copies \cup encoded) \/ d.buf \in Bufs(taken)
          \/ d.buf \in Bufs(LiveOnGpu)
      BY <1>5 DEF LiveCopies, Bufs
    <2>3. CASE c.buf \in Unallocated
      BY <2>1, <2>3, UnallocatedFresh
    <2>4. CASE c.buf \in free
      <3>1. Bufs(LiveCopies) \subseteq Bufs(chunks) \cup Bufs(held) \cup Bufs(LiveOnGpu)
        BY DEF LiveCopies, BatchInv, Bufs
      <3>2. QED
        BY <2>1, <2>4, <3>1 DEF OneOwner, GpuInv
    <2>5. ASSUME NEW x \in chunks, x.buf = c.buf, x.cursor <= c.off
          PROVE  d.off \in Nat /\ d.size \in Nat /\ d.off + d.size <= c.off
      <3>1. c.buf \in Bufs(chunks)
        BY <2>5 DEF Bufs
      <3>2. d \notin taken
        BY <1>5, <3>1 DEF OneOwner, BatchInv, Bufs
      <3>3. d \notin LiveOnGpu
        BY <1>5, <3>1 DEF GpuInv, Bufs
      <3>4. d \in copies \cup encoded
        BY <3>2, <3>3 DEF LiveCopies
      <3>5. d.off + d.size <= x.cursor
        BY <1>5, <2>5, <3>4 DEF BatchInv
      <3>6. d.off \in Nat /\ d.size \in Nat /\ x.cursor \in Nat
        BY <2>5, <3>4 DEF TypeOK, CopyType, ChunkType
      <3>7. QED
        BY <1>2, <2>5, <3>5, <3>6
    <2>6. QED
      BY <1>1, <2>3, <2>4, <2>5 DEF Staged
  <1>6. ASSUME NEW d \in LiveCopies \cup {c}, NEW u \in Units,
               d.off <= u, u < d.off + d.size
        PROVE  content'[d.buf][u] = d.w
    <2>1. CASE d = c
      BY <1>3, <1>6, <2>1
    <2>2. CASE d # c /\ d.buf # c.buf
      BY <1>4, <1>6, <2>2 DEF StagingIntact
    <2>3. CASE d # c /\ d.buf = c.buf
      <3>1. d \in LiveCopies /\ d.off \in Nat /\ d.size \in Nat /\ d.off + d.size <= c.off
        BY <1>5, <2>3
      <3>2. u \in Nat
        BY DEF Units
      <3>3. ~(c.off <= u)
        BY <1>2, <1>6, <3>1, <3>2
      <3>4. QED
        BY <1>3, <1>6, <2>3, <3>1, <3>3 DEF StagingIntact
    <2>4. QED
      BY <2>1, <2>2, <2>3
  <1>7. QED
    BY <1>6 DEF StagingIntact

\* The bytes of every live copy stay where they were staged.
LEMMA StagingNext ==
  ASSUME TypeOK, LockInv, HandInv, OneOwner, BatchInv, GpuInv, StagingIntact, [Next]_vars
  PROVE  StagingIntact'
  <1> USE DEF Goto
  <1>1. ASSUME NEW t \in Threads, BeginLocked(t) PROVE StagingIntact'
    BY <1>1, LiveSame, StagingFrame DEF BeginLocked, Begin, TakeSubmission, LiveCopies
  <1>2. ASSUME NEW t \in Threads, BeginPoll(t) PROVE StagingIntact'
    BY <1>2, LiveSame, StagingFrame DEF BeginPoll, Begin, TakeSubmission, LiveCopies
  <1>3. ASSUME NEW t \in Threads, BeginWaitFor(t) PROVE StagingIntact'
    BY <1>3, LiveSame, StagingFrame DEF BeginWaitFor, Begin, TakeSubmission, LiveCopies
  <1>4. ASSUME NEW t \in Threads, Enter(t) PROVE StagingIntact'
    BY <1>4, LiveSame, StagingFrame DEF Enter, Leave, EmptyHands, TakeSubmission, LiveCopies
  <1>5. ASSUME NEW t \in Threads, Validate(t) PROVE StagingIntact'
    BY <1>5, LiveSame, StagingFrame DEF Validate, TakeSubmission, LiveCopies
  <1>6. ASSUME NEW t \in Threads, PollHal(t) PROVE StagingIntact'
    BY <1>6, LiveSame, StagingFrame DEF PollHal, AfterRecycle, TakeSubmission, LiveCopies
  <1>7. ASSUME NEW t \in Threads, Recycle(t) PROVE StagingIntact'
    BY <1>7, LiveSame, StagingFrame DEF Recycle, AfterRecycle, TakeSubmission, LiveCopies
  <1>8. ASSUME NEW t \in Threads, StageWrite(t) PROVE StagingIntact'
    <2>1. PICK c \in NewCopies : Stage(c) /\ copies' = copies \cup {c}
      BY <1>8 DEF StageWrite
    <2>2. LiveCopies' \subseteq LiveCopies \cup {c}
      BY <1>8, <2>1, LiveSame DEF StageWrite, LiveCopies
    <2>3. QED
      BY <2>1, <2>2, StageIntact
  <1>9. ASSUME NEW t \in Threads, StageWriteFails(t) PROVE StagingIntact'
    BY <1>9, LiveSame, StagingFrame DEF StageWriteFails, Leave, EmptyHands, TakeSubmission, LiveCopies
  <1>10. ASSUME NEW t \in Threads, CheckThreshold(t) PROVE StagingIntact'
    BY <1>10, LiveSame, StagingFrame DEF CheckThreshold, Leave, EmptyHands, TakeSubmission, LiveCopies
  <1>11. ASSUME NEW t \in Threads, Take(t) PROVE StagingIntact'
    BY <1>11, LiveSame, StagingFrame DEF Take, Leave, EmptyHands, TakeSubmission, LiveCopies
  <1>12. ASSUME NEW t \in Threads, LowerTake(t) PROVE StagingIntact'
    BY <1>12, LiveSame, StagingFrame DEF LowerTake, TakeSubmission, LiveCopies
  <1>13. ASSUME NEW t \in Threads, LowerWrite(t) PROVE StagingIntact'
    <2>1. PICK c \in NewCopies : Stage(c) /\ encoded' = encoded \cup {c}
      BY <1>13 DEF LowerWrite
    <2>2. LiveCopies' \subseteq LiveCopies \cup {c}
      BY <1>13, <2>1, LiveSame DEF LowerWrite, LiveCopies
    <2>3. QED
      BY <2>1, <2>2, StageIntact
  <1>14. ASSUME NEW t \in Threads, LowerDone(t) PROVE StagingIntact'
    BY <1>14, LiveSame, StagingFrame DEF LowerDone, TakeSubmission, LiveCopies
  <1>15. ASSUME NEW t \in Threads, LowerError(t) PROVE StagingIntact'
    BY <1>15, LiveSame, StagingFrame DEF LowerError, TakeSubmission, LiveCopies
  <1>16. ASSUME NEW t \in Threads, LowerAbort(t) PROVE StagingIntact'
    BY <1>16, LiveSame, StagingFrame DEF LowerAbort, TakeSubmission, LiveCopies
  <1>17. ASSUME NEW t \in Threads, HalSubmit(t) PROVE StagingIntact'
    <2>1. LiveOnGpu' \subseteq LiveOnGpu \cup taken \cup encoded
      BY <1>17, LiveAppend DEF HalSubmit, Submission
    <2>2. QED
      BY <1>17, <2>1, StagingFrame DEF HalSubmit, LiveCopies
  <1>18. ASSUME NEW t \in Threads, HalSubmitFails(t) PROVE StagingIntact'
    <2>1. LiveOnGpu' \subseteq LiveOnGpu \cup taken \cup encoded
      BY <1>18, LiveSame, LiveAppend DEF HalSubmitFails, Submission
    <2>2. QED
      BY <1>18, <2>1, StagingFrame DEF HalSubmitFails, Leave, EmptyHands, LiveCopies
  <1>19. ASSUME NEW t \in Threads, RecordSubmission(t) PROVE StagingIntact'
    BY <1>19, LiveSame, StagingFrame DEF RecordSubmission, TakeSubmission, LiveCopies
  <1>20. ASSUME NEW t \in Threads, RetireChunks(t) PROVE StagingIntact'
    BY <1>20, LiveSame, StagingFrame DEF RetireChunks, Leave, EmptyHands, TakeSubmission, LiveCopies
  <1>21. ASSUME NEW t \in Threads, RetireUnread(t) PROVE StagingIntact'
    BY <1>21, LiveSame, StagingFrame DEF RetireUnread, Leave, EmptyHands, TakeSubmission, LiveCopies
  <1>22. ASSUME NEW t \in Threads, Snapshot(t) PROVE StagingIntact'
    BY <1>22, LiveSame, StagingFrame DEF Snapshot, TakeSubmission, LiveCopies
  <1>23. ASSUME NEW t \in Threads, WaitBegin(t) PROVE StagingIntact'
    BY <1>23, LiveSame, StagingFrame DEF WaitBegin, TakeSubmission, LiveCopies
  <1>24. ASSUME NEW t \in Threads, Wait(t) PROVE StagingIntact'
    BY <1>24, LiveSame, StagingFrame DEF Wait, TakeSubmission, LiveCopies
  <1>25. ASSUME NEW t \in Threads, WaitFails(t) PROVE StagingIntact'
    BY <1>25, LiveSame, StagingFrame DEF WaitFails, TakeSubmission, LiveCopies
  <1>26. ASSUME NEW t \in Threads, DropWait(t) PROVE StagingIntact'
    BY <1>26, LiveSame, StagingFrame DEF DropWait, EmptyHands, LiveCopies
  <1>27. ASSUME NEW t \in Threads, Drop(t) PROVE StagingIntact'
    <2>1. LiveOnGpu' \subseteq LiveOnGpu \cup copies
      BY <1>27, LiveSame, LiveAppend DEF Drop, Rest
    <2>2. QED
      BY <1>27, <2>1, StagingFrame DEF Drop, TakeSubmission, LiveCopies
  <1>28. CASE MarkLost
    BY <1>28, LiveSame, StagingFrame DEF MarkLost, TakeSubmission, LiveCopies
  <1>29. CASE GpuComplete
    BY <1>29, LiveComplete, StagingFrame DEF GpuComplete, LiveCopies
  <1>30. CASE UNCHANGED vars
    BY <1>30, LiveSame, StagingFrame DEF vars, TakeSubmission, LiveCopies
  <1>31. QED
    BY <1>1, <1>2, <1>3, <1>4, <1>5, <1>6, <1>7, <1>8, <1>9, <1>10, <1>11, <1>12, <1>13, <1>14, <1>15, <1>16, <1>17, <1>18, <1>19, <1>20, <1>21, <1>22, <1>23, <1>24, <1>25, <1>26, <1>27, <1>28, <1>29, <1>30
    DEF Next, Step, Finished

LEMMA InvInit == Init => IInv
  <1> SUFFICES ASSUME Init PROVE IInv
    OBVIOUS
  <1>1. TypeOK
    BY TypeInit
  <1>2. LiveOnGpu = {} /\ LiveCopies = {}
    BY DEF Init, LiveOnGpu, LiveCopies
  <1>3. LockInv /\ HandInv /\ OneOwner /\ BatchInv
    BY QueueAssumption DEF Init, LockInv, InSubmission, HandInv, OneOwner, BatchInv, Bufs
  <1>4. IndexInv
    BY DEF Init, IndexInv
  <1>5. GpuInv
    BY <1>2 DEF Init, GpuInv, Bufs
  <1>6. StagingIntact
    BY <1>2 DEF StagingIntact
  <1>7. QED
    BY <1>1, <1>3, <1>4, <1>5, <1>6 DEF IInv

LEMMA InvNext == IInv /\ [Next]_vars => IInv'
  BY TypeNext, LockNext, HandNext, IndexNext, OwnerNext, BatchNext, GpuNext, StagingNext
  DEF IInv

\* The inductive invariant holds, for every number of threads and buffers.
THEOREM Invariance == Spec => []IInv
  BY InvInit, InvNext, PTL DEF Spec

\* Staging memory a copy may still read is never overwritten: the queue recycles
\* a chunk only when every submission that reads it has completed, whatever the
\* interleaving of writes, submits, waits, polls, failures and the drop.
THEOREM StagingSafety == Spec => []StagingIntact
  <1>1. IInv => StagingIntact
    BY DEF IInv
  <1>2. QED
    BY <1>1, Invariance, PTL

\* A staging buffer is in the batch, with one submission, in one retirement or in
\* the pool, and in one of them only.
THEOREM Ownership == Spec => []OneOwner
  <1>1. IInv => OneOwner
    BY DEF IInv
  <1>2. QED
    BY <1>1, Invariance, PTL

-----------------------------------------------------------------------------
(* Order of the timeline, accepted writes, command buffers, the drop       *)

\* The command buffers a call carries, by its place in the code.
LEMMA CommandNext ==
  ASSUME TypeOK, LockInv, HandInv, NumberInv, CommandInv, [Next]_vars
  PROVE  CommandInv'
  <1> USE DEF Goto
  <1>1. ASSUME NEW t \in Threads, BeginLocked(t) PROVE CommandInv'
    BY <1>1, PcTyped, QueueAssumption
    DEF BeginLocked, Begin, LockInv, InSubmission, HandInv, NumberInv, CommandInv,
        CmdLabels
  <1>2. ASSUME NEW t \in Threads, BeginPoll(t) PROVE CommandInv'
    BY <1>2, PcTyped, QueueAssumption
    DEF BeginPoll, Begin, LockInv, InSubmission, HandInv, NumberInv, CommandInv, CmdLabels
  <1>3. ASSUME NEW t \in Threads, BeginWaitFor(t) PROVE CommandInv'
    BY <1>3, PcTyped, QueueAssumption
    DEF BeginWaitFor, Begin, LockInv, InSubmission, HandInv, NumberInv, CommandInv,
        CmdLabels
  <1>4. ASSUME NEW t \in Threads, Enter(t) PROVE CommandInv'
    BY <1>4, PcTyped, QueueAssumption
    DEF Enter, Leave, EmptyHands, LockInv, InSubmission, HandInv, NumberInv, CommandInv,
        CmdLabels
  <1>5. ASSUME NEW t \in Threads, Validate(t) PROVE CommandInv'
    BY <1>5, PcTyped, QueueAssumption
    DEF Validate, LockInv, InSubmission, HandInv, NumberInv, CommandInv, CmdLabels
  <1>6. ASSUME NEW t \in Threads, PollHal(t) PROVE CommandInv'
    BY <1>6, PcTyped, QueueAssumption
    DEF PollHal, AfterRecycle, LockInv, InSubmission, HandInv, NumberInv, CommandInv,
        CmdLabels
  <1>7. ASSUME NEW t \in Threads, Recycle(t) PROVE CommandInv'
    BY <1>7, PcTyped, QueueAssumption
    DEF Recycle, AfterRecycle, LockInv, InSubmission, HandInv, NumberInv, CommandInv,
        CmdLabels
  <1>8. ASSUME NEW t \in Threads, StageWrite(t) PROVE CommandInv'
    BY <1>8, PcTyped, QueueAssumption
    DEF StageWrite, LockInv, InSubmission, HandInv, NumberInv, CommandInv, CmdLabels
  <1>9. ASSUME NEW t \in Threads, StageWriteFails(t) PROVE CommandInv'
    BY <1>9, PcTyped, QueueAssumption
    DEF StageWriteFails, Leave, EmptyHands, LockInv, InSubmission, HandInv, NumberInv,
        CommandInv, CmdLabels
  <1>10. ASSUME NEW t \in Threads, CheckThreshold(t) PROVE CommandInv'
    BY <1>10, PcTyped, QueueAssumption
    DEF CheckThreshold, Leave, EmptyHands, LockInv, InSubmission, HandInv, NumberInv,
        CommandInv, CmdLabels
  <1>11. ASSUME NEW t \in Threads, Take(t) PROVE CommandInv'
    BY <1>11, PcTyped, QueueAssumption
    DEF Take, TakeSubmission, Leave, EmptyHands, LockInv, InSubmission, HandInv,
        NumberInv, CommandInv, CmdLabels
  <1>12. ASSUME NEW t \in Threads, LowerTake(t) PROVE CommandInv'
    BY <1>12, PcTyped, QueueAssumption
    DEF LowerTake, TakeSubmission, LockInv, InSubmission, HandInv, NumberInv,
        CommandInv, CmdLabels
  <1>13. ASSUME NEW t \in Threads, LowerWrite(t) PROVE CommandInv'
    BY <1>13, PcTyped, QueueAssumption
    DEF LowerWrite, LockInv, InSubmission, HandInv, NumberInv, CommandInv, CmdLabels
  <1>14. ASSUME NEW t \in Threads, LowerDone(t) PROVE CommandInv'
    BY <1>14, PcTyped, QueueAssumption
    DEF LowerDone, TakeSubmission, LockInv, InSubmission, HandInv, NumberInv,
        CommandInv, CmdLabels
  <1>15. ASSUME NEW t \in Threads, LowerError(t) PROVE CommandInv'
    BY <1>15, PcTyped, QueueAssumption
    DEF LowerError, LockInv, InSubmission, HandInv, NumberInv, CommandInv, CmdLabels
  <1>16. ASSUME NEW t \in Threads, LowerAbort(t) PROVE CommandInv'
    BY <1>16, PcTyped, QueueAssumption
    DEF LowerAbort, TakeSubmission, LockInv, InSubmission, HandInv, NumberInv,
        CommandInv, CmdLabels
  <1>17. ASSUME NEW t \in Threads, HalSubmit(t) PROVE CommandInv'
    BY <1>17, PcTyped, QueueAssumption
    DEF HalSubmit, LockInv, InSubmission, HandInv, NumberInv, CommandInv, CmdLabels
  <1>18. ASSUME NEW t \in Threads, HalSubmitFails(t) PROVE CommandInv'
    BY <1>18, PcTyped, QueueAssumption
    DEF HalSubmitFails, Leave, EmptyHands, LockInv, InSubmission, HandInv, NumberInv,
        CommandInv, CmdLabels
  <1>19. ASSUME NEW t \in Threads, RecordSubmission(t) PROVE CommandInv'
    BY <1>19, PcTyped, QueueAssumption
    DEF RecordSubmission, LockInv, InSubmission, HandInv, NumberInv, CommandInv, CmdLabels
  <1>20. ASSUME NEW t \in Threads, RetireChunks(t) PROVE CommandInv'
    BY <1>20, PcTyped, QueueAssumption
    DEF RetireChunks, Leave, EmptyHands, LockInv, InSubmission, HandInv, NumberInv,
        CommandInv, CmdLabels
  <1>21. ASSUME NEW t \in Threads, RetireUnread(t) PROVE CommandInv'
    BY <1>21, PcTyped, QueueAssumption
    DEF RetireUnread, Leave, EmptyHands, LockInv, InSubmission, HandInv, NumberInv,
        CommandInv, CmdLabels
  <1>22. ASSUME NEW t \in Threads, Snapshot(t) PROVE CommandInv'
    BY <1>22, PcTyped, QueueAssumption
    DEF Snapshot, LockInv, InSubmission, HandInv, NumberInv, CommandInv, CmdLabels
  <1>23. ASSUME NEW t \in Threads, WaitBegin(t) PROVE CommandInv'
    BY <1>23, PcTyped, QueueAssumption
    DEF WaitBegin, LockInv, InSubmission, HandInv, NumberInv, CommandInv, CmdLabels
  <1>24. ASSUME NEW t \in Threads, Wait(t) PROVE CommandInv'
    BY <1>24, PcTyped, QueueAssumption
    DEF Wait, LockInv, InSubmission, HandInv, NumberInv, CommandInv, CmdLabels
  <1>25. ASSUME NEW t \in Threads, WaitFails(t) PROVE CommandInv'
    BY <1>25, PcTyped, QueueAssumption
    DEF WaitFails, LockInv, InSubmission, HandInv, NumberInv, CommandInv, CmdLabels
  <1>26. ASSUME NEW t \in Threads, DropWait(t) PROVE CommandInv'
    BY <1>26, PcTyped, QueueAssumption
    DEF DropWait, EmptyHands, LockInv, InSubmission, HandInv, NumberInv, CommandInv,
        CmdLabels
  <1>27. ASSUME NEW t \in Threads, Drop(t) PROVE CommandInv'
    BY <1>27, PcTyped, QueueAssumption
    DEF Drop, TakeSubmission, LockInv, InSubmission, HandInv, NumberInv, CommandInv,
        CmdLabels
  <1>28. CASE MarkLost
    BY <1>28, PcTyped, QueueAssumption
    DEF MarkLost, TakeSubmission, LockInv, InSubmission, HandInv, NumberInv, CommandInv,
        CmdLabels
  <1>29. CASE GpuComplete
    BY <1>29, PcTyped, QueueAssumption
    DEF GpuComplete, LockInv, InSubmission, HandInv, NumberInv, CommandInv, CmdLabels
  <1>30. CASE UNCHANGED vars
    BY <1>30, PcTyped, QueueAssumption
    DEF vars, LockInv, InSubmission, HandInv, NumberInv, CommandInv, CmdLabels
  <1>31. QED
    BY <1>1, <1>2, <1>3, <1>4, <1>5, <1>6, <1>7, <1>8, <1>9, <1>10, <1>11, <1>12, <1>13,
       <1>14, <1>15, <1>16, <1>17, <1>18, <1>19, <1>20, <1>21, <1>22, <1>23, <1>24, <1>25,
       <1>26, <1>27, <1>28, <1>29, <1>30
    DEF Next, Step, Finished

\* The numbers a model of the queue counts with.
LEMMA NumberTyped ==
  ASSUME TypeOK
  PROVE  /\ after \in Nat /\ next_write \in Nat /\ accepted \subseteq Nat
         /\ \A c \in copies \cup taken \cup encoded : c.w \in Nat
         /\ \A i \in DOMAIN gpu :
              gpu[i].after \in Nat /\ \A c \in gpu[i].copies : c.w \in Nat
  <1>1. ASSUME NEW i \in DOMAIN gpu
        PROVE  gpu[i].after \in Nat /\ \A c \in gpu[i].copies : c.w \in Nat
    <2>1. gpu[i] \in SubmissionType
      BY DEF TypeOK
    <2>2. QED
      BY <2>1 DEF SubmissionType, CopyType
  <1>2. QED
    BY <1>1 DEF TypeOK, CopyType

\* An entry of the timeline with one submission more is that one, or an old one.
LEMMA AppendNth ==
  ASSUME NEW S, NEW q \in Seq(S), NEW s, NEW i \in DOMAIN Append(q, s)
  PROVE  \/ Append(q, s)[i] = s
         \/ i \in DOMAIN q /\ Append(q, s)[i] = q[i]
  OBVIOUS

\* What is on the timeline was numbered below n.
TimelineNumbers(n) ==
  \A i \in DOMAIN gpu : gpu[i].after <= n /\ \A c \in gpu[i].copies : c.w < n

LEMMA NumberAppend ==
  ASSUME TypeOK, TimelineNumbers(next_write), NEW s, gpu' = Append(gpu, s),
         next_write' = next_write, s.after <= next_write,
         \A c \in s.copies : c.w < next_write
  PROVE  TimelineNumbers(next_write)'
  <1>1. \A i \in DOMAIN gpu' : gpu'[i] = s \/ (i \in DOMAIN gpu /\ gpu'[i] = gpu[i])
    BY AppendNth DEF TypeOK
  <1>2. QED
    BY <1>1 DEF TimelineNumbers

\* Staging takes the next number.
LEMMA NumberStage ==
  ASSUME TypeOK, NumberInv, NEW c \in NewCopies, Stage(c), gpu' = gpu, after' = after,
         accepted' = accepted \/ accepted' = accepted \cup {c.w},
         (copies \cup taken \cup encoded)' \subseteq copies \cup taken \cup encoded \cup {c}
  PROVE  NumberInv'
  <1>1. c.w = next_write /\ next_write' = next_write + 1
    BY DEF NewCopies, Stage
  <1>2. QED
    BY <1>1, NumberTyped DEF NumberInv

LEMMA NumberNext ==
  ASSUME TypeOK, NumberInv, [Next]_vars
  PROVE  NumberInv'
  <1> USE DEF Goto
  <1>1. ASSUME NEW t \in Threads, BeginLocked(t) PROVE NumberInv'
    BY <1>1, NumberTyped
    DEF BeginLocked, Begin, NumberInv
  <1>2. ASSUME NEW t \in Threads, BeginPoll(t) PROVE NumberInv'
    BY <1>2, NumberTyped
    DEF BeginPoll, Begin, NumberInv
  <1>3. ASSUME NEW t \in Threads, BeginWaitFor(t) PROVE NumberInv'
    BY <1>3, NumberTyped
    DEF BeginWaitFor, Begin, NumberInv
  <1>4. ASSUME NEW t \in Threads, Enter(t) PROVE NumberInv'
    BY <1>4, NumberTyped
    DEF Enter, Leave, EmptyHands, NumberInv
  <1>5. ASSUME NEW t \in Threads, Validate(t) PROVE NumberInv'
    <2>1. /\ after' = after \/ after' = next_write
          /\ UNCHANGED <<gpu, next_write, accepted, copies, taken, encoded>>
      BY <1>5 DEF Validate
    <2>2. QED
      BY <2>1, NumberTyped DEF NumberInv
  <1>6. ASSUME NEW t \in Threads, PollHal(t) PROVE NumberInv'
    BY <1>6, NumberTyped
    DEF PollHal, AfterRecycle, NumberInv
  <1>7. ASSUME NEW t \in Threads, Recycle(t) PROVE NumberInv'
    BY <1>7, NumberTyped
    DEF Recycle, AfterRecycle, NumberInv
  <1>8. ASSUME NEW t \in Threads, StageWrite(t) PROVE NumberInv'
    <2>1. PICK c \in NewCopies : Stage(c) /\ copies' = copies \cup {c} /\ accepted' = accepted \cup {c.w}
      BY <1>8 DEF StageWrite
    <2>2. UNCHANGED <<gpu, after, taken, encoded>>
      BY <1>8 DEF StageWrite
    <2>3. QED
      BY <2>1, <2>2, NumberStage
  <1>9. ASSUME NEW t \in Threads, StageWriteFails(t) PROVE NumberInv'
    BY <1>9, NumberTyped
    DEF StageWriteFails, Leave, EmptyHands, NumberInv
  <1>10. ASSUME NEW t \in Threads, CheckThreshold(t) PROVE NumberInv'
    BY <1>10, NumberTyped
    DEF CheckThreshold, Leave, EmptyHands, NumberInv
  <1>11. ASSUME NEW t \in Threads, Take(t) PROVE NumberInv'
    BY <1>11, NumberTyped
    DEF Take, TakeSubmission, Leave, EmptyHands, NumberInv
  <1>12. ASSUME NEW t \in Threads, LowerTake(t) PROVE NumberInv'
    BY <1>12, NumberTyped
    DEF LowerTake, TakeSubmission, NumberInv
  <1>13. ASSUME NEW t \in Threads, LowerWrite(t) PROVE NumberInv'
    <2>1. PICK c \in NewCopies : Stage(c) /\ encoded' = encoded \cup {c}
      BY <1>13 DEF LowerWrite
    <2>2. UNCHANGED <<gpu, after, copies, taken, accepted>>
      BY <1>13 DEF LowerWrite
    <2>3. QED
      BY <2>1, <2>2, NumberStage
  <1>14. ASSUME NEW t \in Threads, LowerDone(t) PROVE NumberInv'
    BY <1>14, NumberTyped
    DEF LowerDone, TakeSubmission, NumberInv
  <1>15. ASSUME NEW t \in Threads, LowerError(t) PROVE NumberInv'
    BY <1>15, NumberTyped
    DEF LowerError, NumberInv
  <1>16. ASSUME NEW t \in Threads, LowerAbort(t) PROVE NumberInv'
    BY <1>16, NumberTyped
    DEF LowerAbort, TakeSubmission, NumberInv
  <1>17. ASSUME NEW t \in Threads, HalSubmit(t) PROVE NumberInv'
    <2>1. /\ gpu' = Append(gpu, Submission(TRUE))
          /\ after' = after /\ next_write' = next_write /\ accepted' = accepted
          /\ copies' = copies /\ taken' = {} /\ encoded' = {}
      BY <1>17 DEF HalSubmit
    <2>2. /\ Submission(TRUE).after <= next_write
          /\ \A c \in Submission(TRUE).copies : c.w < next_write
      BY DEF NumberInv, Submission
    <2>3. TimelineNumbers(next_write)'
      BY <2>1, <2>2, NumberAppend DEF NumberInv, TimelineNumbers
    <2>4. QED
      BY <2>1, <2>3 DEF NumberInv, TimelineNumbers
  <1>18. ASSUME NEW t \in Threads, HalSubmitFails(t) PROVE NumberInv'
    <2>1. /\ gpu' = gpu \/ gpu' = Append(gpu, Submission(FALSE))
          /\ after' = 0 /\ next_write' = next_write /\ accepted' = accepted
          /\ copies' = copies /\ taken' = {} /\ encoded' = {}
      BY <1>18 DEF HalSubmitFails, Leave, EmptyHands
    <2>2. /\ Submission(FALSE).after <= next_write
          /\ \A c \in Submission(FALSE).copies : c.w < next_write
      BY DEF NumberInv, Submission
    <2>3. TimelineNumbers(next_write)'
      BY <2>1, <2>2, NumberAppend DEF NumberInv, TimelineNumbers
    <2>4. QED
      BY <2>1, <2>3, NumberTyped DEF NumberInv, TimelineNumbers
  <1>19. ASSUME NEW t \in Threads, RecordSubmission(t) PROVE NumberInv'
    BY <1>19, NumberTyped
    DEF RecordSubmission, NumberInv
  <1>20. ASSUME NEW t \in Threads, RetireChunks(t) PROVE NumberInv'
    BY <1>20, NumberTyped
    DEF RetireChunks, Leave, EmptyHands, NumberInv
  <1>21. ASSUME NEW t \in Threads, RetireUnread(t) PROVE NumberInv'
    BY <1>21, NumberTyped
    DEF RetireUnread, Leave, EmptyHands, NumberInv
  <1>22. ASSUME NEW t \in Threads, Snapshot(t) PROVE NumberInv'
    BY <1>22, NumberTyped
    DEF Snapshot, NumberInv
  <1>23. ASSUME NEW t \in Threads, WaitBegin(t) PROVE NumberInv'
    BY <1>23, NumberTyped
    DEF WaitBegin, NumberInv
  <1>24. ASSUME NEW t \in Threads, Wait(t) PROVE NumberInv'
    BY <1>24, NumberTyped
    DEF Wait, NumberInv
  <1>25. ASSUME NEW t \in Threads, WaitFails(t) PROVE NumberInv'
    BY <1>25, NumberTyped
    DEF WaitFails, NumberInv
  <1>26. ASSUME NEW t \in Threads, DropWait(t) PROVE NumberInv'
    BY <1>26, NumberTyped
    DEF DropWait, EmptyHands, NumberInv
  <1>27. ASSUME NEW t \in Threads, Drop(t) PROVE NumberInv'
    <2>1. /\ \/ gpu' = gpu \/ gpu' = Append(gpu, Rest(TRUE)) \/ gpu' = Append(gpu, Rest(FALSE))
          /\ after' = after /\ next_write' = next_write /\ accepted' = accepted
          /\ copies' = {} /\ taken' = taken /\ encoded' = encoded
      BY <1>27 DEF Drop, TakeSubmission
    <2>2. /\ \A ok \in BOOLEAN : Rest(ok).after <= next_write
          /\ \A ok \in BOOLEAN : \A c \in Rest(ok).copies : c.w < next_write
      BY NumberTyped DEF NumberInv, Rest
    <2>3. TimelineNumbers(next_write)'
      BY <2>1, <2>2, NumberAppend DEF NumberInv, TimelineNumbers
    <2>4. QED
      BY <2>1, <2>3, NumberTyped DEF NumberInv, TimelineNumbers
  <1>28. CASE MarkLost
    BY <1>28, NumberTyped
    DEF MarkLost, TakeSubmission, NumberInv
  <1>29. CASE GpuComplete
    BY <1>29, NumberTyped
    DEF GpuComplete, NumberInv
  <1>30. CASE UNCHANGED vars
    BY <1>30, NumberTyped
    DEF vars, NumberInv
  <1>31. QED
    BY <1>1, <1>2, <1>3, <1>4, <1>5, <1>6, <1>7, <1>8, <1>9, <1>10, <1>11, <1>12, <1>13,
       <1>14, <1>15, <1>16, <1>17, <1>18, <1>19, <1>20, <1>21, <1>22, <1>23, <1>24, <1>25,
       <1>26, <1>27, <1>28, <1>29, <1>30
    DEF Next, Step, Finished

\* What a submit of this list does: it is refused, or its commands are marked.
Refused(list) == {i \in DOMAIN list :
  list[i] \in submitted \/ \E j \in 1 .. (i - 1) : list[j] = list[i]}
Marked(list) == {list[i] : i \in {j \in DOMAIN list : \A r \in Refused(list) : j < r}}
Validated(t, list, valid) ==
  /\ submitted' = submitted \cup Marked(list)
  /\ \/ Refused(list) = {} /\ cmds' = Marked(list)
     \/ UNCHANGED cmds

\* The marks when a submission is appended.
LEMMA MarkAppend ==
  ASSUME TypeOK, MarkInv, NEW s, gpu' = Append(gpu, s), submitted' = submitted,
         s.cmds \subseteq submitted,
         cmds' \in {{}, cmds},
         cmds' = {} \/ pc'[submission'] \in {"record", "retire"}
  PROVE  MarkInv'
  <1>1. \A i \in DOMAIN gpu' : gpu'[i] = s \/ (i \in DOMAIN gpu /\ gpu'[i] = gpu[i])
    BY AppendNth DEF TypeOK
  <1>2. QED
    BY <1>1 DEF MarkInv

LEMMA MarkNext ==
  ASSUME TypeOK, LockInv, HandInv, CommandInv, MarkInv, [Next]_vars
  PROVE  MarkInv'
  <1> USE DEF Goto
  <1>1. ASSUME NEW t \in Threads, BeginLocked(t) PROVE MarkInv'
    BY <1>1, PcTyped, QueueAssumption
    DEF BeginLocked, Begin, LockInv, InSubmission, CommandInv, CmdLabels, MarkInv
  <1>2. ASSUME NEW t \in Threads, BeginPoll(t) PROVE MarkInv'
    BY <1>2, PcTyped, QueueAssumption
    DEF BeginPoll, Begin, LockInv, InSubmission, CommandInv, CmdLabels, MarkInv
  <1>3. ASSUME NEW t \in Threads, BeginWaitFor(t) PROVE MarkInv'
    BY <1>3, PcTyped, QueueAssumption
    DEF BeginWaitFor, Begin, LockInv, InSubmission, CommandInv, CmdLabels, MarkInv
  <1>4. ASSUME NEW t \in Threads, Enter(t) PROVE MarkInv'
    BY <1>4, PcTyped, QueueAssumption
    DEF Enter, Leave, EmptyHands, LockInv, InSubmission, CommandInv, CmdLabels, MarkInv
  <1>5. ASSUME NEW t \in Threads, Validate(t) PROVE MarkInv'
    <2>1. /\ UNCHANGED <<gpu, submission>> /\ pc[t] = "validate" /\ submission = t
          /\ submitted \subseteq submitted'
          /\ cmds' = cmds \/ (cmds' \subseteq submitted' /\ cmds' \cap submitted = {})
      <3>1. PICK list \in UNION {[1 .. n -> Commands] : n \in 0 .. 2}, valid \in BOOLEAN :
              Validated(t, list, valid)
        BY <1>5 DEF Validate, Validated, Refused, Marked
      <3>2. CASE UNCHANGED cmds
        BY <1>5, <3>1, <3>2 DEF Validate, Validated, LockInv, InSubmission
      <3>3. CASE Refused(list) = {} /\ cmds' = Marked(list)
        <4>1. \A i \in DOMAIN list : list[i] \notin submitted
          BY <3>3 DEF Refused
        <4>2. Marked(list) \cap submitted = {}
          BY <4>1 DEF Marked
        <4>3. QED
          BY <1>5, <3>1, <3>3, <4>2 DEF Validate, Validated, LockInv, InSubmission
      <3>4. QED
        BY <3>1, <3>2, <3>3 DEF Validated
    <2>2. cmds = {}
      BY <2>1 DEF CommandInv, CmdLabels
    <2>3. QED
      BY <2>1, <2>2 DEF MarkInv
  <1>6. ASSUME NEW t \in Threads, PollHal(t) PROVE MarkInv'
    BY <1>6, PcTyped, QueueAssumption
    DEF PollHal, AfterRecycle, LockInv, InSubmission, CommandInv, CmdLabels, MarkInv
  <1>7. ASSUME NEW t \in Threads, Recycle(t) PROVE MarkInv'
    BY <1>7, PcTyped, QueueAssumption
    DEF Recycle, AfterRecycle, LockInv, InSubmission, CommandInv, CmdLabels, MarkInv
  <1>8. ASSUME NEW t \in Threads, StageWrite(t) PROVE MarkInv'
    BY <1>8, PcTyped, QueueAssumption
    DEF StageWrite, LockInv, InSubmission, CommandInv, CmdLabels, MarkInv
  <1>9. ASSUME NEW t \in Threads, StageWriteFails(t) PROVE MarkInv'
    BY <1>9, PcTyped, QueueAssumption
    DEF StageWriteFails, Leave, EmptyHands, LockInv, InSubmission, CommandInv,
        CmdLabels, MarkInv
  <1>10. ASSUME NEW t \in Threads, CheckThreshold(t) PROVE MarkInv'
    BY <1>10, PcTyped, QueueAssumption
    DEF CheckThreshold, Leave, EmptyHands, LockInv, InSubmission, CommandInv, CmdLabels,
        MarkInv
  <1>11. ASSUME NEW t \in Threads, Take(t) PROVE MarkInv'
    BY <1>11, PcTyped, QueueAssumption
    DEF Take, TakeSubmission, Leave, EmptyHands, LockInv, InSubmission, CommandInv,
        CmdLabels, MarkInv
  <1>12. ASSUME NEW t \in Threads, LowerTake(t) PROVE MarkInv'
    BY <1>12, PcTyped, QueueAssumption
    DEF LowerTake, TakeSubmission, LockInv, InSubmission, CommandInv, CmdLabels, MarkInv
  <1>13. ASSUME NEW t \in Threads, LowerWrite(t) PROVE MarkInv'
    BY <1>13, PcTyped, QueueAssumption
    DEF LowerWrite, LockInv, InSubmission, CommandInv, CmdLabels, MarkInv
  <1>14. ASSUME NEW t \in Threads, LowerDone(t) PROVE MarkInv'
    BY <1>14, PcTyped, QueueAssumption
    DEF LowerDone, TakeSubmission, LockInv, InSubmission, CommandInv, CmdLabels, MarkInv
  <1>15. ASSUME NEW t \in Threads, LowerError(t) PROVE MarkInv'
    BY <1>15, PcTyped, QueueAssumption
    DEF LowerError, LockInv, InSubmission, CommandInv, CmdLabels, MarkInv
  <1>16. ASSUME NEW t \in Threads, LowerAbort(t) PROVE MarkInv'
    BY <1>16, PcTyped, QueueAssumption
    DEF LowerAbort, TakeSubmission, LockInv, InSubmission, CommandInv, CmdLabels, MarkInv
  <1>17. ASSUME NEW t \in Threads, HalSubmit(t) PROVE MarkInv'
    <2>1. /\ submission = t /\ pc[t] = "hal" /\ submission' = t /\ pc'[t] = "record"
          /\ gpu' = Append(gpu, Submission(TRUE)) /\ UNCHANGED <<submitted, cmds>>
      BY <1>17, PcTyped DEF HalSubmit, LockInv, InSubmission
    <2>2. QED
      BY <2>1, MarkAppend DEF MarkInv, Submission
  <1>18. ASSUME NEW t \in Threads, HalSubmitFails(t) PROVE MarkInv'
    <2>1. /\ gpu' = gpu \/ gpu' = Append(gpu, Submission(FALSE))
          /\ cmds' = {} /\ submitted' = submitted
      BY <1>18 DEF HalSubmitFails, Leave, EmptyHands
    <2>2. QED
      BY <2>1, MarkAppend DEF MarkInv, Submission
  <1>19. ASSUME NEW t \in Threads, RecordSubmission(t) PROVE MarkInv'
    BY <1>19, PcTyped, QueueAssumption
    DEF RecordSubmission, LockInv, InSubmission, CommandInv, CmdLabels, MarkInv
  <1>20. ASSUME NEW t \in Threads, RetireChunks(t) PROVE MarkInv'
    BY <1>20, PcTyped, QueueAssumption
    DEF RetireChunks, Leave, EmptyHands, LockInv, InSubmission, CommandInv, CmdLabels,
        MarkInv
  <1>21. ASSUME NEW t \in Threads, RetireUnread(t) PROVE MarkInv'
    BY <1>21, PcTyped, QueueAssumption
    DEF RetireUnread, Leave, EmptyHands, LockInv, InSubmission, CommandInv, CmdLabels,
        MarkInv
  <1>22. ASSUME NEW t \in Threads, Snapshot(t) PROVE MarkInv'
    BY <1>22, PcTyped, QueueAssumption
    DEF Snapshot, LockInv, InSubmission, CommandInv, CmdLabels, MarkInv
  <1>23. ASSUME NEW t \in Threads, WaitBegin(t) PROVE MarkInv'
    BY <1>23, PcTyped, QueueAssumption
    DEF WaitBegin, LockInv, InSubmission, CommandInv, CmdLabels, MarkInv
  <1>24. ASSUME NEW t \in Threads, Wait(t) PROVE MarkInv'
    BY <1>24, PcTyped, QueueAssumption
    DEF Wait, LockInv, InSubmission, CommandInv, CmdLabels, MarkInv
  <1>25. ASSUME NEW t \in Threads, WaitFails(t) PROVE MarkInv'
    BY <1>25, PcTyped, QueueAssumption
    DEF WaitFails, LockInv, InSubmission, CommandInv, CmdLabels, MarkInv
  <1>26. ASSUME NEW t \in Threads, DropWait(t) PROVE MarkInv'
    BY <1>26, PcTyped, QueueAssumption
    DEF DropWait, EmptyHands, LockInv, InSubmission, CommandInv, CmdLabels, MarkInv
  <1>27. ASSUME NEW t \in Threads, Drop(t) PROVE MarkInv'
    <2>1. /\ \/ gpu' = gpu
             \/ gpu' = Append(gpu, Rest(TRUE))
             \/ gpu' = Append(gpu, Rest(FALSE))
          /\ UNCHANGED <<cmds, submitted>>
      BY <1>27 DEF Drop
    <2>2. cmds = {}
      BY <1>27 DEF Drop, CommandInv, CmdLabels
    <2>3. QED
      BY <2>1, <2>2, MarkAppend DEF MarkInv, Rest
  <1>28. CASE MarkLost
    BY <1>28, PcTyped, QueueAssumption
    DEF MarkLost, TakeSubmission, LockInv, InSubmission, CommandInv, CmdLabels, MarkInv
  <1>29. CASE GpuComplete
    BY <1>29, PcTyped, QueueAssumption
    DEF GpuComplete, LockInv, InSubmission, CommandInv, CmdLabels, MarkInv
  <1>30. CASE UNCHANGED vars
    BY <1>30, PcTyped, QueueAssumption
    DEF vars, LockInv, InSubmission, CommandInv, CmdLabels, MarkInv
  <1>31. QED
    BY <1>1, <1>2, <1>3, <1>4, <1>5, <1>6, <1>7, <1>8, <1>9, <1>10, <1>11, <1>12, <1>13,
       <1>14, <1>15, <1>16, <1>17, <1>18, <1>19, <1>20, <1>21, <1>22, <1>23, <1>24, <1>25,
       <1>26, <1>27, <1>28, <1>29, <1>30
    DEF Next, Step, Finished

LEMMA OnceAppend ==
  ASSUME TypeOK, CommandsRunOnce, NEW s, gpu' = Append(gpu, s),
         \A i \in DOMAIN gpu : gpu[i].cmds \cap s.cmds = {}
  PROVE  CommandsRunOnce'
  <1>1. /\ DOMAIN gpu' = 1 .. (Len(gpu) + 1) /\ DOMAIN gpu = 1 .. Len(gpu)
        /\ Len(gpu) \in Nat /\ gpu'[Len(gpu) + 1] = s
        /\ \A i \in DOMAIN gpu : gpu'[i] = gpu[i]
    BY TimelineDomain
  <1>2. \A i \in DOMAIN gpu' : i = Len(gpu) + 1 \/ i \in DOMAIN gpu
    BY <1>1
  <1>3. QED
    BY <1>1, <1>2 DEF CommandsRunOnce

\* No step puts a command buffer on the timeline a second time.
LEMMA OnceNext ==
  ASSUME TypeOK, LockInv, MarkInv, CommandsRunOnce, [Next]_vars
  PROVE  CommandsRunOnce'
  <1> USE DEF Goto
  <1>1. ASSUME NEW t \in Threads, BeginLocked(t) PROVE CommandsRunOnce'
    BY <1>1
    DEF BeginLocked, Begin, CommandsRunOnce
  <1>2. ASSUME NEW t \in Threads, BeginPoll(t) PROVE CommandsRunOnce'
    BY <1>2
    DEF BeginPoll, Begin, CommandsRunOnce
  <1>3. ASSUME NEW t \in Threads, BeginWaitFor(t) PROVE CommandsRunOnce'
    BY <1>3
    DEF BeginWaitFor, Begin, CommandsRunOnce
  <1>4. ASSUME NEW t \in Threads, Enter(t) PROVE CommandsRunOnce'
    BY <1>4
    DEF Enter, Leave, EmptyHands, CommandsRunOnce
  <1>5. ASSUME NEW t \in Threads, Validate(t) PROVE CommandsRunOnce'
    BY <1>5
    DEF Validate, CommandsRunOnce
  <1>6. ASSUME NEW t \in Threads, PollHal(t) PROVE CommandsRunOnce'
    BY <1>6
    DEF PollHal, AfterRecycle, CommandsRunOnce
  <1>7. ASSUME NEW t \in Threads, Recycle(t) PROVE CommandsRunOnce'
    BY <1>7
    DEF Recycle, AfterRecycle, CommandsRunOnce
  <1>8. ASSUME NEW t \in Threads, StageWrite(t) PROVE CommandsRunOnce'
    BY <1>8
    DEF StageWrite, CommandsRunOnce
  <1>9. ASSUME NEW t \in Threads, StageWriteFails(t) PROVE CommandsRunOnce'
    BY <1>9
    DEF StageWriteFails, Leave, EmptyHands, CommandsRunOnce
  <1>10. ASSUME NEW t \in Threads, CheckThreshold(t) PROVE CommandsRunOnce'
    BY <1>10
    DEF CheckThreshold, Leave, EmptyHands, CommandsRunOnce
  <1>11. ASSUME NEW t \in Threads, Take(t) PROVE CommandsRunOnce'
    BY <1>11
    DEF Take, TakeSubmission, Leave, EmptyHands, CommandsRunOnce
  <1>12. ASSUME NEW t \in Threads, LowerTake(t) PROVE CommandsRunOnce'
    BY <1>12
    DEF LowerTake, TakeSubmission, CommandsRunOnce
  <1>13. ASSUME NEW t \in Threads, LowerWrite(t) PROVE CommandsRunOnce'
    BY <1>13
    DEF LowerWrite, CommandsRunOnce
  <1>14. ASSUME NEW t \in Threads, LowerDone(t) PROVE CommandsRunOnce'
    BY <1>14
    DEF LowerDone, TakeSubmission, CommandsRunOnce
  <1>15. ASSUME NEW t \in Threads, LowerError(t) PROVE CommandsRunOnce'
    BY <1>15
    DEF LowerError, CommandsRunOnce
  <1>16. ASSUME NEW t \in Threads, LowerAbort(t) PROVE CommandsRunOnce'
    BY <1>16
    DEF LowerAbort, TakeSubmission, CommandsRunOnce
  <1>17. ASSUME NEW t \in Threads, HalSubmit(t) PROVE CommandsRunOnce'
    <2>1. /\ submission = t /\ pc[t] = "hal"
          /\ gpu' = Append(gpu, Submission(TRUE)) /\ Submission(TRUE).cmds = cmds
      BY <1>17, PcTyped DEF HalSubmit, LockInv, InSubmission, Submission
    <2>2. \A i \in DOMAIN gpu : gpu[i].cmds \cap cmds = {}
      BY <2>1 DEF MarkInv
    <2>3. QED
      BY <2>1, <2>2, OnceAppend
  <1>18. ASSUME NEW t \in Threads, HalSubmitFails(t) PROVE CommandsRunOnce'
    <2>1. /\ submission = t /\ pc[t] = "hal"
          /\ gpu' = gpu \/ gpu' = Append(gpu, Submission(FALSE))
          /\ Submission(FALSE).cmds = cmds
      BY <1>18, PcTyped DEF HalSubmitFails, LockInv, InSubmission, Submission
    <2>2. \A i \in DOMAIN gpu : gpu[i].cmds \cap cmds = {}
      BY <2>1 DEF MarkInv
    <2>3. QED
      BY <2>1, <2>2, OnceAppend DEF CommandsRunOnce
  <1>19. ASSUME NEW t \in Threads, RecordSubmission(t) PROVE CommandsRunOnce'
    BY <1>19
    DEF RecordSubmission, CommandsRunOnce
  <1>20. ASSUME NEW t \in Threads, RetireChunks(t) PROVE CommandsRunOnce'
    BY <1>20
    DEF RetireChunks, Leave, EmptyHands, CommandsRunOnce
  <1>21. ASSUME NEW t \in Threads, RetireUnread(t) PROVE CommandsRunOnce'
    BY <1>21
    DEF RetireUnread, Leave, EmptyHands, CommandsRunOnce
  <1>22. ASSUME NEW t \in Threads, Snapshot(t) PROVE CommandsRunOnce'
    BY <1>22
    DEF Snapshot, CommandsRunOnce
  <1>23. ASSUME NEW t \in Threads, WaitBegin(t) PROVE CommandsRunOnce'
    BY <1>23
    DEF WaitBegin, CommandsRunOnce
  <1>24. ASSUME NEW t \in Threads, Wait(t) PROVE CommandsRunOnce'
    BY <1>24
    DEF Wait, CommandsRunOnce
  <1>25. ASSUME NEW t \in Threads, WaitFails(t) PROVE CommandsRunOnce'
    BY <1>25
    DEF WaitFails, CommandsRunOnce
  <1>26. ASSUME NEW t \in Threads, DropWait(t) PROVE CommandsRunOnce'
    BY <1>26
    DEF DropWait, EmptyHands, CommandsRunOnce
  <1>27. ASSUME NEW t \in Threads, Drop(t) PROVE CommandsRunOnce'
    <2>1. /\ \/ gpu' = gpu
             \/ gpu' = Append(gpu, Rest(TRUE))
             \/ gpu' = Append(gpu, Rest(FALSE))
          /\ Rest(TRUE).cmds = {} /\ Rest(FALSE).cmds = {}
      BY <1>27 DEF Drop, Rest
    <2>2. CASE gpu' = gpu
      BY <2>2 DEF CommandsRunOnce
    <2>3. ASSUME NEW s, gpu' = Append(gpu, s), s.cmds = {} PROVE CommandsRunOnce'
      BY <2>3, OnceAppend
    <2>4. QED
      BY <2>1, <2>2, <2>3
  <1>28. CASE MarkLost
    BY <1>28
    DEF MarkLost, TakeSubmission, CommandsRunOnce
  <1>29. CASE GpuComplete
    BY <1>29
    DEF GpuComplete, CommandsRunOnce
  <1>30. CASE UNCHANGED vars
    BY <1>30
    DEF vars, CommandsRunOnce
  <1>31. QED
    BY <1>1, <1>2, <1>3, <1>4, <1>5, <1>6, <1>7, <1>8, <1>9, <1>10, <1>11, <1>12, <1>13,
       <1>14, <1>15, <1>16, <1>17, <1>18, <1>19, <1>20, <1>21, <1>22, <1>23, <1>24, <1>25,
       <1>26, <1>27, <1>28, <1>29, <1>30
    DEF Next, Step, Finished

\* Submissions that are accepted, when one more is.
LEMMA AcceptedAppend ==
  ASSUME TypeOK, \A i \in DOMAIN gpu : gpu[i].ok, NEW s, gpu' = Append(gpu, s), s.ok
  PROVE  \A i \in DOMAIN gpu' : gpu'[i].ok
  <1>1. \A i \in DOMAIN gpu' : gpu'[i] = s \/ (i \in DOMAIN gpu /\ gpu'[i] = gpu[i])
    BY AppendNth DEF TypeOK
  <1>2. QED
    BY <1>1

\* The drop waits for everything that was accepted, and nothing comes after it.
LEMMA DrainNext ==
  ASSUME TypeOK, LockInv, CoverInv, DrainInv, [Next]_vars
  PROVE  DrainInv'
  <1> USE DEF Goto
  <1>1. ASSUME NEW t \in Threads, BeginLocked(t) PROVE DrainInv'
    BY <1>1, PcTyped, TimelineTyped
    DEF BeginLocked, Begin, LockInv, DrainInv
  <1>2. ASSUME NEW t \in Threads, BeginPoll(t) PROVE DrainInv'
    BY <1>2, PcTyped, TimelineTyped
    DEF BeginPoll, Begin, LockInv, DrainInv
  <1>3. ASSUME NEW t \in Threads, BeginWaitFor(t) PROVE DrainInv'
    BY <1>3, PcTyped, TimelineTyped
    DEF BeginWaitFor, Begin, LockInv, DrainInv
  <1>4. ASSUME NEW t \in Threads, Enter(t) PROVE DrainInv'
    BY <1>4, PcTyped, TimelineTyped
    DEF Enter, Leave, EmptyHands, LockInv, DrainInv
  <1>5. ASSUME NEW t \in Threads, Validate(t) PROVE DrainInv'
    BY <1>5, PcTyped, TimelineTyped
    DEF Validate, LockInv, DrainInv
  <1>6. ASSUME NEW t \in Threads, PollHal(t) PROVE DrainInv'
    BY <1>6, PcTyped, TimelineTyped
    DEF PollHal, AfterRecycle, LockInv, DrainInv
  <1>7. ASSUME NEW t \in Threads, Recycle(t) PROVE DrainInv'
    BY <1>7, PcTyped, TimelineTyped
    DEF Recycle, AfterRecycle, LockInv, DrainInv
  <1>8. ASSUME NEW t \in Threads, StageWrite(t) PROVE DrainInv'
    BY <1>8, PcTyped, TimelineTyped
    DEF StageWrite, LockInv, DrainInv
  <1>9. ASSUME NEW t \in Threads, StageWriteFails(t) PROVE DrainInv'
    BY <1>9, PcTyped, TimelineTyped
    DEF StageWriteFails, Leave, EmptyHands, LockInv, DrainInv
  <1>10. ASSUME NEW t \in Threads, CheckThreshold(t) PROVE DrainInv'
    BY <1>10, PcTyped, TimelineTyped
    DEF CheckThreshold, Leave, EmptyHands, LockInv, DrainInv
  <1>11. ASSUME NEW t \in Threads, Take(t) PROVE DrainInv'
    BY <1>11, PcTyped, TimelineTyped
    DEF Take, TakeSubmission, Leave, EmptyHands, LockInv, DrainInv
  <1>12. ASSUME NEW t \in Threads, LowerTake(t) PROVE DrainInv'
    BY <1>12, PcTyped, TimelineTyped
    DEF LowerTake, TakeSubmission, LockInv, DrainInv
  <1>13. ASSUME NEW t \in Threads, LowerWrite(t) PROVE DrainInv'
    BY <1>13, PcTyped, TimelineTyped
    DEF LowerWrite, LockInv, DrainInv
  <1>14. ASSUME NEW t \in Threads, LowerDone(t) PROVE DrainInv'
    BY <1>14, PcTyped, TimelineTyped
    DEF LowerDone, TakeSubmission, LockInv, DrainInv
  <1>15. ASSUME NEW t \in Threads, LowerError(t) PROVE DrainInv'
    BY <1>15, PcTyped, TimelineTyped
    DEF LowerError, LockInv, DrainInv
  <1>16. ASSUME NEW t \in Threads, LowerAbort(t) PROVE DrainInv'
    BY <1>16, PcTyped, TimelineTyped
    DEF LowerAbort, TakeSubmission, LockInv, DrainInv
  <1>17. ASSUME NEW t \in Threads, HalSubmit(t) PROVE DrainInv'
    <2>1. /\ gpu' = Append(gpu, Submission(TRUE)) /\ Submission(TRUE).ok
          /\ UNCHANGED <<failed, copies, dropped>> /\ ~dropped
      BY <1>17, PcTyped DEF HalSubmit, LockInv, Submission
    <2>2. ~failed => \A i \in DOMAIN gpu' : gpu'[i].ok
      BY <2>1, AcceptedAppend DEF DrainInv
    <2>3. QED
      BY <2>1, <2>2 DEF DrainInv
  <1>18. ASSUME NEW t \in Threads, HalSubmitFails(t) PROVE DrainInv'
    BY <1>18, PcTyped, TimelineTyped
    DEF HalSubmitFails, Leave, EmptyHands, LockInv, DrainInv
  <1>19. ASSUME NEW t \in Threads, RecordSubmission(t) PROVE DrainInv'
    BY <1>19, PcTyped, TimelineTyped
    DEF RecordSubmission, LockInv, DrainInv
  <1>20. ASSUME NEW t \in Threads, RetireChunks(t) PROVE DrainInv'
    BY <1>20, PcTyped, TimelineTyped
    DEF RetireChunks, Leave, EmptyHands, LockInv, DrainInv
  <1>21. ASSUME NEW t \in Threads, RetireUnread(t) PROVE DrainInv'
    BY <1>21, PcTyped, TimelineTyped
    DEF RetireUnread, Leave, EmptyHands, LockInv, DrainInv
  <1>22. ASSUME NEW t \in Threads, Snapshot(t) PROVE DrainInv'
    BY <1>22, PcTyped, TimelineTyped
    DEF Snapshot, LockInv, DrainInv
  <1>23. ASSUME NEW t \in Threads, WaitBegin(t) PROVE DrainInv'
    BY <1>23, PcTyped, TimelineTyped
    DEF WaitBegin, LockInv, DrainInv
  <1>24. ASSUME NEW t \in Threads, Wait(t) PROVE DrainInv'
    BY <1>24, PcTyped, TimelineTyped
    DEF Wait, LockInv, DrainInv
  <1>25. ASSUME NEW t \in Threads, WaitFails(t) PROVE DrainInv'
    BY <1>25, PcTyped, TimelineTyped
    DEF WaitFails, LockInv, DrainInv
  <1>26. ASSUME NEW t \in Threads, DropWait(t) PROVE DrainInv'
    <2>1. /\ dropped /\ dropped' = dropped /\ copies' = copies /\ gpu' = gpu /\ done' = done
          /\ \A u \in Threads : pc[u] \in {"idle", "drop_wait"}
          /\ (done >= latest /\ failed' = failed) \/ failed' = TRUE
      BY <1>26 DEF DropWait, LockInv
    <2>2. ASSUME ~failed' PROVE done = Len(gpu)
      <3>1. done >= latest /\ ~failed
        BY <2>1, <2>2
      <3>2. \A i \in DOMAIN gpu : i <= latest
        BY <2>1, <3>1 DEF DrainInv, CoverInv
      <3>3. /\ done \in Nat /\ latest \in Nat /\ Len(gpu) \in Nat
            /\ done <= Len(gpu)
        BY TimelineTyped
      <3>4. CASE Len(gpu) = 0
        BY <3>3, <3>4
      <3>5. CASE Len(gpu) # 0
        <4>1. Len(gpu) \in DOMAIN gpu
          BY <3>5, TimelineDomain
        <4>2. Len(gpu) <= latest
          BY <3>2, <4>1
        <4>3. QED
          BY <3>1, <3>3, <4>2
      <3>6. QED
        BY <3>4, <3>5
    <2>3. QED
      BY <2>1, <2>2 DEF DrainInv
  <1>27. ASSUME NEW t \in Threads, Drop(t) PROVE DrainInv'
    <2>1. /\ \/ failed' = failed /\ gpu' = gpu
             \/ failed' = failed /\ gpu' = Append(gpu, Rest(TRUE)) /\ Rest(TRUE).ok
             \/ failed'
          /\ copies' = {} /\ pc'[t] = "drop_wait"
      BY <1>27, PcTyped DEF Drop, TakeSubmission, Rest
    <2>2. ~failed' => \A i \in DOMAIN gpu' : gpu'[i].ok
      BY <2>1, AcceptedAppend DEF DrainInv
    <2>3. QED
      BY <2>1, <2>2 DEF DrainInv
  <1>28. CASE MarkLost
    BY <1>28, PcTyped, TimelineTyped
    DEF MarkLost, TakeSubmission, LockInv, DrainInv
  <1>29. CASE GpuComplete
    BY <1>29, PcTyped, TimelineTyped
    DEF GpuComplete, LockInv, DrainInv
  <1>30. CASE UNCHANGED vars
    BY <1>30, PcTyped, TimelineTyped
    DEF vars, LockInv, DrainInv
  <1>31. QED
    BY <1>1, <1>2, <1>3, <1>4, <1>5, <1>6, <1>7, <1>8, <1>9, <1>10, <1>11, <1>12, <1>13,
       <1>14, <1>15, <1>16, <1>17, <1>18, <1>19, <1>20, <1>21, <1>22, <1>23, <1>24, <1>25,
       <1>26, <1>27, <1>28, <1>29, <1>30
    DEF Next, Step, Finished

\* The writes on the timeline up to one submission, as more are appended.
LEMMA WritesSame ==
  ASSUME gpu' = gpu, NEW i PROVE WritesUpTo(i)' = WritesUpTo(i)
  BY DEF WritesUpTo

LEMMA WritesAppend ==
  ASSUME TypeOK, NEW s, gpu' = Append(gpu, s), NEW i \in 0 .. Len(gpu)
  PROVE  WritesUpTo(i)' = WritesUpTo(i)
  <1>1. \A j \in 1 .. i : gpu'[j] = gpu[j]
    BY TimelineDomain
  <1>2. QED
    BY <1>1 DEF WritesUpTo

OnLine == WritesUpTo(Len(gpu))

LEMMA LineAppend ==
  ASSUME TypeOK, NEW s, gpu' = Append(gpu, s)
  PROVE  OnLine' = OnLine \cup {c.w : c \in s.copies}
  <1>1. /\ Len(gpu') = Len(gpu) + 1 /\ Len(gpu) \in Nat /\ gpu'[Len(gpu) + 1] = s
        /\ \A j \in 1 .. Len(gpu) : gpu'[j] = gpu[j]
    BY TimelineDomain, TimelineGrows
  <1>2. \A j : j \in 1 .. (Len(gpu) + 1) <=> (j \in 1 .. Len(gpu) \/ j = Len(gpu) + 1)
    BY <1>1
  <1>3. \A w : w \in OnLine <=> \E j \in 1 .. Len(gpu) : \E c \in gpu[j].copies : c.w = w
    BY DEF OnLine, WritesUpTo
  <1>4. \A w : w \in OnLine' <=> \E j \in 1 .. Len(gpu') : \E c \in gpu'[j].copies : c.w = w
    BY DEF OnLine, WritesUpTo
  <1>5. \A w : w \in OnLine' <=> w \in OnLine \/ \E c \in s.copies : c.w = w
    BY <1>1, <1>2, <1>3, <1>4
  <1>6. QED
    BY <1>5

\* Most steps move no write; an error of the HAL excuses what it drops.
WritesStay ==
  UNCHANGED <<gpu, copies, taken, accepted, lost>> /\ (failed' \/ failed' = failed)

LEMMA WritesStayKept ==
  ASSUME NoWriteLost, WritesStay
  PROVE  NoWriteLost'
  BY WritesSame DEF NoWriteLost, WritesStay

\* No step loses a write the queue accepted.
LEMMA KeptNext ==
  ASSUME TypeOK, LockInv, HandInv, NoWriteLost, [Next]_vars
  PROVE  NoWriteLost'
  <1> USE DEF Goto
  <1>1. ASSUME NEW t \in Threads, BeginLocked(t) PROVE NoWriteLost'
    <2>1. WritesStay
      BY <1>1, PcTyped, QueueAssumption DEF BeginLocked, Begin, LockInv, InSubmission,
         HandInv, WritesStay
    <2>2. QED
      BY <2>1, WritesStayKept
  <1>2. ASSUME NEW t \in Threads, BeginPoll(t) PROVE NoWriteLost'
    <2>1. WritesStay
      BY <1>2, PcTyped, QueueAssumption DEF BeginPoll, Begin, LockInv, InSubmission,
         HandInv, WritesStay
    <2>2. QED
      BY <2>1, WritesStayKept
  <1>3. ASSUME NEW t \in Threads, BeginWaitFor(t) PROVE NoWriteLost'
    <2>1. WritesStay
      BY <1>3, PcTyped, QueueAssumption DEF BeginWaitFor, Begin, LockInv, InSubmission,
         HandInv, WritesStay
    <2>2. QED
      BY <2>1, WritesStayKept
  <1>4. ASSUME NEW t \in Threads, Enter(t) PROVE NoWriteLost'
    <2>1. WritesStay
      BY <1>4, PcTyped, QueueAssumption DEF Enter, Leave, EmptyHands, LockInv,
         InSubmission, HandInv, WritesStay
    <2>2. QED
      BY <2>1, WritesStayKept
  <1>5. ASSUME NEW t \in Threads, Validate(t) PROVE NoWriteLost'
    <2>1. WritesStay
      BY <1>5, PcTyped, QueueAssumption DEF Validate, LockInv, InSubmission, HandInv,
         WritesStay
    <2>2. QED
      BY <2>1, WritesStayKept
  <1>6. ASSUME NEW t \in Threads, PollHal(t) PROVE NoWriteLost'
    <2>1. WritesStay
      BY <1>6, PcTyped, QueueAssumption DEF PollHal, AfterRecycle, LockInv,
         InSubmission, HandInv, WritesStay
    <2>2. QED
      BY <2>1, WritesStayKept
  <1>7. ASSUME NEW t \in Threads, Recycle(t) PROVE NoWriteLost'
    <2>1. WritesStay
      BY <1>7, PcTyped, QueueAssumption DEF Recycle, AfterRecycle, LockInv,
         InSubmission, HandInv, WritesStay
    <2>2. QED
      BY <2>1, WritesStayKept
  <1>8. ASSUME NEW t \in Threads, StageWrite(t) PROVE NoWriteLost'
    <2>1. UNCHANGED <<gpu, taken, failed, lost>>
      BY <1>8 DEF StageWrite
    <2>2. PICK c \in NewCopies : copies' = copies \cup {c} /\ accepted' = accepted \cup {c.w}
      BY <1>8 DEF StageWrite
    <2>3. QED
      BY <2>1, <2>2, WritesSame DEF NoWriteLost
  <1>9. ASSUME NEW t \in Threads, StageWriteFails(t) PROVE NoWriteLost'
    <2>1. WritesStay
      BY <1>9, PcTyped, QueueAssumption DEF StageWriteFails, Leave, EmptyHands, LockInv,
         InSubmission, HandInv, WritesStay
    <2>2. QED
      BY <2>1, WritesStayKept
  <1>10. ASSUME NEW t \in Threads, CheckThreshold(t) PROVE NoWriteLost'
    <2>1. WritesStay
      BY <1>10, PcTyped, QueueAssumption DEF CheckThreshold, Leave, EmptyHands, LockInv,
         InSubmission, HandInv, WritesStay
    <2>2. QED
      BY <2>1, WritesStayKept
  <1>11. ASSUME NEW t \in Threads, Take(t) PROVE NoWriteLost'
    <2>1. /\ gpu' = gpu /\ accepted' = accepted /\ failed' = failed /\ lost' = lost
          /\ copies \cup taken \subseteq copies' \cup taken'
      BY <1>11, PcTyped DEF Take, TakeSubmission, Leave, EmptyHands, LockInv,
         InSubmission, HandInv
    <2>2. QED
      BY <2>1, WritesSame DEF NoWriteLost
  <1>12. ASSUME NEW t \in Threads, LowerTake(t) PROVE NoWriteLost'
    <2>1. /\ gpu' = gpu /\ accepted' = accepted /\ failed' = failed /\ lost' = lost
          /\ copies \cup taken \subseteq copies' \cup taken'
      BY <1>12, PcTyped DEF LowerTake, TakeSubmission, LockInv, InSubmission, HandInv
    <2>2. QED
      BY <2>1, WritesSame DEF NoWriteLost
  <1>13. ASSUME NEW t \in Threads, LowerWrite(t) PROVE NoWriteLost'
    <2>1. WritesStay
      BY <1>13, PcTyped, QueueAssumption DEF LowerWrite, LockInv, InSubmission, HandInv,
         WritesStay
    <2>2. QED
      BY <2>1, WritesStayKept
  <1>14. ASSUME NEW t \in Threads, LowerDone(t) PROVE NoWriteLost'
    <2>1. /\ gpu' = gpu /\ accepted' = accepted /\ failed' = failed /\ lost' = lost
          /\ copies \cup taken \subseteq copies' \cup taken'
      BY <1>14, PcTyped DEF LowerDone, TakeSubmission, LockInv, InSubmission, HandInv
    <2>2. QED
      BY <2>1, WritesSame DEF NoWriteLost
  <1>15. ASSUME NEW t \in Threads, LowerError(t) PROVE NoWriteLost'
    <2>1. WritesStay
      BY <1>15, PcTyped, QueueAssumption DEF LowerError, LockInv, InSubmission, HandInv,
         WritesStay
    <2>2. QED
      BY <2>1, WritesStayKept
  <1>16. ASSUME NEW t \in Threads, LowerAbort(t) PROVE NoWriteLost'
    <2>1. /\ gpu' = gpu /\ accepted' = accepted /\ failed' = failed /\ lost' = lost
          /\ copies \cup taken \subseteq copies' \cup taken'
      BY <1>16, PcTyped DEF LowerAbort, TakeSubmission, LockInv, InSubmission, HandInv
    <2>2. QED
      BY <2>1, WritesSame DEF NoWriteLost
  <1>17. ASSUME NEW t \in Threads, HalSubmit(t) PROVE NoWriteLost'
    <2>1. /\ UNCHANGED <<copies, accepted, failed, lost>>
          /\ gpu' = Append(gpu, Submission(TRUE))
          /\ Submission(TRUE).copies = taken \cup encoded
      BY <1>17 DEF HalSubmit, Submission
    <2>2. OnLine' = OnLine \cup {c.w : c \in taken \cup encoded}
      BY <2>1, LineAppend
    <2>3. QED
      BY <2>1, <2>2 DEF NoWriteLost, OnLine
  <1>18. ASSUME NEW t \in Threads, HalSubmitFails(t) PROVE NoWriteLost'
    BY <1>18 DEF HalSubmitFails, NoWriteLost
  <1>19. ASSUME NEW t \in Threads, RecordSubmission(t) PROVE NoWriteLost'
    <2>1. WritesStay
      BY <1>19, PcTyped, QueueAssumption DEF RecordSubmission, LockInv, InSubmission,
         HandInv, WritesStay
    <2>2. QED
      BY <2>1, WritesStayKept
  <1>20. ASSUME NEW t \in Threads, RetireChunks(t) PROVE NoWriteLost'
    <2>1. WritesStay
      BY <1>20, PcTyped, QueueAssumption DEF RetireChunks, Leave, EmptyHands, LockInv,
         InSubmission, HandInv, WritesStay
    <2>2. QED
      BY <2>1, WritesStayKept
  <1>21. ASSUME NEW t \in Threads, RetireUnread(t) PROVE NoWriteLost'
    <2>1. WritesStay
      BY <1>21, PcTyped, QueueAssumption DEF RetireUnread, Leave, EmptyHands, LockInv,
         InSubmission, HandInv, WritesStay
    <2>2. QED
      BY <2>1, WritesStayKept
  <1>22. ASSUME NEW t \in Threads, Snapshot(t) PROVE NoWriteLost'
    <2>1. WritesStay
      BY <1>22, PcTyped, QueueAssumption DEF Snapshot, LockInv, InSubmission, HandInv,
         WritesStay
    <2>2. QED
      BY <2>1, WritesStayKept
  <1>23. ASSUME NEW t \in Threads, WaitBegin(t) PROVE NoWriteLost'
    <2>1. WritesStay
      BY <1>23, PcTyped, QueueAssumption DEF WaitBegin, LockInv, InSubmission, HandInv,
         WritesStay
    <2>2. QED
      BY <2>1, WritesStayKept
  <1>24. ASSUME NEW t \in Threads, Wait(t) PROVE NoWriteLost'
    <2>1. WritesStay
      BY <1>24, PcTyped, QueueAssumption DEF Wait, LockInv, InSubmission, HandInv,
         WritesStay
    <2>2. QED
      BY <2>1, WritesStayKept
  <1>25. ASSUME NEW t \in Threads, WaitFails(t) PROVE NoWriteLost'
    <2>1. WritesStay
      BY <1>25, PcTyped, QueueAssumption DEF WaitFails, LockInv, InSubmission, HandInv,
         WritesStay
    <2>2. QED
      BY <2>1, WritesStayKept
  <1>26. ASSUME NEW t \in Threads, DropWait(t) PROVE NoWriteLost'
    <2>1. WritesStay
      BY <1>26, PcTyped, QueueAssumption DEF DropWait, EmptyHands, LockInv,
         InSubmission, HandInv, WritesStay
    <2>2. QED
      BY <2>1, WritesStayKept
  <1>27. ASSUME NEW t \in Threads, Drop(t) PROVE NoWriteLost'
    <2>1. /\ UNCHANGED <<taken, accepted, lost>> /\ copies' = {}
          /\ \/ copies = {} /\ gpu' = gpu /\ failed' = failed
             \/ gpu' = Append(gpu, Rest(TRUE)) /\ failed' = failed
             \/ failed' = TRUE
          /\ Rest(TRUE).copies = copies
      BY <1>27 DEF Drop, TakeSubmission, Rest
    <2>2. CASE copies = {} /\ gpu' = gpu /\ failed' = failed
      BY <2>1, <2>2, WritesSame DEF NoWriteLost
    <2>3. CASE gpu' = Append(gpu, Rest(TRUE)) /\ failed' = failed
      <3>1. OnLine' = OnLine \cup {c.w : c \in copies}
        BY <2>1, <2>3, LineAppend
      <3>2. QED
        BY <2>1, <2>3, <3>1 DEF NoWriteLost, OnLine
    <2>4. QED
      BY <2>1, <2>2, <2>3 DEF NoWriteLost
  <1>28. CASE MarkLost
    BY <1>28 DEF MarkLost, NoWriteLost
  <1>29. CASE GpuComplete
    <2>1. WritesStay
      BY <1>29, PcTyped, QueueAssumption DEF GpuComplete, LockInv, InSubmission,
         HandInv, WritesStay
    <2>2. QED
      BY <2>1, WritesStayKept
  <1>30. CASE UNCHANGED vars
    <2>1. WritesStay
      BY <1>30, PcTyped, QueueAssumption DEF vars, LockInv, InSubmission, HandInv,
         WritesStay
    <2>2. QED
      BY <2>1, WritesStayKept
  <1>31. QED
    BY <1>1, <1>2, <1>3, <1>4, <1>5, <1>6, <1>7, <1>8, <1>9, <1>10, <1>11, <1>12, <1>13,
       <1>14, <1>15, <1>16, <1>17, <1>18, <1>19, <1>20, <1>21, <1>22, <1>23, <1>24, <1>25,
       <1>26, <1>27, <1>28, <1>29, <1>30
    DEF Next, Step, Finished

\* The order is kept by a submission that keeps it itself.
LEMMA OrderAppend ==
  ASSUME TypeOK, QueueOrder, ~failed, NEW s, gpu' = Append(gpu, s), accepted' = accepted,
         s.cmds # {} => \A w \in accepted : w < s.after <=> w \in OnLine'
  PROVE  QueueOrder'
  <1>1. /\ DOMAIN gpu' = 1 .. (Len(gpu) + 1) /\ DOMAIN gpu = 1 .. Len(gpu)
        /\ Len(gpu) \in Nat /\ gpu'[Len(gpu) + 1] = s
        /\ \A i \in 1 .. Len(gpu) : gpu'[i] = gpu[i]
    BY TimelineDomain
  <1>2. Len(gpu') = Len(gpu) + 1
    BY TimelineGrows
  <1>3. ASSUME NEW i \in DOMAIN gpu', gpu'[i].cmds # {}, NEW w \in accepted'
        PROVE  w < gpu'[i].after <=> w \in WritesUpTo(i)'
    <2>1. CASE i \in 1 .. Len(gpu)
      <3>1. WritesUpTo(i)' = WritesUpTo(i)
        BY <1>1, <2>1, WritesAppend
      <3>2. gpu'[i] = gpu[i] /\ i \in DOMAIN gpu
        BY <1>1, <2>1
      <3>3. QED
        BY <1>3, <3>1, <3>2 DEF QueueOrder
    <2>2. CASE i = Len(gpu')
      <3>1. gpu'[i] = s /\ WritesUpTo(i)' = OnLine'
        BY <1>1, <1>2, <2>2 DEF OnLine
      <3>2. QED
        BY <1>3, <3>1
    <2>3. QED
      BY <1>1, <1>2, <2>1, <2>2
  <1>4. QED
    BY <1>3 DEF QueueOrder

\* No step puts a write on the wrong side of a submit.
LEMMA OrderNext ==
  ASSUME TypeOK, LockInv, LossInv, NumberInv, CommandInv, NoWriteLost, QueueOrder, [Next]_vars
  PROVE  QueueOrder'
  <1> USE DEF Goto
  <1>1. ASSUME NEW t \in Threads, BeginLocked(t) PROVE QueueOrder'
    <2>1. UNCHANGED <<gpu, accepted>> /\ (failed' \/ failed' = failed)
      BY <1>1 DEF BeginLocked, Begin
    <2>2. QED
      BY <2>1, WritesSame DEF QueueOrder
  <1>2. ASSUME NEW t \in Threads, BeginPoll(t) PROVE QueueOrder'
    <2>1. UNCHANGED <<gpu, accepted>> /\ (failed' \/ failed' = failed)
      BY <1>2 DEF BeginPoll, Begin
    <2>2. QED
      BY <2>1, WritesSame DEF QueueOrder
  <1>3. ASSUME NEW t \in Threads, BeginWaitFor(t) PROVE QueueOrder'
    <2>1. UNCHANGED <<gpu, accepted>> /\ (failed' \/ failed' = failed)
      BY <1>3 DEF BeginWaitFor, Begin
    <2>2. QED
      BY <2>1, WritesSame DEF QueueOrder
  <1>4. ASSUME NEW t \in Threads, Enter(t) PROVE QueueOrder'
    <2>1. UNCHANGED <<gpu, accepted>> /\ (failed' \/ failed' = failed)
      BY <1>4 DEF Enter
    <2>2. QED
      BY <2>1, WritesSame DEF QueueOrder
  <1>5. ASSUME NEW t \in Threads, Validate(t) PROVE QueueOrder'
    <2>1. UNCHANGED <<gpu, accepted>> /\ (failed' \/ failed' = failed)
      BY <1>5 DEF Validate
    <2>2. QED
      BY <2>1, WritesSame DEF QueueOrder
  <1>6. ASSUME NEW t \in Threads, PollHal(t) PROVE QueueOrder'
    <2>1. UNCHANGED <<gpu, accepted>> /\ (failed' \/ failed' = failed)
      BY <1>6 DEF PollHal
    <2>2. QED
      BY <2>1, WritesSame DEF QueueOrder
  <1>7. ASSUME NEW t \in Threads, Recycle(t) PROVE QueueOrder'
    <2>1. UNCHANGED <<gpu, accepted>> /\ (failed' \/ failed' = failed)
      BY <1>7 DEF Recycle
    <2>2. QED
      BY <2>1, WritesSame DEF QueueOrder
  <1>8. ASSUME NEW t \in Threads, StageWrite(t) PROVE QueueOrder'
    <2>1. /\ gpu' = gpu /\ failed' = failed
          /\ \E c \in NewCopies : accepted' = accepted \cup {c.w}
      BY <1>8 DEF StageWrite
    <2>2. accepted' = accepted \cup {next_write}
      BY <2>1 DEF NewCopies
    <2>3. ASSUME NEW i \in DOMAIN gpu
          PROVE  ~(next_write < gpu[i].after) /\ next_write \notin WritesUpTo(i)
      <3>1. ~(next_write < gpu[i].after)
        BY NumberTyped DEF NumberInv
      <3>2. \A j \in 1 .. i : j \in DOMAIN gpu
        BY TimelineDomain
      <3>3. \A j \in DOMAIN gpu : \A c \in gpu[j].copies : c.w # next_write
        BY NumberTyped DEF NumberInv
      <3>4. QED
        BY <3>1, <3>2, <3>3 DEF WritesUpTo
    <2>4. QED
      BY <2>1, <2>2, <2>3, WritesSame DEF QueueOrder
  <1>9. ASSUME NEW t \in Threads, StageWriteFails(t) PROVE QueueOrder'
    <2>1. UNCHANGED <<gpu, accepted>> /\ (failed' \/ failed' = failed)
      BY <1>9 DEF StageWriteFails
    <2>2. QED
      BY <2>1, WritesSame DEF QueueOrder
  <1>10. ASSUME NEW t \in Threads, CheckThreshold(t) PROVE QueueOrder'
    <2>1. UNCHANGED <<gpu, accepted>> /\ (failed' \/ failed' = failed)
      BY <1>10 DEF CheckThreshold
    <2>2. QED
      BY <2>1, WritesSame DEF QueueOrder
  <1>11. ASSUME NEW t \in Threads, Take(t) PROVE QueueOrder'
    <2>1. UNCHANGED <<gpu, accepted>> /\ (failed' \/ failed' = failed)
      BY <1>11 DEF Take
    <2>2. QED
      BY <2>1, WritesSame DEF QueueOrder
  <1>12. ASSUME NEW t \in Threads, LowerTake(t) PROVE QueueOrder'
    <2>1. UNCHANGED <<gpu, accepted>> /\ (failed' \/ failed' = failed)
      BY <1>12 DEF LowerTake
    <2>2. QED
      BY <2>1, WritesSame DEF QueueOrder
  <1>13. ASSUME NEW t \in Threads, LowerWrite(t) PROVE QueueOrder'
    <2>1. UNCHANGED <<gpu, accepted>> /\ (failed' \/ failed' = failed)
      BY <1>13 DEF LowerWrite
    <2>2. QED
      BY <2>1, WritesSame DEF QueueOrder
  <1>14. ASSUME NEW t \in Threads, LowerDone(t) PROVE QueueOrder'
    <2>1. UNCHANGED <<gpu, accepted>> /\ (failed' \/ failed' = failed)
      BY <1>14 DEF LowerDone
    <2>2. QED
      BY <2>1, WritesSame DEF QueueOrder
  <1>15. ASSUME NEW t \in Threads, LowerError(t) PROVE QueueOrder'
    <2>1. UNCHANGED <<gpu, accepted>> /\ (failed' \/ failed' = failed)
      BY <1>15 DEF LowerError
    <2>2. QED
      BY <2>1, WritesSame DEF QueueOrder
  <1>16. ASSUME NEW t \in Threads, LowerAbort(t) PROVE QueueOrder'
    <2>1. UNCHANGED <<gpu, accepted>> /\ (failed' \/ failed' = failed)
      BY <1>16 DEF LowerAbort
    <2>2. QED
      BY <2>1, WritesSame DEF QueueOrder
  <1>17. ASSUME NEW t \in Threads, HalSubmit(t) PROVE QueueOrder'
    <2>1. /\ gpu' = Append(gpu, Submission(TRUE)) /\ UNCHANGED <<accepted, failed>>
          /\ Submission(TRUE).copies = taken \cup encoded
          /\ Submission(TRUE).cmds = cmds /\ Submission(TRUE).after = after
          /\ pc[t] = "hal" /\ submission = t
      BY <1>17 DEF HalSubmit, Submission, LockInv, InSubmission
    <2>2. OnLine' = OnLine \cup {c.w : c \in taken \cup encoded}
      BY <2>1, LineAppend
    <2>3. copies = {} /\ ~lost
      BY <2>1, QueueAssumption DEF CommandInv, LossInv
    <2>4. ~failed => \A w \in accepted : w \in OnLine'
      BY <2>2, <2>3 DEF NoWriteLost, OnLine
    <2>5. cmds # {} => \A w \in accepted : w < after
      BY DEF CommandInv
    <2>6. CASE ~failed
      BY <2>1, <2>4, <2>5, <2>6, OrderAppend
    <2>7. CASE failed
      BY <2>1, <2>7 DEF QueueOrder
    <2>8. QED
      BY <2>6, <2>7
  <1>18. ASSUME NEW t \in Threads, HalSubmitFails(t) PROVE QueueOrder'
    BY <1>18 DEF HalSubmitFails, QueueOrder
  <1>19. ASSUME NEW t \in Threads, RecordSubmission(t) PROVE QueueOrder'
    <2>1. UNCHANGED <<gpu, accepted>> /\ (failed' \/ failed' = failed)
      BY <1>19 DEF RecordSubmission
    <2>2. QED
      BY <2>1, WritesSame DEF QueueOrder
  <1>20. ASSUME NEW t \in Threads, RetireChunks(t) PROVE QueueOrder'
    <2>1. UNCHANGED <<gpu, accepted>> /\ (failed' \/ failed' = failed)
      BY <1>20 DEF RetireChunks
    <2>2. QED
      BY <2>1, WritesSame DEF QueueOrder
  <1>21. ASSUME NEW t \in Threads, RetireUnread(t) PROVE QueueOrder'
    <2>1. UNCHANGED <<gpu, accepted>> /\ (failed' \/ failed' = failed)
      BY <1>21 DEF RetireUnread
    <2>2. QED
      BY <2>1, WritesSame DEF QueueOrder
  <1>22. ASSUME NEW t \in Threads, Snapshot(t) PROVE QueueOrder'
    <2>1. UNCHANGED <<gpu, accepted>> /\ (failed' \/ failed' = failed)
      BY <1>22 DEF Snapshot
    <2>2. QED
      BY <2>1, WritesSame DEF QueueOrder
  <1>23. ASSUME NEW t \in Threads, WaitBegin(t) PROVE QueueOrder'
    <2>1. UNCHANGED <<gpu, accepted>> /\ (failed' \/ failed' = failed)
      BY <1>23 DEF WaitBegin
    <2>2. QED
      BY <2>1, WritesSame DEF QueueOrder
  <1>24. ASSUME NEW t \in Threads, Wait(t) PROVE QueueOrder'
    <2>1. UNCHANGED <<gpu, accepted>> /\ (failed' \/ failed' = failed)
      BY <1>24 DEF Wait
    <2>2. QED
      BY <2>1, WritesSame DEF QueueOrder
  <1>25. ASSUME NEW t \in Threads, WaitFails(t) PROVE QueueOrder'
    <2>1. UNCHANGED <<gpu, accepted>> /\ (failed' \/ failed' = failed)
      BY <1>25 DEF WaitFails
    <2>2. QED
      BY <2>1, WritesSame DEF QueueOrder
  <1>26. ASSUME NEW t \in Threads, DropWait(t) PROVE QueueOrder'
    <2>1. UNCHANGED <<gpu, accepted>> /\ (failed' \/ failed' = failed)
      BY <1>26 DEF DropWait
    <2>2. QED
      BY <2>1, WritesSame DEF QueueOrder
  <1>27. ASSUME NEW t \in Threads, Drop(t) PROVE QueueOrder'
    <2>1. /\ \/ gpu' = gpu /\ failed' = failed
             \/ gpu' = Append(gpu, Rest(TRUE)) /\ failed' = failed
             \/ failed' = TRUE
          /\ accepted' = accepted /\ Rest(TRUE).cmds = {}
      BY <1>27 DEF Drop, Rest
    <2>2. CASE failed'
      BY <2>2 DEF QueueOrder
    <2>3. CASE gpu' = gpu /\ failed' = failed
      BY <2>1, <2>3, WritesSame DEF QueueOrder
    <2>4. CASE gpu' = Append(gpu, Rest(TRUE)) /\ ~failed
      BY <2>1, <2>4, OrderAppend
    <2>5. CASE failed /\ failed' = failed
      BY <2>5 DEF QueueOrder
    <2>6. failed' = TRUE => QueueOrder'
      BY <2>2
    <2>7. QED
      BY <2>1, <2>3, <2>4, <2>5, <2>6, Zenon
  <1>28. CASE MarkLost
    <2>1. UNCHANGED <<gpu, accepted>> /\ (failed' \/ failed' = failed)
      BY <1>28 DEF MarkLost
    <2>2. QED
      BY <2>1, WritesSame DEF QueueOrder
  <1>29. CASE GpuComplete
    <2>1. UNCHANGED <<gpu, accepted>> /\ (failed' \/ failed' = failed)
      BY <1>29 DEF GpuComplete
    <2>2. QED
      BY <2>1, WritesSame DEF QueueOrder
  <1>30. CASE UNCHANGED vars
    <2>1. UNCHANGED <<gpu, accepted>> /\ (failed' \/ failed' = failed)
      BY <1>30 DEF vars
    <2>2. QED
      BY <2>1, WritesSame DEF QueueOrder
  <1>31. QED
    BY <1>1, <1>2, <1>3, <1>4, <1>5, <1>6, <1>7, <1>8, <1>9, <1>10, <1>11, <1>12, <1>13,
       <1>14, <1>15, <1>16, <1>17, <1>18, <1>19, <1>20, <1>21, <1>22, <1>23, <1>24, <1>25,
       <1>26, <1>27, <1>28, <1>29, <1>30
    DEF Next, Step, Finished

BookInv == IInv /\ LossInv /\ CoverInv /\ OrderInv

LEMMA OrderInit == Init => OrderInv
  <1> SUFFICES ASSUME Init PROVE OrderInv
    OBVIOUS
  <1>1. NumberInv /\ CommandInv /\ MarkInv /\ DrainInv
    BY QueueAssumption DEF Init, NumberInv, CommandInv, MarkInv, DrainInv
  <1>2. NoWriteLost /\ QueueOrder /\ CommandsRunOnce
    BY DEF Init, NoWriteLost, QueueOrder, CommandsRunOnce
  <1>3. QED
    BY <1>1, <1>2 DEF OrderInv

\* The invariant of the write numbers, the marks and the drop is inductive on top of
\* the control and staging invariants.
THEOREM Bookkeeping == Spec => []BookInv
  <1>1. Init => BookInv
    BY InvInit, ControlInit, OrderInit DEF BookInv, ControlInv
  <1>2. BookInv /\ [Next]_vars => BookInv'
    <2>1. SUFFICES ASSUME BookInv, [Next]_vars PROVE BookInv'
      OBVIOUS
    <2>2. IInv' /\ LossInv' /\ CoverInv'
      BY <2>1, InvNext, LossNext, CoverNext DEF BookInv, IInv
    <2>3. NumberInv' /\ CommandInv' /\ MarkInv' /\ DrainInv'
      BY <2>1, NumberNext, CommandNext, MarkNext, DrainNext DEF BookInv, IInv, OrderInv
    <2>4. NoWriteLost' /\ QueueOrder' /\ CommandsRunOnce'
      BY <2>1, KeptNext, OrderNext, OnceNext DEF BookInv, IInv, OrderInv
    <2>5. QED
      BY <2>2, <2>3, <2>4 DEF BookInv, OrderInv
  <1>3. QED
    BY <1>1, <1>2, PTL DEF Spec

\* The GPU timeline has the order of the calls: the writes accepted before a submit
\* come no later than its command buffers and the later ones after them, whichever
\* thread flushed them, as long as the HAL has not failed.
THEOREM TimelineInOrder == Spec => []QueueOrder
  <1>1. BookInv => QueueOrder
    BY DEF BookInv, OrderInv
  <1>2. QED
    BY <1>1, Bookkeeping, PTL

\* An accepted write is pending, in a submission under way or on the timeline: a
\* rejected submit, a failed staging or an aborted lowering drops none.
THEOREM WritesAreKept == Spec => []NoWriteLost
  <1>1. BookInv => NoWriteLost
    BY DEF BookInv, OrderInv
  <1>2. QED
    BY <1>1, Bookkeeping, PTL

\* A command buffer is on the timeline once at most, however submits of it race.
THEOREM SubmittedOnce == Spec => []CommandsRunOnce
  <1>1. BookInv => CommandsRunOnce
    BY DEF BookInv, OrderInv
  <1>2. QED
    BY <1>1, Bookkeeping, PTL

\* The drop of the queue returns when all that was accepted has completed.
THEOREM DropWaits == Spec => []DropDrains
  <1>1. ASSUME BookInv PROVE DropDrains
    <2>1. SUFFICES ASSUME dropped, ~failed, \A t \in Threads : pc[t] = "idle"
                   PROVE  LiveCopies = {}
      BY DEF DropDrains
    <2>2. copies = {} /\ done = Len(gpu)
      BY <1>1, <2>1 DEF BookInv, OrderInv, DrainInv
    <2>3. taken = {} /\ encoded = {}
      BY <1>1, <2>1 DEF BookInv, IInv, HandInv
    <2>4. Len(gpu) \in Nat
      BY <1>1, TimelineTyped DEF BookInv, IInv
    <2>5. (done + 1) .. Len(gpu) = {}
      BY <2>2, <2>4
    <2>6. QED
      BY <2>2, <2>3, <2>5 DEF LiveCopies, LiveOnGpu
  <1>2. QED
    BY <1>1, Bookkeeping, PTL
=============================================================================
