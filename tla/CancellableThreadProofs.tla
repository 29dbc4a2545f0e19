---------------------- MODULE CancellableThreadProofs ----------------------
(***************************************************************************)
(* The safety of CancellableThread for any set of cancellers.              *)
(***************************************************************************)
EXTENDS CancellableThread, TLAPS

\* Some thread has called cancel() and got as far as the mark.
Cancelled == \E c \in Cancellers : canceller[c] # "idle"

\* The mark is set by cancel() only, and so is what the target makes of it.
MarkHasCause == marked \/ target = "enterCancelled" => Cancelled

\* The target answers only after it has found the mark.
AnswerHasCause == target = "leaveCancelled" => seen

\* An answered canceller finds the target outside the system call, and as the
\* mark stays set the target does not get into another one.
AnsweredStaysOut ==
    \A c \in Cancellers :
        canceller[c] = "notified" =>
            woken \/ (seen /\ target \in {"run", "enterCancelled", "thrown",
                                          "finished"})

\* Who is in the condition variable's queue is in wait_for.
WaitersWait == \A c \in waiting : canceller[c] = "wait"

\* What is shown to be inductive.
IInv ==
    /\ TypeOK
    /\ WaitersWait
    /\ CancelNotLost
    /\ OnlyWhenCancelled
    /\ MarkHasCause
    /\ AnswerHasCause
    /\ AnsweredStaysOut

\* What the notification of a canceller changes.
LEMMA NotifyIs ==
    ASSUME TypeOK, WaitersWait, Notify
    PROVE  /\ waiting' \in SUBSET Cancellers
           /\ canceller' \in [Cancellers -> {"idle", "lock", "kill", "wait",
                                             "notified", "returned"}]
           /\ WaitersWait'
           /\ \A c \in Cancellers :
                 canceller'[c] \in {"kill", "wait", "notified"}
                     <=> canceller[c] \in {"kill", "wait", "notified"}
           /\ \A c \in Cancellers : canceller'[c] = "idle" <=> canceller[c] = "idle"
<1>1. CASE waiting = {}
  BY <1>1 DEF TypeOK, WaitersWait, Notify
<1>2. CASE waiting # {}
  <2>1. PICK c \in waiting :
           /\ waiting' = waiting \ {c}
           /\ canceller' = [canceller EXCEPT ![c] = "notified"]
    BY <1>2 DEF Notify
  <2>2. c \in Cancellers /\ canceller[c] = "wait"
    BY DEF TypeOK, WaitersWait
  <2> QED
    BY <2>1, <2>2 DEF TypeOK, WaitersWait
<1> QED
  BY <1>1, <1>2

\* Every step keeps the types, and only cancellers in wait wait on cond_handled.
LEMMA TypeOKStep ==
    ASSUME TypeOK, WaitersWait, [Next]_vars
    PROVE  TypeOK' /\ WaitersWait'
<1> USE DEF TypeOK, WaitersWait
<1>1. CASE TargetRuns
  <2>1. CASE Enable
    BY <2>1 DEF Enable, state, mutexes, history
  <2>2. CASE EnterSyscall
    BY <2>2 DEF EnterSyscall, mutexes
  <2>3. CASE EnterThrows
    BY <2>3 DEF EnterThrows, mutexes, history
  <2>4. CASE Block
    BY <2>4 DEF Block, state, mutexes, history
  <2>5. CASE CheckThrows
    BY <2>5, NotifyIs DEF CheckThrows
  <2>6. CASE CheckRetries
    BY <2>6 DEF CheckRetries, state, mutexes, history
  <2>7. CASE LeaveSyscall
    BY <2>7 DEF LeaveSyscall, ClearEntering, mutexes
  <2>8. CASE LeaveNotifies
    BY <2>8, NotifyIs DEF LeaveNotifies, state, history
  <2>9. CASE Disable
    BY <2>9 DEF Disable, mutexes, history
  <2> QED
    BY <1>1, <2>1, <2>2, <2>3, <2>4, <2>5, <2>6, <2>7, <2>8, <2>9
    DEF TargetRuns
<1>2. CASE Complete
  BY <1>2 DEF Complete, state, mutexes, history
<1>3. CASE Interrupt
  BY <1>3 DEF Interrupt, state, mutexes, history
<1>4. CASE Disable
  BY <1>4 DEF Disable, mutexes, history
<1>5. CASE DeliverSignal
  BY <1>5 DEF DeliverSignal, state, mutexes, history
<1>6. ASSUME NEW c \in Cancellers, Cancel(c)
      PROVE  TypeOK' /\ WaitersWait'
  <2>1. CASE Mark(c)
    BY <2>1 DEF Mark, mutexes, history
  <2>2. CASE Lock(c)
    BY <2>2 DEF Lock, state, history
  <2>3. CASE Kill(c)
    BY <2>3 DEF Kill, state, history
  <2>4. CASE Timeout(c)
    BY <2>4 DEF Timeout, state, history
  <2>5. CASE Return(c)
    BY <2>5 DEF Return, state, history
  <2> QED
    BY <1>6, <2>1, <2>2, <2>3, <2>4, <2>5 DEF Cancel
<1>7. ASSUME NEW c \in Cancellers, SpuriousWakeup(c)
      PROVE  TypeOK' /\ WaitersWait'
  BY <1>7 DEF SpuriousWakeup, state
<1>8. CASE UNCHANGED vars
  BY <1>8 DEF vars, state, mutexes, history
<1> QED
  BY <1>1, <1>2, <1>3, <1>4, <1>5, <1>6, <1>7, <1>8 DEF Next

----------------------------------------------------------------------------
(* The inductive invariant. *)

\* Nobody has called cancel() at the start.
LEMMA InitIInv == Init => IInv
BY DEF Init, IInv, TypeOK, WaitersWait, CancelNotLost, OnlyWhenCancelled,
       MarkHasCause, AnswerHasCause, AnsweredStaysOut, Cancelled

\* The conjuncts of IInv about what target and cancellers know of each other.
Knowledge ==
    /\ CancelNotLost
    /\ OnlyWhenCancelled
    /\ MarkHasCause
    /\ AnswerHasCause
    /\ AnsweredStaysOut

\* A step of the target that notifies nobody.
LEMMA TargetKnowledge ==
    ASSUME IInv,
           \/ Enable \/ EnterSyscall \/ EnterThrows \/ Block \/ CheckRetries
           \/ LeaveSyscall \/ Complete \/ Interrupt \/ Disable \/ DeliverSignal
    PROVE  Knowledge'
<1> USE DEF IInv, Knowledge, CancelNotLost, OnlyWhenCancelled, MarkHasCause,
            AnswerHasCause, AnsweredStaysOut, Cancelled
<1>1. CASE Enable
  BY <1>1 DEF Enable, state, history
<1>2. CASE EnterSyscall
  BY <1>2 DEF EnterSyscall
<1>3. CASE EnterThrows
  BY <1>3 DEF EnterThrows, history
<1>4. CASE Block
  BY <1>4 DEF Block, state, history
<1>5. CASE CheckRetries
  BY <1>5 DEF CheckRetries, state, history
<1>6. CASE LeaveSyscall
  BY <1>6 DEF LeaveSyscall, ClearEntering
<1>7. CASE Complete
  BY <1>7 DEF Complete, state, history
<1>8. CASE Interrupt
  BY <1>8 DEF Interrupt, state, history
<1>9. CASE Disable
  BY <1>9 DEF Disable, history
<1>10. CASE DeliverSignal
  BY <1>10 DEF DeliverSignal, state, history
<1> QED
  BY <1>1, <1>2, <1>3, <1>4, <1>5, <1>6, <1>7, <1>8, <1>9, <1>10

\* A step of the target that notifies a canceller.
LEMMA AnswerKnowledge ==
    ASSUME IInv, CheckThrows \/ LeaveNotifies
    PROVE  Knowledge'
<1>1. CASE CheckThrows
  <2>1. seen' /\ target' = "thrown" /\ ~marked' /\ marked
    BY <1>1 DEF CheckThrows
  <2>2. Cancelled'
    BY <1>1, <2>1, NotifyIs DEF CheckThrows, IInv, MarkHasCause, Cancelled
  <2> QED
    BY <2>1, <2>2 DEF Knowledge, CancelNotLost, OnlyWhenCancelled,
       MarkHasCause, AnswerHasCause, AnsweredStaysOut, Cancelled
<1>2. CASE LeaveNotifies
  <2>1. /\ target = "leaveCancelled" /\ target' = "run"
        /\ seen /\ seen' /\ marked' = marked
    BY <1>2 DEF LeaveNotifies, state, history, IInv, AnswerHasCause
  <2>2. Cancelled' = Cancelled
    BY <1>2, NotifyIs DEF LeaveNotifies, IInv, Cancelled
  <2> QED
    BY <2>1, <2>2 DEF IInv, Knowledge, CancelNotLost, OnlyWhenCancelled,
       MarkHasCause, AnswerHasCause, AnsweredStaysOut, Cancelled
<1> QED
  BY <1>1, <1>2

\* A step of a canceller.
LEMMA CancellerKnowledge ==
    ASSUME IInv, NEW c \in Cancellers, Cancel(c) \/ SpuriousWakeup(c)
    PROVE  Knowledge'
<1> USE DEF IInv, TypeOK, Knowledge, CancelNotLost, OnlyWhenCancelled,
            MarkHasCause, AnswerHasCause, AnsweredStaysOut, Cancelled
<1>1. CASE Mark(c)
  BY <1>1 DEF Mark, history
<1>2. CASE Lock(c)
  BY <1>2 DEF Lock, state, history
<1>3. CASE Kill(c)
  BY <1>3 DEF Kill, state, history
<1>4. CASE Timeout(c)
  BY <1>4 DEF Timeout, state, history
<1>5. CASE SpuriousWakeup(c)
  BY <1>5 DEF SpuriousWakeup, state
<1>6. CASE Return(c)
  BY <1>6 DEF Return, state, history
<1> QED
  BY <1>1, <1>2, <1>3, <1>4, <1>5, <1>6 DEF Cancel

\* Every step of target and cancellers keeps the invariant.
LEMMA NextIInv == IInv /\ [Next]_vars => IInv'
<1> SUFFICES ASSUME IInv, [Next]_vars PROVE IInv'
  OBVIOUS
<1>1. TypeOK' /\ WaitersWait'
  BY TypeOKStep DEF IInv
<1>2. Knowledge'
  <2>1. CASE TargetRuns \/ Complete \/ Interrupt \/ Disable \/ DeliverSignal
    BY <2>1, TargetKnowledge, AnswerKnowledge DEF TargetRuns
  <2>2. CASE \E c \in Cancellers : Cancel(c) \/ SpuriousWakeup(c)
    BY <2>2, CancellerKnowledge
  <2>3. CASE UNCHANGED vars
    BY <2>3 DEF vars, state, history, IInv, Knowledge, CancelNotLost,
       OnlyWhenCancelled, MarkHasCause, AnswerHasCause, AnsweredStaysOut,
       Cancelled
  <2> QED
    BY <2>1, <2>2, <2>3 DEF Next
<1> QED
  BY <1>1, <1>2 DEF IInv, Knowledge

\* The invariant holds throughout.
LEMMA InvariantHolds == Spec => []IInv
BY InitIInv, NextIInv, PTL DEF Spec

\* The variables keep their types, and the mutex cancelling has at most one
\* holder, who is between the lock and the return of cancel().
THEOREM TypeCorrect == Spec => []TypeOK
<1>1. IInv => TypeOK
  BY DEF IInv
<1> QED
  BY <1>1, InvariantHolds, PTL

\* The mark a cancelling thread has set stays until the target is on its way
\* out, however the target's system calls and other cancellers interleave.
THEOREM CancellationNotLost == Spec => []CancelNotLost
<1>1. IInv => CancelNotLost
  BY DEF IInv
<1> QED
  BY <1>1, InvariantHolds, PTL

\* The target throws CancelException only because of a cancel().
THEOREM NoCancelWithoutCause == Spec => []OnlyWhenCancelled
<1>1. IInv => OnlyWhenCancelled
  BY DEF IInv
<1> QED
  BY <1>1, InvariantHolds, PTL

\* The answer a cancel() waits for is an answer to the mark, and the target
\* is out of its system calls for good when it is given.
THEOREM AnswersAreReal == Spec => []AnswerMeansSeen
<1>1. IInv => AnswerMeansSeen
  BY DEF IInv, AnsweredStaysOut, AnswerMeansSeen
<1> QED
  BY <1>1, InvariantHolds, PTL
=============================================================================
