-------------------------- MODULE CancellableThread --------------------------
(***************************************************************************)
(* glstreamer::CancellableThread: a thread (the target) whose blocking     *)
(* system calls other threads interrupt with cancel().                     *)
(*                                                                         *)
(* Each system call is wrapped in cancel_point: enter_syscall announces    *)
(* it, leave_syscall retracts that, and a call that fails with EINTR goes  *)
(* through check_cancel.  cancel() marks the target and, if the target is  *)
(* in a system call, sends it SIGUSR1 and waits on cond_handled for an     *)
(* answer, repeating the signal every second: a signal that arrives before *)
(* the call blocks has no effect.                                          *)
(*                                                                         *)
(* The two bits of cancel_state are changed by atomic instructions only.   *)
(* The target's run() stands for any loop of system calls inside a         *)
(* CancellationEnabler, such as Demuxer::run: before the enabler and after *)
(* it, cancel_point is transparent.                                        *)
(***************************************************************************)
EXTENDS Integers

CONSTANT Cancellers  \* the threads that call cancel(), once each

VARIABLES
    entering,    \* bit ENTERING_SYSCALL of cancel_state
    marked,      \* bit CANCEL_MARKED of cancel_state
    signal,      \* SIGUSR1 is pending for the target
    cancelling,  \* the cancellers that hold the mutex cancelling (at most one)
    inprogress,  \* the cancellers that hold mutex_inprogress (at most one)
    waiting,     \* the cancellers that wait on cond_handled
    target,      \* where the target is
    canceller,   \* where each canceller is
    seen,        \* the target has found CANCEL_MARKED set
    woken        \* a wait has returned without notification or timeout

state == <<entering, marked>>
mutexes == <<cancelling, inprogress, waiting>>
history == <<seen, woken>>
vars == <<state, signal, mutexes, target, canceller, history>>

Init ==
    /\ entering = FALSE /\ marked = FALSE
    /\ signal = FALSE
    /\ cancelling = {} /\ inprogress = {} /\ waiting = {}
    /\ target = "enable"
    /\ canceller = [c \in Cancellers |-> "idle"]
    /\ seen = FALSE /\ woken = FALSE

----------------------------------------------------------------------------
(* The target. *)

\* CancellationEnabler's constructor.
Enable ==
    /\ target = "enable"
    /\ target' = "run"
    /\ UNCHANGED <<state, signal, mutexes, canceller, history>>

\* (fault) __sync_fetch_and_and with the mask of EnterThrows.
ClearBoth == entering' = FALSE /\ marked' = FALSE

\* __sync_fetch_and_and(&cancel_state, ~ENTERING_SYSCALL)
ClearEntering == entering' = FALSE /\ UNCHANGED marked

\* enter_syscall sets ENTERING_SYSCALL and looks at the old CANCEL_MARKED.
EnterSyscall ==
    /\ target = "run"
    /\ entering' = TRUE
    /\ target' = IF marked THEN "enterCancelled" ELSE "entered"
    /\ seen' = (seen \/ marked)
    /\ UNCHANGED <<woken, marked, signal, mutexes, canceller>>

\* It was set: both bits are cleared and CancelException is thrown.
EnterThrows ==
    /\ target = "enterCancelled"
    /\ entering' = FALSE /\ marked' = FALSE
    /\ target' = "thrown"
    /\ UNCHANGED <<signal, mutexes, canceller, history>>

\* The call itself, which may block for ever.
Block ==
    /\ target = "entered"
    /\ target' = "syscall"
    /\ UNCHANGED <<state, signal, mutexes, canceller, history>>

\* What the call waits for happens.
Complete ==
    /\ target = "syscall"
    /\ target' = "leave"
    /\ UNCHANGED <<state, signal, mutexes, canceller, history>>

\* The pending signal is delivered: empty_handler runs, and a blocked call
\* fails with EINTR.
DeliverSignal ==
    /\ signal
    /\ signal' = FALSE
    /\ target' = IF target = "syscall" THEN "check" ELSE target
    /\ UNCHANGED <<state, mutexes, canceller, history>>

\* Another signal the program handles makes the call fail with EINTR.
Interrupt ==
    /\ target = "syscall"
    /\ target' = "check"
    /\ UNCHANGED <<state, signal, mutexes, canceller, history>>

\* cond_handled.notify_one() under mutex_inprogress.
Notify ==
    /\ inprogress = {}
    /\ IF waiting = {} THEN UNCHANGED <<waiting, canceller>>
       ELSE \E c \in waiting :
              /\ waiting' = waiting \ {c}
              /\ canceller' = [canceller EXCEPT ![c] = "notified"]

\* (fault) Every EINTR is taken for a cancellation.
CheckThrowsAlways ==
    /\ target = "check"
    /\ Notify
    /\ entering' = FALSE /\ marked' = FALSE
    /\ seen' = TRUE
    /\ target' = "thrown"
    /\ UNCHANGED <<woken, signal, cancelling, inprogress>>

\* check_cancel answers a canceller and throws ...
CheckThrows ==
    /\ target = "check"
    /\ marked
    /\ Notify
    /\ entering' = FALSE /\ marked' = FALSE
    /\ seen' = TRUE
    /\ target' = "thrown"
    /\ UNCHANGED <<woken, signal, cancelling, inprogress>>

\* ... or lets cancel_point repeat the call.
CheckRetries ==
    /\ target = "check"
    /\ ~marked
    /\ target' = "entered"
    /\ UNCHANGED <<state, signal, mutexes, canceller, history>>

\* leave_syscall clears ENTERING_SYSCALL and looks at CANCEL_MARKED.
LeaveSyscall ==
    /\ target = "leave"
    /\ ClearEntering
    /\ target' = IF marked THEN "leaveCancelled" ELSE "run"
    /\ seen' = (seen \/ marked)
    /\ UNCHANGED <<woken, signal, mutexes, canceller>>

\* It was set: a canceller is answered.  The mark stays for the next
\* enter_syscall.
LeaveNotifies ==
    /\ target = "leaveCancelled"
    /\ Notify
    /\ target' = "run"
    /\ UNCHANGED <<state, signal, cancelling, inprogress, history>>

\* run() may end by itself.  disable_cancellation clears the mark; the
\* CancelException it throws is swallowed by ~CancellationEnabler.
Disable ==
    /\ target \in {"run", "thrown"}
    /\ marked' = FALSE
    /\ target' = "finished"
    /\ UNCHANGED <<entering, signal, mutexes, canceller, history>>

----------------------------------------------------------------------------
(* cancel() *)

\* The mark.  If it was set already, or the target is in no system call,
\* there is nothing to wait for.
Mark(c) ==
    /\ canceller[c] = "idle"
    /\ marked' = TRUE
    /\ canceller' = [canceller EXCEPT
                        ![c] = IF marked \/ ~entering THEN "returned" ELSE "lock"]
    /\ UNCHANGED <<entering, signal, mutexes, target, history>>

Lock(c) ==
    /\ canceller[c] = "lock"
    /\ cancelling = {} /\ inprogress = {}
    /\ cancelling' = {c} /\ inprogress' = {c}
    /\ canceller' = [canceller EXCEPT ![c] = "kill"]
    /\ UNCHANGED <<state, signal, waiting, target, history>>

\* pthread_kill, then wait_for, which releases mutex_inprogress.  A thread
\* that has ended ignores the signal.
Kill(c) ==
    /\ canceller[c] = "kill"
    /\ signal' = (target # "finished")
    /\ inprogress' = {}
    /\ waiting' = waiting \cup {c}
    /\ canceller' = [canceller EXCEPT ![c] = "wait"]
    /\ UNCHANGED <<state, cancelling, target, history>>

\* (fault) wait in place of wait_for, or a timeout taken for an answer.
TimeoutNever(c) == FALSE /\ UNCHANGED vars

TimeoutAnswers(c) ==
    /\ canceller[c] = "wait"
    /\ waiting' = waiting \ {c}
    /\ canceller' = [canceller EXCEPT ![c] = "notified"]
    /\ UNCHANGED <<state, signal, cancelling, inprogress, target, history>>

\* A second has passed: the loop is repeated.
Timeout(c) ==
    /\ canceller[c] = "wait"
    /\ inprogress = {}
    /\ waiting' = waiting \ {c}
    /\ inprogress' = {c}
    /\ canceller' = [canceller EXCEPT ![c] = "kill"]
    /\ UNCHANGED <<state, signal, cancelling, target, history>>

SpuriousWakeup(c) ==
    /\ canceller[c] = "wait"
    /\ woken' = TRUE
    /\ waiting' = waiting \ {c}
    /\ canceller' = [canceller EXCEPT ![c] = "notified"]
    /\ UNCHANGED <<state, signal, cancelling, inprogress, target, seen>>

\* (fault) An early return keeps the mutex cancelling.
ReturnLocked(c) ==
    /\ canceller[c] = "notified"
    /\ canceller' = [canceller EXCEPT ![c] = "returned"]
    /\ UNCHANGED <<state, signal, mutexes, target, history>>

\* wait_for has returned no_timeout: the mutexes are released.
Return(c) ==
    /\ canceller[c] = "notified"
    /\ inprogress = {}
    /\ cancelling' = {}
    /\ canceller' = [canceller EXCEPT ![c] = "returned"]
    /\ UNCHANGED <<state, signal, inprogress, waiting, target, history>>

----------------------------------------------------------------------------

\* What the target does without the help of others.
TargetRuns ==
    \/ Enable \/ EnterSyscall \/ EnterThrows \/ Block
    \/ CheckThrows \/ CheckRetries \/ LeaveSyscall \/ LeaveNotifies
    \/ target = "thrown" /\ Disable

Cancel(c) == Mark(c) \/ Lock(c) \/ Kill(c) \/ Timeout(c) \/ Return(c)

Next ==
    \/ TargetRuns \/ Complete \/ Interrupt \/ Disable \/ DeliverSignal
    \/ \E c \in Cancellers : Cancel(c) \/ SpuriousWakeup(c)

Spec == Init /\ [][Next]_vars

\* The target and the cancellers run whenever they can, and signals arrive.
\* The target may have to wait for mutex_inprogress, which a canceller gives
\* up for a second at a time: it gets it.  A system call need never complete,
\* nor run() end by itself.
FairSpec ==
    /\ Spec
    /\ SF_vars(TargetRuns)
    /\ WF_vars(DeliverSignal)
    /\ \A c \in Cancellers : WF_vars(Cancel(c))

----------------------------------------------------------------------------
(* Properties. *)

TypeOK ==
    /\ {entering, marked, signal, seen, woken} \subseteq BOOLEAN
    /\ {inprogress, waiting} \subseteq SUBSET Cancellers
    /\ cancelling = {c \in Cancellers : canceller[c] \in {"kill", "wait", "notified"}}
    /\ \A c, d \in cancelling : c = d
    /\ target \in {"enable", "run", "enterCancelled", "entered", "syscall",
                   "check", "leave", "leaveCancelled", "thrown", "finished"}
    /\ canceller \in [Cancellers -> {"idle", "lock", "kill", "wait",
                                     "notified", "returned"}]

\* No cancellation is lost: from the moment a thread has marked the target,
\* the target is marked or is on its way out.
CancelNotLost ==
    (\E c \in Cancellers : canceller[c] # "idle") =>
        marked \/ target \in {"thrown", "finished"}

\* CancelException is thrown only in a thread that somebody cancels.
OnlyWhenCancelled ==
    target = "thrown" => \E c \in Cancellers : canceller[c] # "idle"

\* A cancel() whose wait was answered returns only when the target has found
\* the mark and left the system call.
AnswerMeansSeen ==
    \A c \in Cancellers :
        canceller[c] = "notified" => woken \/ (seen /\ target # "syscall")

\* A cancelled thread ends, even one whose system call would never complete,
\* and though single signals may arrive too early to interrupt the call.  The
\* exception is a wait that returns by itself: cancel() takes that for an
\* answer and stops sending signals.
TargetEnds ==
    <>woken \/ ((\E c \in Cancellers : canceller[c] # "idle")
                    ~> (target = "finished"))

\* cancel() returns.
CancelReturns ==
    \A c \in Cancellers : (canceller[c] # "idle") ~> (canceller[c] = "returned")
============================================================================
