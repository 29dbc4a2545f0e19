--------------------------- MODULE ThreadedLink ---------------------------
(***************************************************************************)
(* glstreamer::ThreadedLink, the link between an output slot of a          *)
(* processor in one thread and an input slot of a processor in another.    *)
(*                                                                         *)
(* The link owns a ring of QueueSize argument buffers.  Two of them are    *)
(* always lent out: argBuffers[indexIn] is what the producer's slot refers *)
(* to and its run() writes, argBuffers[indexOut] is what the consumer's    *)
(* slot refers to and its run() reads, both without the lock.  push and    *)
(* fetch only move the slots to the next buffer, under queueLock.          *)
(*                                                                         *)
(* The two threads execute Processor::execute in a loop (fetchArgs, run,   *)
(* pushArgs), here NumFrames times, as the repository's tests do.  Writing *)
(* and reading a buffer take two steps each, so that a buffer used by both *)
(* threads at once shows as a torn frame.                                  *)
(***************************************************************************)
EXTENDS Integers, Sequences

CONSTANTS
    QueueSize,  \* constructor argument: number of argument buffers
    NumFrames   \* iterations of the two threads' loops (bounds a run)

\* The constructor accepts any queueSize, but with fewer than 3 buffers
\* currentSize >= queueSize holds from the start and push can never return.
ASSUME ThreadedLinkAssumption ==
    /\ QueueSize \in Nat /\ QueueSize >= 3
    /\ NumFrames \in Nat

Buffers == 0..(QueueSize - 1)

\* The contents of a buffer run() is in the middle of writing.
Torn == -1

VARIABLES
    currentSize,  \* buffers lent out or holding a frame
    indexIn,      \* ring position of the producer's buffer
    indexOut,     \* ring position of the consumer's buffer
    srcArg,       \* src->simpleSlot->arg, as a ring position
    dstArg,       \* dst->simpleSlot->arg, as a ring position
    argBuffers,   \* the frame each buffer holds (0: none yet)
    producer,     \* where the producing thread is
    consumer,     \* where the consuming thread is
    pushed,       \* frames the producer has pushed
    seen          \* the last frame the consumer's run() has read

linkVars == <<currentSize, indexIn, indexOut, srcArg, dstArg>>
vars == <<linkVars, argBuffers, producer, consumer, pushed, seen>>

Init ==
    /\ currentSize = 2
    /\ indexIn = 0
    /\ indexOut = QueueSize - 1
    /\ srcArg = indexIn
    /\ dstArg = indexOut
    /\ argBuffers = [i \in Buffers |-> 0]
    /\ producer = "run"
    /\ consumer = "fetch"
    /\ pushed = 0
    /\ seen = 0

\* (fault) The ring is one buffer too short.
AdvanceShort(index) == (index + 1) % (QueueSize - 1)

Advance(index) == (index + 1) % QueueSize

\* (fault) push overwrites the consumer's buffer.
FullLate == currentSize > QueueSize

\* The condition on which push waits.
Full == currentSize >= QueueSize

\* (fault) fetch goes on to the producer's buffer.
EmptyLate == currentSize = 1

\* The condition on which fetch waits.
Empty == currentSize = 2

\* The number of frames fetched so far: the consumer reads each one it
\* fetches before it fetches the next.
Fetched == pushed - (currentSize - 2)

----------------------------------------------------------------------------
(* The producing thread. *)

\* run() starts to compute a frame into *src->arg ...
BeginWrite ==
    /\ producer = "run"
    /\ pushed < NumFrames
    /\ argBuffers' = [argBuffers EXCEPT ![srcArg] = Torn]
    /\ producer' = "writing"
    /\ UNCHANGED <<linkVars, consumer, pushed, seen>>

\* ... and completes it.
EndWrite ==
    /\ producer = "writing"
    /\ argBuffers' = [argBuffers EXCEPT ![srcArg] = pushed + 1]
    /\ producer' = "push"
    /\ UNCHANGED <<linkVars, consumer, pushed, seen>>

\* condFetch.notify_one() wakes the consumer if it is waiting.
NotifyFetch(wake) ==
    consumer' = IF wake /\ consumer = "waiting" THEN "fetch" ELSE consumer

\* push() with room in the ring.  A mismatch of argument and ring throws
\* InternalError: the thread would stop here.
Push ==
    /\ producer = "push"
    /\ ~Full
    /\ srcArg = indexIn
    /\ indexIn' = Advance(indexIn)
    /\ currentSize' = currentSize + 1
    /\ srcArg' = indexIn'
    /\ NotifyFetch(currentSize' = 3)
    /\ pushed' = pushed + 1
    /\ producer' = "run"
    /\ UNCHANGED <<indexOut, dstArg, argBuffers, seen>>

\* push() on a full ring releases queueLock and waits on condPush.
PushWait ==
    /\ producer = "push"
    /\ Full
    /\ producer' = "waiting"
    /\ UNCHANGED <<linkVars, argBuffers, consumer, pushed, seen>>

\* A condition variable may wake without a notification.
SpuriousPush ==
    /\ producer = "waiting"
    /\ producer' = "push"
    /\ UNCHANGED <<linkVars, argBuffers, consumer, pushed, seen>>

----------------------------------------------------------------------------
(* The consuming thread. *)

\* (fault) fetch does not notify.
NotifyNobody(wake) == UNCHANGED producer

NotifyPush(wake) ==
    producer' = IF wake /\ producer = "waiting" THEN "push" ELSE producer

\* fetch() with a frame in the ring: the slot moves on to it, and the buffer
\* it referred to becomes free for the producer.
Fetch ==
    /\ consumer = "fetch"
    /\ ~Empty
    /\ dstArg = indexOut
    /\ indexOut' = Advance(indexOut)
    /\ currentSize' = currentSize - 1
    /\ dstArg' = indexOut'
    /\ NotifyPush(currentSize' = QueueSize - 1)
    /\ consumer' = "run"
    /\ UNCHANGED <<indexIn, srcArg, argBuffers, pushed, seen>>

\* fetch() on an empty ring waits on condFetch.
FetchWait ==
    /\ consumer = "fetch"
    /\ seen < NumFrames
    /\ Empty
    /\ consumer' = "waiting"
    /\ UNCHANGED <<linkVars, argBuffers, producer, pushed, seen>>

SpuriousFetch ==
    /\ consumer = "waiting"
    /\ consumer' = "fetch"
    /\ UNCHANGED <<linkVars, argBuffers, producer, pushed, seen>>

\* run() starts to read *dst->arg ...
BeginRead ==
    /\ consumer = "run"
    /\ consumer' = "reading"
    /\ UNCHANGED <<linkVars, argBuffers, producer, pushed, seen>>

\* ... and has read all of it.
EndRead ==
    /\ consumer = "reading"
    /\ seen' = argBuffers[dstArg]
    /\ consumer' = "fetch"
    /\ UNCHANGED <<linkVars, argBuffers, producer, pushed>>

----------------------------------------------------------------------------

\* Both loops have run NumFrames times and the threads have ended.
Finished ==
    /\ producer = "run" /\ pushed = NumFrames
    /\ consumer = "fetch" /\ seen = NumFrames
    /\ UNCHANGED vars

Produce == BeginWrite \/ EndWrite \/ Push \/ PushWait
Consume == Fetch \/ FetchWait \/ BeginRead \/ EndRead

Next == Produce \/ Consume \/ SpuriousPush \/ SpuriousFetch \/ Finished

Spec == Init /\ [][Next]_vars

\* Each thread is scheduled whenever it can run.  Nothing makes a spurious
\* wake-up happen.
FairSpec == Spec /\ WF_vars(Produce) /\ WF_vars(Consume)

----------------------------------------------------------------------------
(* Properties. *)

TypeOK ==
    /\ currentSize \in 2..QueueSize
    /\ {indexIn, indexOut, srcArg, dstArg} \subseteq Buffers
    /\ argBuffers \in [Buffers -> Torn..NumFrames]
    /\ producer \in {"run", "writing", "push", "waiting"}
    /\ consumer \in {"fetch", "waiting", "run", "reading"}
    /\ pushed \in 0..NumFrames
    /\ seen \in Torn..NumFrames

\* The slots always refer to the buffers the link thinks they do (the
\* "argument reference differs" errors of push and fetch never occur), and
\* never both to the same one: run() of the producer and run() of the
\* consumer, which take no lock, work on different memory.
NoSharedBuffer ==
    /\ srcArg = indexIn
    /\ dstArg = indexOut
    /\ srcArg # dstArg

\* The consumer's run() sees every frame exactly once, complete, in the
\* order of the pushes: what it has read is the frame it has last fetched.
InOrderDelivery ==
    seen = IF consumer \in {"run", "reading"} THEN Fetched - 1 ELSE Fetched

\* No wake-up is lost: a thread waits on its condition variable only while
\* what it waits for does not hold, though push notifies at currentSize 3
\* only and fetch at queueSize - 1 only.
NoLostWakeup ==
    /\ producer = "waiting" => currentSize = QueueSize
    /\ consumer = "waiting" => currentSize = 2

\* Every frame reaches the consumer: the two threads never wait for each
\* other and the loops come to their end.
AllDelivered == <>[](seen = NumFrames)

----------------------------------------------------------------------------
(* The link is a bounded queue: of the QueueSize buffers, two are in the   *)
(* hands of the processors, the others hold frames.                        *)

Pending == currentSize - 2

Queue == [k \in 1..Pending |-> argBuffers[(indexOut + k) % QueueSize]]

BQ == INSTANCE BoundedQueue WITH
        Capacity <- QueueSize - 2,
        queue <- Queue,
        held <- argBuffers[dstArg]

\* The ring implements the bounded queue.  Computing a frame is invisible to
\* the consumer: it changes neither the queue nor the frame the consumer holds.
ImplementsQueue == BQ!FairSpec
============================================================================
