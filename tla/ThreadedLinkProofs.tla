------------------------ MODULE ThreadedLinkProofs ------------------------
(***************************************************************************)
(* ThreadedLink is correct for every ring of at least three buffers and    *)
(* any number of frames: the inductive invariant, the safety properties    *)
(* that follow from it, and the implementation of BoundedQueue.            *)
(***************************************************************************)
EXTENDS ThreadedLink, TLAPS

\* The buffer k places after the consumer's, round the ring.
Ring(k) == (indexOut + k) % QueueSize

\* The producer's buffer is the one after the last frame: the indices and
\* currentSize, which push and fetch update one by one, agree.
IndicesAgree ==
    /\ srcArg = indexIn
    /\ dstArg = indexOut
    /\ indexIn = Ring(currentSize - 1)

\* From the consumer's buffer on, the ring holds the last fetched frame and
\* the pending ones in order; a computed frame is in the producer's buffer.
FramesInRing ==
    /\ \A k \in 0..Pending : argBuffers[Ring(k)] = Fetched + k
    /\ producer \in {"push", "waiting"} => argBuffers[srcArg] = pushed + 1

\* The loops' counters.
CountersAgree ==
    /\ producer # "run" => pushed < NumFrames
    /\ Fetched >= 0
    /\ consumer \in {"run", "reading"} => Fetched >= 1

\* What is shown to be inductive.
IInv ==
    /\ TypeOK
    /\ IndicesAgree
    /\ FramesInRing
    /\ CountersAgree
    /\ InOrderDelivery
    /\ NoLostWakeup

----------------------------------------------------------------------------
(* Arithmetic of the ring. *)

\* Adding at most one turn to a position needs at most one subtraction.
LEMMA Wrap ==
    ASSUME NEW i \in Buffers, NEW k \in 0..QueueSize
    PROVE  (i + k) % QueueSize = IF i + k < QueueSize THEN i + k
                                                      ELSE i + k - QueueSize
<1>1. CASE i + k < QueueSize
  BY <1>1, ThreadedLinkAssumption DEF Buffers
<1>2. CASE i + k >= QueueSize
  BY <1>2, ThreadedLinkAssumption DEF Buffers
<1> QED
  BY <1>1, <1>2, ThreadedLinkAssumption DEF Buffers

\* The ring operators in the form the steps below use.
LEMMA RingIs ==
    ASSUME TypeOK
    PROVE  /\ \A k \in 0..QueueSize :
                 Ring(k) = IF indexOut + k < QueueSize THEN indexOut + k
                                                 ELSE indexOut + k - QueueSize
           /\ \A i \in Buffers :
                 Advance(i) = IF i = QueueSize - 1 THEN 0 ELSE i + 1
<1>1. ASSUME NEW k \in 0..QueueSize
      PROVE  Ring(k) = IF indexOut + k < QueueSize THEN indexOut + k
                                                 ELSE indexOut + k - QueueSize
  BY Wrap DEF TypeOK, Ring
<1>2. ASSUME NEW i \in Buffers
      PROVE  Advance(i) = IF i = QueueSize - 1 THEN 0 ELSE i + 1
  <2>1. 1 \in 0..QueueSize
    BY ThreadedLinkAssumption
  <2>2. Advance(i) = IF i + 1 < QueueSize THEN i + 1 ELSE i + 1 - QueueSize
    BY <2>1, Wrap DEF Advance
  <2> QED
    BY <2>2, ThreadedLinkAssumption DEF Buffers
<1> QED
  BY <1>1, <1>2

\* Positions less than one turn apart are different buffers.
LEMMA RingInjective ==
    ASSUME TypeOK, NEW j \in 0..(QueueSize - 1), NEW k \in 0..(QueueSize - 1),
           j # k
    PROVE  /\ Ring(j) # Ring(k)
           /\ Ring(j) \in Buffers
<1> USE ThreadedLinkAssumption
<1>1. j \in 0..QueueSize /\ k \in 0..QueueSize
  OBVIOUS
<1>2. indexOut \in Buffers
  BY DEF TypeOK
<1>3. Ring(j) = IF indexOut + j < QueueSize THEN indexOut + j
                                            ELSE indexOut + j - QueueSize
  BY <1>1, RingIs
<1>4. Ring(k) = IF indexOut + k < QueueSize THEN indexOut + k
                                            ELSE indexOut + k - QueueSize
  BY <1>1, RingIs
<1> QED
  BY <1>2, <1>3, <1>4 DEF Buffers

\* The ring starts at the consumer's buffer.
LEMMA RingZero == TypeOK => Ring(0) = indexOut
<1> SUFFICES ASSUME TypeOK PROVE Ring(0) = indexOut
  OBVIOUS
<1>1. indexOut \in Buffers
  BY DEF TypeOK
<1>2. 0 \in 0..QueueSize
  BY ThreadedLinkAssumption
<1>3. Ring(0) = IF indexOut + 0 < QueueSize THEN indexOut + 0
                                            ELSE indexOut + 0 - QueueSize
  BY <1>2, RingIs
<1> QED
  BY <1>1, <1>3, ThreadedLinkAssumption DEF Buffers

----------------------------------------------------------------------------
(* The inductive invariant. *)

\* The ring as the constructor leaves it satisfies the invariant.
LEMMA InitIInv == Init => IInv
<1> SUFFICES ASSUME Init PROVE IInv
  OBVIOUS
<1> USE ThreadedLinkAssumption
<1>1. TypeOK
  BY DEF Init, TypeOK, Buffers, Torn
<1>2. Ring(0) = QueueSize - 1 /\ Ring(1) = 0
  BY <1>1, RingIs DEF Init
<1>3. IndicesAgree
  BY <1>2 DEF Init, IndicesAgree
<1>4. FramesInRing
  BY <1>2 DEF Init, FramesInRing, Pending, Fetched, Buffers
<1>5. CountersAgree /\ InOrderDelivery /\ NoLostWakeup
  BY DEF Init, CountersAgree, InOrderDelivery, NoLostWakeup, Fetched
<1> QED
  BY <1>1, <1>3, <1>4, <1>5 DEF IInv

\* A step that leaves the ring, its contents and the counters as they are.
LEMMA RingUnchanged ==
    ASSUME IInv, UNCHANGED <<linkVars, argBuffers, pushed>>
    PROVE  /\ IndicesAgree'
           /\ (\A k \in 0..Pending : argBuffers[Ring(k)] = Fetched + k)'
           /\ Fetched' = Fetched
  BY DEF IInv, linkVars, IndicesAgree, FramesInRing, Ring, Fetched, Pending

\* Writing to the producer's buffer disturbs no frame of the ring.
LEMMA WriteKeepsFrames ==
    ASSUME IInv, NEW x, argBuffers' = [argBuffers EXCEPT ![srcArg] = x],
           UNCHANGED <<linkVars, pushed>>
    PROVE  /\ IndicesAgree'
           /\ (\A k \in 0..Pending : argBuffers[Ring(k)] = Fetched + k)'
           /\ argBuffers'[srcArg'] = x
<1> USE ThreadedLinkAssumption DEF IInv
<1>1. IndicesAgree'
  BY DEF linkVars, IndicesAgree, Ring
<1>2. ASSUME NEW k \in 0..Pending
      PROVE  argBuffers'[Ring(k)] = Fetched + k
  <2>1. /\ k \in 0..(QueueSize - 1) /\ currentSize - 1 \in 0..(QueueSize - 1)
        /\ k # currentSize - 1
    BY DEF TypeOK, Pending
  <2>2. Ring(k) # srcArg
    BY <2>1, RingInjective DEF IndicesAgree
  <2>3. Ring(k) \in Buffers
    BY <2>1, RingInjective
  <2> QED
    BY <2>2, <2>3 DEF TypeOK, FramesInRing
<1>3. /\ Pending' = Pending /\ Fetched' = Fetched
      /\ \A k \in 0..Pending : Ring(k)' = Ring(k)
  BY DEF linkVars, Pending, Fetched, Ring
<1>4. argBuffers'[srcArg'] = x
  BY DEF linkVars, TypeOK
<1> QED
  BY <1>1, <1>2, <1>3, <1>4 DEF Pending, Fetched, Ring

\* run() of the producer writes into the producer's buffer only.
LEMMA BeginWriteIInv == IInv /\ BeginWrite => IInv'
<1> SUFFICES ASSUME IInv, BeginWrite PROVE IInv'
  OBVIOUS
<1> USE ThreadedLinkAssumption
<1>1. TypeOK'
  BY DEF IInv, TypeOK, BeginWrite, linkVars, Buffers, Torn
<1>2. IndicesAgree' /\ FramesInRing'
  BY WriteKeepsFrames DEF BeginWrite, FramesInRing
<1>3. CountersAgree' /\ InOrderDelivery' /\ NoLostWakeup'
  BY DEF IInv, BeginWrite, linkVars, CountersAgree, InOrderDelivery,
         NoLostWakeup, Fetched
<1> QED
  BY <1>1, <1>2, <1>3 DEF IInv

\* When run() of the producer is done, its buffer holds the next frame.
LEMMA EndWriteIInv == IInv /\ EndWrite => IInv'
<1> SUFFICES ASSUME IInv, EndWrite PROVE IInv'
  OBVIOUS
<1> USE ThreadedLinkAssumption
<1>1. TypeOK'
  BY DEF IInv, TypeOK, CountersAgree, EndWrite, linkVars, Buffers, Torn
<1>2. IndicesAgree' /\ FramesInRing'
  BY WriteKeepsFrames DEF EndWrite, FramesInRing
<1>3. CountersAgree' /\ InOrderDelivery' /\ NoLostWakeup'
  BY DEF IInv, EndWrite, linkVars, CountersAgree, InOrderDelivery,
         NoLostWakeup, Fetched
<1> QED
  BY <1>1, <1>2, <1>3 DEF IInv

\* push adds the producer's buffer to the pending ones and moves on.
LEMMA PushIInv == IInv /\ Push => IInv'
<1> SUFFICES ASSUME IInv, Push PROVE IInv'
  OBVIOUS
<1> USE ThreadedLinkAssumption
<1> USE DEF Push, Full
<1>1. indexIn \in Buffers /\ currentSize \in 2..(QueueSize - 1)
  BY DEF IInv, TypeOK
<1>2. indexIn' = IF indexIn = QueueSize - 1 THEN 0 ELSE indexIn + 1
  BY <1>1, RingIs DEF IInv
<1>3. TypeOK'
  BY <1>1, <1>2 DEF IInv, TypeOK, CountersAgree, NotifyFetch, Buffers
<1>4. currentSize - 1 \in 0..QueueSize /\ currentSize \in 0..QueueSize
  BY <1>1
<1>5. indexIn' = Ring(currentSize)
  <2>1. indexOut \in Buffers /\ indexIn = Ring(currentSize - 1)
    BY DEF IInv, TypeOK, IndicesAgree
  <2>2. Ring(currentSize - 1) = IF indexOut + (currentSize - 1) < QueueSize
                                THEN indexOut + (currentSize - 1)
                                ELSE indexOut + (currentSize - 1) - QueueSize
    BY <1>4, RingIs DEF IInv
  <2>3. Ring(currentSize) = IF indexOut + currentSize < QueueSize
                            THEN indexOut + currentSize
                            ELSE indexOut + currentSize - QueueSize
    BY <1>4, RingIs DEF IInv
  <2> QED
    BY <1>1, <1>2, <2>1, <2>2, <2>3, ThreadedLinkAssumption DEF Buffers
<1>6. IndicesAgree'
  BY <1>1, <1>5 DEF IInv, IndicesAgree, Ring
<1>7. Fetched' = Fetched /\ Pending' = Pending + 1
  BY <1>1 DEF IInv, TypeOK, Fetched, Pending
<1>8. ASSUME NEW k \in 0..Pending'
      PROVE  argBuffers'[Ring(k)'] = Fetched' + k
  <2>1. Ring(k)' = Ring(k)
    BY DEF Ring
  <2>2. CASE k \in 0..Pending
    BY <1>7, <2>1, <2>2 DEF IInv, FramesInRing
  <2>3. CASE k = currentSize - 1
    BY <1>1, <1>7, <2>1, <2>3
    DEF IInv, TypeOK, IndicesAgree, FramesInRing, Fetched, Pending
  <2> QED
    BY <1>1, <1>7, <2>2, <2>3 DEF Pending
<1>9. FramesInRing'
  BY <1>8 DEF FramesInRing
<1>10. CountersAgree' /\ InOrderDelivery' /\ NoLostWakeup'
  BY <1>1, <1>7 DEF IInv, TypeOK, CountersAgree, InOrderDelivery, NoLostWakeup,
                    NotifyFetch
<1> QED
  BY <1>3, <1>6, <1>9, <1>10 DEF IInv

\* fetch moves the consumer to the first pending buffer.
LEMMA FetchIInv == IInv /\ Fetch => IInv'
<1> SUFFICES ASSUME IInv, Fetch PROVE IInv'
  OBVIOUS
<1> USE ThreadedLinkAssumption
<1> USE DEF Fetch, Empty
<1>1. indexOut \in Buffers /\ currentSize \in 3..QueueSize
  BY DEF IInv, TypeOK
<1>2. indexOut' = IF indexOut = QueueSize - 1 THEN 0 ELSE indexOut + 1
  BY <1>1, RingIs DEF IInv
<1>3. TypeOK'
  BY <1>1, <1>2 DEF IInv, TypeOK, NotifyPush, Buffers
<1>4. ASSUME NEW k \in 0..(QueueSize - 1)
      PROVE  Ring(k)' = Ring(k + 1)
  <2>1. k \in 0..QueueSize /\ k + 1 \in 0..QueueSize
    OBVIOUS
  <2>2. Ring(k)' = IF indexOut' + k < QueueSize THEN indexOut' + k
                                           ELSE indexOut' + k - QueueSize
    BY <1>3, <2>1, Wrap DEF TypeOK, Ring
  <2>3. Ring(k + 1) = IF indexOut + (k + 1) < QueueSize THEN indexOut + (k + 1)
                                        ELSE indexOut + (k + 1) - QueueSize
    BY <2>1, RingIs DEF IInv
  <2> QED
    BY <1>1, <1>2, <2>2, <2>3 DEF Buffers
<1>5. currentSize' - 1 \in 0..(QueueSize - 1)
  BY <1>1
<1>6. IndicesAgree'
  <2> DEFINE k == currentSize - 2
  <2>1. k \in 0..(QueueSize - 1) /\ k + 1 = currentSize - 1
    BY <1>1
  <2>2. (indexOut' + k) % QueueSize = Ring(k + 1)
    BY <1>4, <2>1 DEF Ring
  <2>3. indexIn = Ring(k + 1) /\ srcArg = indexIn
    BY <2>1 DEF IInv, IndicesAgree
  <2>4. currentSize' - 1 = k
    BY <1>1
  <2> QED
    BY <2>2, <2>3, <2>4 DEF IndicesAgree, Ring
<1>7. Fetched' = Fetched + 1 /\ Pending' = Pending - 1
  BY <1>1 DEF IInv, TypeOK, Fetched, Pending
<1>8. ASSUME NEW k \in 0..Pending'
      PROVE  argBuffers'[Ring(k)'] = Fetched' + k
  <2>1. k \in 0..(QueueSize - 1) /\ k + 1 \in 0..Pending
    BY <1>1, <1>7 DEF Pending
  <2>2. argBuffers[Ring(k + 1)] = Fetched + (k + 1)
    BY <2>1 DEF IInv, FramesInRing
  <2> QED
    BY <1>1, <1>4, <1>7, <2>1, <2>2 DEF IInv, TypeOK, Fetched
<1>9. FramesInRing'
  BY <1>8 DEF IInv, FramesInRing, NotifyPush
<1>10. CountersAgree' /\ InOrderDelivery' /\ NoLostWakeup'
  BY <1>1, <1>7 DEF IInv, TypeOK, CountersAgree, InOrderDelivery, NoLostWakeup,
                    NotifyPush
<1> QED
  BY <1>3, <1>6, <1>9, <1>10 DEF IInv

\* The other steps of the two threads touch neither ring nor counters.
LEMMA LocalStepIInv ==
    ASSUME IInv, PushWait \/ SpuriousPush \/ FetchWait \/ SpuriousFetch
                   \/ BeginRead \/ Finished
    PROVE  IInv'
<1> USE DEF PushWait, SpuriousPush, FetchWait, SpuriousFetch, BeginRead, Finished,
            Full, Empty
<1>1. UNCHANGED <<linkVars, argBuffers, pushed, seen>>
  BY DEF vars
<1>2. TypeOK'
  BY <1>1 DEF IInv, TypeOK, linkVars, vars
<1>3. IndicesAgree' /\ FramesInRing'
  BY <1>1, RingUnchanged DEF IInv, FramesInRing, linkVars, vars
<1>4. CountersAgree' /\ InOrderDelivery' /\ NoLostWakeup'
  BY <1>1, ThreadedLinkAssumption
  DEF IInv, TypeOK, CountersAgree, InOrderDelivery, NoLostWakeup, Fetched,
      linkVars, vars
<1> QED
  BY <1>2, <1>3, <1>4 DEF IInv

\* run() reads the frame it has fetched.
LEMMA EndReadIInv == IInv /\ EndRead => IInv'
<1> SUFFICES ASSUME IInv, EndRead PROVE IInv'
  OBVIOUS
<1> USE ThreadedLinkAssumption DEF EndRead
<1>1. argBuffers[dstArg] = Fetched
  <2>1. 0 \in 0..Pending
    BY DEF IInv, TypeOK, Pending
  <2>2. Ring(0) = indexOut
    BY RingZero DEF IInv
  <2> QED
    BY <2>1, <2>2 DEF IInv, TypeOK, FramesInRing, IndicesAgree, Fetched
<1>2. TypeOK'
  BY DEF IInv, TypeOK, linkVars
<1>3. IndicesAgree' /\ FramesInRing'
  BY RingUnchanged DEF IInv, FramesInRing, linkVars
<1>4. CountersAgree' /\ InOrderDelivery' /\ NoLostWakeup'
  BY <1>1 DEF IInv, CountersAgree, InOrderDelivery, NoLostWakeup, Fetched,
              linkVars
<1> QED
  BY <1>2, <1>3, <1>4 DEF IInv

\* Every step of either thread keeps the invariant.
LEMMA NextIInv == IInv /\ [Next]_vars => IInv'
<1> SUFFICES ASSUME IInv, [Next]_vars PROVE IInv'
  OBVIOUS
<1>1. CASE BeginWrite
  BY <1>1, BeginWriteIInv
<1>2. CASE EndWrite
  BY <1>2, EndWriteIInv
<1>3. CASE Push
  BY <1>3, PushIInv
<1>4. CASE Fetch
  BY <1>4, FetchIInv
<1>5. CASE EndRead
  BY <1>5, EndReadIInv
<1>6. CASE PushWait \/ SpuriousPush \/ FetchWait \/ SpuriousFetch
             \/ BeginRead \/ Finished
  BY <1>6, LocalStepIInv
<1>7. CASE UNCHANGED vars
  BY <1>7 DEF vars, linkVars, IInv, TypeOK, IndicesAgree, FramesInRing, Ring,
              CountersAgree, InOrderDelivery, NoLostWakeup, Fetched, Pending
<1> QED
  BY <1>1, <1>2, <1>3, <1>4, <1>5, <1>6, <1>7 DEF Next, Produce, Consume

\* The inductive invariant holds in every reachable state.
THEOREM InvariantHolds == Spec => []IInv
  BY InitIInv, NextIInv, PTL DEF Spec

----------------------------------------------------------------------------
(* The safety properties. *)

\* Type correctness; in particular 2 <= currentSize <= queueSize.
THEOREM TypeCorrect == Spec => []TypeOK
<1>1. IInv => TypeOK
  BY DEF IInv
<1> QED
  BY <1>1, InvariantHolds, PTL

\* The processors at the two ends never work on the same buffer, and the
\* "argument reference differs" errors of push and fetch cannot occur.
THEOREM BuffersAreExclusive == Spec => []NoSharedBuffer
<1>1. IInv => NoSharedBuffer
  <2> SUFFICES ASSUME IInv PROVE NoSharedBuffer
    OBVIOUS
  <2>1. /\ 0 \in 0..(QueueSize - 1) /\ currentSize - 1 \in 0..(QueueSize - 1)
        /\ 0 # currentSize - 1
    BY ThreadedLinkAssumption DEF IInv, TypeOK
  <2>2. Ring(0) = indexOut
    BY RingZero DEF IInv
  <2> QED
    BY <2>1, <2>2, RingInjective DEF IInv, IndicesAgree, NoSharedBuffer
<1> QED
  BY <1>1, InvariantHolds, PTL

\* Every frame is read once, complete and in order.
THEOREM DeliveryInOrder == Spec => []InOrderDelivery
<1>1. IInv => InOrderDelivery
  BY DEF IInv
<1> QED
  BY <1>1, InvariantHolds, PTL

\* Notifying at two particular sizes only loses no wake-up.
THEOREM WakeupsNotLost == Spec => []NoLostWakeup
<1>1. IInv => NoLostWakeup
  BY DEF IInv
<1> QED
  BY <1>1, InvariantHolds, PTL

----------------------------------------------------------------------------
(* The ring implements the bounded queue. *)

\* Operators of Sequences on a run of consecutive numbers.
LEMMA ConsecutiveRun ==
    ASSUME NEW a \in Nat, NEW n \in Nat
    PROVE  LET run(b, m) == [k \in 1..m |-> b + k]
           IN  /\ Append(run(a, n), a + n + 1) = run(a, n + 1)
               /\ Head(run(a, n + 1)) = a + 1
               /\ Tail(run(a, n + 1)) = run(a + 1, n)
               /\ Len(run(a, n)) = n
               /\ (run(a, n) = <<>>) <=> (n = 0)
<1> DEFINE run(b, m) == [k \in 1..m |-> b + k]
<1>1. /\ run(a, n) \in Seq(Nat) /\ Len(run(a, n)) = n
      /\ run(a, n + 1) \in Seq(Nat) /\ Len(run(a, n + 1)) = n + 1
      /\ run(a + 1, n) \in Seq(Nat) /\ Len(run(a + 1, n)) = n
  OBVIOUS
<1>2. Append(run(a, n), a + n + 1) = run(a, n + 1)
  BY <1>1
<1>3. Head(run(a, n + 1)) = a + 1
  BY <1>1
<1>4. Tail(run(a, n + 1)) = run(a + 1, n)
  BY <1>1
<1>5. (run(a, n) = <<>>) <=> (n = 0)
  BY <1>1
<1> QED
  BY <1>1, <1>2, <1>3, <1>4, <1>5

\* The refinement mapping in terms of the counters: the consumer holds the
\* last fetched frame and the queue is what follows it.
Mapping ==
    /\ argBuffers[dstArg] = Fetched
    /\ Queue = [k \in 1..Pending |-> Fetched + k]
    /\ Pending \in 0..(QueueSize - 2) /\ Fetched \in Nat
    /\ pushed = Fetched + Pending

\* The invariant determines the abstract queue.
LEMMA MappingIs == IInv => Mapping
<1> SUFFICES ASSUME IInv PROVE Mapping
  OBVIOUS
<1> USE ThreadedLinkAssumption
<1>1. /\ Pending \in 0..(QueueSize - 2) /\ Fetched \in Nat
      /\ pushed = Fetched + Pending
  BY DEF IInv, TypeOK, CountersAgree, Pending, Fetched
<1>2. argBuffers[dstArg] = Fetched
  BY <1>1, RingZero DEF IInv, IndicesAgree, FramesInRing
<1>3. ASSUME NEW k \in 1..Pending
      PROVE  argBuffers[(indexOut + k) % QueueSize] = Fetched + k
  BY <1>1 DEF IInv, FramesInRing, Ring
<1> QED
  BY <1>1, <1>2, <1>3 DEF Queue, Mapping

\* A step that moves neither counter is invisible in the queue.
LEMMA StutterRefines ==
    ASSUME Mapping, Mapping', UNCHANGED <<currentSize, pushed>>
    PROVE  UNCHANGED BQ!vars
<1>1. Fetched' = Fetched /\ Pending' = Pending
  BY DEF Fetched, Pending
<1> QED
  BY <1>1 DEF Mapping, BQ!vars

\* push of the ring is Push of the abstract queue.
LEMMA PushRefines ==
    ASSUME IInv, Mapping, Mapping', Push
    PROVE  BQ!Push
<1> USE ThreadedLinkAssumption DEF Mapping
<1>1. /\ Fetched' = Fetched /\ Pending' = Pending + 1 /\ pushed' = pushed + 1
      /\ pushed < NumFrames /\ Pending < QueueSize - 2
  BY DEF IInv, TypeOK, CountersAgree, Push, Full, Fetched, Pending
<1>2. Len(Queue) = Pending
  BY ConsecutiveRun
<1>3. Queue' = Append(Queue, pushed + 1)
  BY <1>1, ConsecutiveRun
<1> QED
  BY <1>1, <1>2, <1>3 DEF BQ!Push

\* fetch of the ring is Fetch of the abstract queue.
LEMMA FetchRefines ==
    ASSUME IInv, Mapping, Mapping', Fetch
    PROVE  BQ!Fetch
<1> USE ThreadedLinkAssumption
<1>1. Fetched' = Fetched + 1 /\ Pending = Pending' + 1 /\ pushed' = pushed
  BY DEF IInv, TypeOK, Fetch, Empty, Fetched, Pending
<1>2. /\ Pending' \in Nat /\ Fetched \in Nat
      /\ Pending' + 1 \in Nat /\ Pending' + 1 # 0
  <2>1. Pending' \in Nat /\ Pending' + 1 \in Nat /\ Pending' + 1 # 0
    BY DEF IInv, TypeOK, Fetch, Empty, Pending
  <2>2. Fetched \in Nat
    BY DEF Mapping
  <2> QED
    BY <2>1, <2>2
<1>3. Queue = [k \in 1..(Pending' + 1) |-> Fetched + k]
  BY <1>1 DEF Mapping
<1>4. Head(Queue) = Fetched + 1 /\ Queue # <<>>
  BY <1>2, <1>3, ConsecutiveRun
<1>5. Tail(Queue) = [k \in 1..Pending' |-> (Fetched + 1) + k]
  BY <1>2, <1>3, ConsecutiveRun
<1>6. Queue' = [k \in 1..Pending' |-> Fetched' + k]
  BY DEF Mapping
<1>7. Queue' = Tail(Queue)
  BY <1>1, <1>5, <1>6
<1>8. (argBuffers[dstArg])' = Head(Queue)
  BY <1>1, <1>4 DEF Mapping
<1> QED
  BY <1>1, <1>4, <1>7, <1>8 DEF BQ!Fetch

\* The safety part of the refinement: every behaviour of the link is one of
\* a bounded first-in-first-out queue of QueueSize - 2 frames.
THEOREM RefinesBoundedQueue == Spec => BQ!Spec
<1>1. Init => BQ!Init
  <2> SUFFICES ASSUME Init PROVE BQ!Init
    OBVIOUS
  <2>1. Mapping
    BY InitIInv, MappingIs
  <2>2. Pending = 0 /\ Fetched = 0 /\ pushed = 0
    BY DEF Init, Pending, Fetched
  <2> QED
    BY <2>1, <2>2, ConsecutiveRun DEF Mapping, BQ!Init
<1>2. IInv /\ Mapping /\ Mapping' /\ [Next]_vars => [BQ!Next]_(BQ!vars)
  <2> SUFFICES ASSUME IInv, Mapping, Mapping', [Next]_vars
               PROVE  [BQ!Next]_(BQ!vars)
    OBVIOUS
  <2>1. CASE Push
    BY <2>1, PushRefines DEF BQ!Next
  <2>2. CASE Fetch
    BY <2>2, FetchRefines DEF BQ!Next
  <2>3. CASE UNCHANGED <<currentSize, pushed>>
    BY <2>3, StutterRefines
  <2> QED
    BY <2>1, <2>2, <2>3
    DEF Next, Produce, Consume, BeginWrite, EndWrite, PushWait, SpuriousPush,
        FetchWait, SpuriousFetch, BeginRead, EndRead, Finished, vars, linkVars
<1>3. Spec => []Mapping
  BY InvariantHolds, MappingIs, PTL
<1> QED
  BY <1>1, <1>2, <1>3, InvariantHolds, PTL DEF Spec, BQ!Spec

----------------------------------------------------------------------------
(* What an implementation of BoundedQueue promises: any queue of any capacity, *)
(* whatever link it stands for.                                                *)

CONSTANT AnyCapacity
VARIABLES anyQueue, anyPushed, anyHeld

Any == INSTANCE BoundedQueue WITH
    Capacity <- AnyCapacity,
    queue <- anyQueue,
    pushed <- anyPushed,
    held <- anyHeld

\* The empty queue is consecutive.
LEMMA ConsecutiveInit ==
    ASSUME AnyCapacity \in Nat, NumFrames \in Nat, Any!Init
    PROVE  Any!TypeOK /\ Any!Consecutive
<1>1. /\ Len(<<>>) = 0
      /\ <<>> \in Seq(1..NumFrames)
  OBVIOUS
<1> QED
  BY <1>1 DEF Any!Init, Any!TypeOK, Any!Consecutive

\* push appends the frame after the last.
LEMMA ConsecutivePush ==
    ASSUME AnyCapacity \in Nat, NumFrames \in Nat, Any!TypeOK, Any!Consecutive, Any!Push
    PROVE  Any!TypeOK' /\ Any!Consecutive'
<1>1. /\ Len(anyQueue') = Len(anyQueue) + 1
      /\ \A k \in 1..Len(anyQueue) : anyQueue'[k] = anyQueue[k]
      /\ anyQueue'[Len(anyQueue) + 1] = anyPushed + 1
  BY DEF Any!TypeOK, Any!Push
<1>2. Any!TypeOK'
  <2>1. anyPushed + 1 \in 1..NumFrames
    BY DEF Any!TypeOK, Any!Push
  <2>2. anyQueue' \in Seq(1..NumFrames)
    BY <2>1 DEF Any!TypeOK, Any!Push
  <2> QED
    BY <1>1, <2>1, <2>2 DEF Any!TypeOK, Any!Push
<1>3. anyPushed' = anyHeld' + Len(anyQueue')
  BY <1>1 DEF Any!TypeOK, Any!Consecutive, Any!Push
<1>4. ASSUME NEW k \in 1..Len(anyQueue')
      PROVE  anyQueue'[k] = anyHeld' + k
  <2>1. CASE k = Len(anyQueue) + 1
    BY <1>1, <2>1 DEF Any!TypeOK, Any!Consecutive, Any!Push
  <2>2. CASE k \in 1..Len(anyQueue)
    BY <1>1, <2>2 DEF Any!TypeOK, Any!Consecutive, Any!Push
  <2> QED
    BY <1>1, <2>1, <2>2 DEF Any!TypeOK
<1> QED
  BY <1>2, <1>3, <1>4 DEF Any!Consecutive

\* fetch takes the frame after the one held.
LEMMA ConsecutiveFetch ==
    ASSUME AnyCapacity \in Nat, NumFrames \in Nat, Any!TypeOK, Any!Consecutive, Any!Fetch
    PROVE  Any!TypeOK' /\ Any!Consecutive'
<1>1. /\ Len(anyQueue) \in Nat \ {0}
      /\ Len(anyQueue') = Len(anyQueue) - 1
      /\ anyQueue' \in Seq(1..NumFrames)
      /\ \A k \in 1..Len(anyQueue') : anyQueue'[k] = anyQueue[k + 1]
  BY DEF Any!TypeOK, Any!Fetch
<1>2. anyHeld' = anyHeld + 1
  <2>1. anyQueue[1] = anyHeld + 1
    BY <1>1 DEF Any!Consecutive
  <2> QED
    BY <2>1 DEF Any!Fetch
<1>3. anyHeld' \in 0..NumFrames
  <2>1. anyQueue[1] \in 1..NumFrames
    BY <1>1 DEF Any!TypeOK
  <2> QED
    BY <2>1 DEF Any!Fetch
<1>4. Any!TypeOK'
  BY <1>1, <1>3 DEF Any!TypeOK, Any!Fetch
<1>5. anyPushed' = anyHeld' + Len(anyQueue')
  BY <1>1, <1>2 DEF Any!TypeOK, Any!Consecutive, Any!Fetch
<1>6. ASSUME NEW k \in 1..Len(anyQueue')
      PROVE  anyQueue'[k] = anyHeld' + k
  <2>1. k + 1 \in 1..Len(anyQueue)
    BY <1>1
  <2>2. anyQueue'[k] = anyHeld + (k + 1)
    BY <1>1, <2>1 DEF Any!Consecutive
  <2> QED
    BY <1>1, <1>2, <2>2 DEF Any!TypeOK
<1> QED
  BY <1>4, <1>5, <1>6 DEF Any!Consecutive

\* The consumer receives frame after frame: in every behaviour of a bounded
\* queue, the frames between the one the consumer holds and the one the
\* producer has pushed last are in the queue, in order, whatever the capacity.
THEOREM FramesConsecutive ==
    ASSUME AnyCapacity \in Nat, NumFrames \in Nat
    PROVE  Any!Spec => [](Any!TypeOK /\ Any!Consecutive)
<1>1. Any!Init => Any!TypeOK /\ Any!Consecutive
  BY ConsecutiveInit
<1>2. (Any!TypeOK /\ Any!Consecutive) /\ [Any!Next]_(Any!vars) => (Any!TypeOK /\ Any!Consecutive)'
  <2> SUFFICES ASSUME Any!TypeOK, Any!Consecutive, [Any!Next]_(Any!vars)
               PROVE  Any!TypeOK' /\ Any!Consecutive'
    OBVIOUS
  <2>1. CASE Any!Push
    BY <2>1, ConsecutivePush
  <2>2. CASE Any!Fetch
    BY <2>2, ConsecutiveFetch
  <2>3. CASE UNCHANGED Any!vars
    BY <2>3 DEF Any!TypeOK, Any!Consecutive, Any!vars
  <2> QED
    BY <2>1, <2>2, <2>3 DEF Any!Next
<1> QED
  BY <1>1, <1>2, PTL DEF Any!Spec
============================================================================
