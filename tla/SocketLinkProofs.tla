------------------------- MODULE SocketLinkProofs -------------------------
(***************************************************************************)
(* SocketLink is correct for all ring sizes and any number of frames.      *)
(***************************************************************************)
EXTENDS SocketLink, SequenceTheorems, TLAPS

\* The producing side has a buffer in its hands.
Current(lb) == IF lb.currentEmpty # NoBuffer THEN 1 ELSE 0

\* The semaphores of a ring and its positions, which getEmpty, putFull, getFull
\* and putEmpty update one by one, agree: at most one buffer is in the hands of
\* the draining side, and the filling side is behind the full buffers.
RingOK(lb) ==
    /\ lb.bufferCount - 1 <= lb.emptySem + lb.fullSem + Current(lb)
    /\ lb.emptySem + lb.fullSem + Current(lb) <= lb.bufferCount
    /\ lb.writeBuffer = (lb.readBuffer + lb.fullSem + Current(lb)) % lb.bufferCount
    /\ lb.currentEmpty # NoBuffer =>
         lb.currentEmpty = (lb.readBuffer + lb.fullSem) % lb.bufferCount

Rings == RingOK(tx) /\ RingOK(rx)

SenderRuns == "sender" \notin killed
ReceiverRuns == "receiver" \notin killed

\* Where the filler waits for an answer.
Answered == {"header", "name", "dataHeader", "data"}

\* The end marker has been put behind the frames.
Marked == IF producer \in {"join", "gone"} THEN 1 ELSE 0

\* What the filler has taken from its ring, and the frames that have been put
\* into the ring of the receiver.
Taken == pushed + Marked - tx.fullSem
Stored == fetched + rx.fullSem

\* The two threads of the sender and their ring: it holds the frames from
\* Taken on, in order and complete, and behind them the end marker.
SenderSide ==
    IF ~SenderRuns THEN producer = "killed" /\ filler = "killed" /\ closed
    ELSE
        /\ producer # "killed" /\ filler # "killed"
        /\ (producer = "serialize") <=> (tx.currentEmpty # NoBuffer)
        /\ producer = "serialize" => pushed < NumFrames
        /\ producer \in {"join", "gone"} => pushed = NumFrames
        /\ closed <=> (producer = "gone")
        /\ closed => filler \in {"ended", "dead"}
        /\ filler \in {"dataHeader", "data", "ended"} => InHands(tx)
        /\ filler \in {"connect", "header", "name", "loop"} => ~InHands(tx)
        /\ \A k \in 1..tx.fullSem :
             Pending(tx)[k] = IF Taken + k <= NumFrames THEN Taken + k ELSE Empty
        /\ filler \in {"connect", "header", "name"} => Taken = 0
        /\ filler \in {"dataHeader", "data"} =>
             Content(tx) = Taken /\ Taken \in 1..NumFrames
        /\ filler = "loop" => Taken \in 0..NumFrames
        /\ filler = "ended" => Taken = NumFrames + 1 /\ Content(tx) = Empty
        /\ toFiller # <<>> => filler \in Answered
        /\ filler \in {"connect", "loop", "ended"} => toPump = <<>>

\* The two threads of the receiver and their ring: it holds the frames the
\* consumer has not fetched, in order and complete, and the next one is the
\* only one that can be on its way.
ReceiverSide ==
    IF ~ReceiverRuns THEN pump = "killed" /\ consumer = "killed"
    ELSE
        /\ pump # "killed" /\ consumer # "killed"
        /\ pump \in {"wait", "name", "empty"} => rx.currentEmpty = NoBuffer
        /\ pump \in {"dataHeader", "data"} => rx.currentEmpty # NoBuffer
        /\ (consumer = "deserialize") <=> InHands(rx)
        /\ consumer = "attach" => fetched = 0
        /\ \A k \in 1..rx.fullSem : Pending(rx)[k] = fetched + k
        /\ Stored <= NumFrames
        /\ IF consumer = "deserialize"
           THEN Content(rx) = fetched /\ seen = fetched - 1
           ELSE seen = fetched
        /\ Received("data") =>
             Head(toPump).frame = Stored + 1 /\ Stored < NumFrames
        /\ ~assigned => pump = "wait" /\ toFiller = <<>>
        /\ pump = "wait" => toFiller = <<>> /\ (assigned => toPump = <<>>) /\ Stored = 0
        /\ pump = "name" => Stored = 0
        /\ pump = "ended" => toPump = <<>>

\* Without a common type the pump does not come to the frames.
Separated ==
    /\ peer # "same" =>
         pump \in {"wait", "name", "ended", "killed"} /\ fetched = 0 /\ rx.fullSem = 0
    /\ peer = "fixedLen" => pump # "name"
    /\ toFiller # <<>> /\ Head(toFiller) # "errNone" => peer # "same"
    /\ peer = "refused" =>
         /\ ~assigned /\ pump \in {"wait", "killed"}
         /\ filler \in {"connect", "dead", "killed"} /\ toPump = <<>>

\* What the filler knows of the frames that have arrived, also when the
\* receiver has been killed.
Counts ==
    SenderRuns =>
        /\ filler \in {"connect", "header", "name"} => Stored = 0
        /\ filler = "loop" => Stored = Taken
        /\ filler = "dataHeader" => Stored = Taken - 1
        /\ filler = "data" =>
             /\ Stored = Taken - 1 \/ Stored = Taken
             /\ toFiller # <<>> => Stored = Taken
        /\ filler = "ended" => Stored = NumFrames
        /\ filler = "dead" =>
             IF InHands(tx)
             THEN /\ Content(tx) = Taken /\ Taken \in 1..NumFrames
                  /\ Stored = Taken - 1 \/ Stored = Taken
             ELSE Taken = 0 /\ Stored = 0

\* Where the pump is when the filler waits for it, while both run.
Turns ==
    SenderRuns /\ ReceiverRuns =>
        /\ filler = "connect" => ~assigned
        /\ filler = "header" =>
             CASE toPump # <<>> -> ~assigned
               [] toFiller # <<>> ->
                    assigned
                    /\ pump = (IF Head(toFiller) = "errNone" THEN "name" ELSE "ended")
               [] OTHER -> assigned /\ pump = "wait"
        /\ filler = "name" =>
             /\ toPump # <<>> => Head(toPump).kind = "typeName" /\ pump = "name"
             /\ toPump = <<>> => toFiller # <<>>
             /\ toFiller # <<>> =>
                  IF Head(toFiller) = "errNone" THEN pump \in {"empty", "dataHeader"}
                                                ELSE pump = "ended"
        /\ filler = "loop" => pump \in {"empty", "dataHeader"}
        /\ filler = "dataHeader" =>
             /\ toPump # <<>> =>
                  Head(toPump).kind = "dataHeader" /\ pump \in {"empty", "dataHeader"}
             /\ toPump = <<>> =>
                  toFiller # <<>> /\ Head(toFiller) = "errNone" /\ pump = "data"
        /\ filler = "data" =>
             /\ toPump # <<>> =>
                  Head(toPump).kind = "data" /\ pump = "data" /\ Stored = Taken - 1
             /\ toPump = <<>> =>
                  /\ toFiller # <<>> /\ Head(toFiller) = "errNone"
                  /\ pump \in {"empty", "dataHeader"} /\ Stored = Taken
        /\ filler = "ended" =>
             pump \in {"empty", "dataHeader"} \/ (closed /\ pump = "ended")
        /\ filler = "dead" => peer # "same" /\ (pump = "ended" \/ peer = "refused")

\* Nothing is under way between two processes that were killed.
Emptied == ~SenderRuns /\ ~ReceiverRuns => toPump = <<>>

\* What is shown to be inductive.
IInv ==
    /\ TypeOK
    /\ Lockstep
    /\ Rings
    /\ SenderSide
    /\ ReceiverSide
    /\ Separated
    /\ Counts
    /\ Turns
    /\ Emptied

----------------------------------------------------------------------------
(* The operators of LinkBuffer. *)

\* The buffer k places after the reader's.
Place(lb, k) == (lb.readBuffer + k) % lb.bufferCount

\* The fields of a ring and how its semaphores count the buffers.
LEMMA RingFields ==
    ASSUME NEW N \in Nat \ {0}, NEW S, NEW lb \in LinkBuffers(N, S), RingOK(lb)
    PROVE  /\ lb.bufferCount = N /\ lb.buffers \in [0..(N - 1) -> S]
           /\ lb.readBuffer \in 0..(N - 1) /\ lb.writeBuffer \in 0..(N - 1)
           /\ lb.emptySem \in 0..N /\ lb.fullSem \in 0..N
           /\ lb.currentEmpty \in {NoBuffer} \cup (0..(N - 1))
           /\ Current(lb) \in {0, 1}
           /\ N - 1 <= lb.emptySem + lb.fullSem + Current(lb)
           /\ lb.emptySem + lb.fullSem + Current(lb) <= N
           /\ lb.fullSem + Current(lb) \in 0..N
           /\ InHands(lb) <=> lb.emptySem + lb.fullSem + Current(lb) = N - 1
           /\ lb.writeBuffer = Place(lb, lb.fullSem + Current(lb))
           /\ lb.currentEmpty # NoBuffer => lb.currentEmpty = Place(lb, lb.fullSem)
<1>1. /\ lb.bufferCount = N /\ lb.buffers \in [0..(N - 1) -> S]
      /\ lb.readBuffer \in 0..(N - 1) /\ lb.writeBuffer \in 0..(N - 1)
      /\ lb.emptySem \in 0..N /\ lb.fullSem \in 0..N
      /\ lb.currentEmpty \in {NoBuffer} \cup (0..(N - 1))
  BY DEF LinkBuffers
<1>2. Current(lb) \in {0, 1}
  BY DEF Current
<1>3. /\ N - 1 <= lb.emptySem + lb.fullSem + Current(lb)
      /\ lb.emptySem + lb.fullSem + Current(lb) <= N
      /\ lb.writeBuffer = Place(lb, lb.fullSem + Current(lb))
      /\ lb.currentEmpty # NoBuffer => lb.currentEmpty = Place(lb, lb.fullSem)
  BY <1>1, <1>2 DEF RingOK, Place
<1>4. InHands(lb) <=> lb.emptySem + lb.fullSem + Current(lb) = N - 1
  BY <1>1, <1>2, <1>3 DEF InHands, Current
<1> QED
  BY <1>1, <1>2, <1>3, <1>4

\* Adding at most one turn to a position needs at most one subtraction.
LEMMA Wrap ==
    ASSUME NEW N \in Nat \ {0}, NEW i \in 0..(N - 1), NEW k \in 0..N
    PROVE  /\ (i + k) % N = IF i + k < N THEN i + k ELSE i + k - N
           /\ (i + k) % N \in 0..(N - 1)
<1>1. CASE i + k < N
  BY <1>1
<1>2. CASE i + k >= N
  BY <1>2
<1> QED
  BY <1>1, <1>2

\* Going round the ring needs at most one subtraction.
LEMMA PlaceIs ==
    ASSUME NEW N \in Nat \ {0}, NEW lb, lb.bufferCount = N,
           lb.readBuffer \in 0..(N - 1), NEW k \in 0..N
    PROVE  /\ Place(lb, k) \in 0..(N - 1)
           /\ Place(lb, k) = IF lb.readBuffer + k < N THEN lb.readBuffer + k
                                                      ELSE lb.readBuffer + k - N
BY Wrap DEF Place

\* Places less than one turn apart are different.
LEMMA PlacesApart ==
    ASSUME NEW N \in Nat \ {0}, NEW lb, lb.bufferCount = N,
           lb.readBuffer \in 0..(N - 1),
           NEW j \in 0..(N - 1), NEW k \in 0..(N - 1), j # k
    PROVE  Place(lb, j) # Place(lb, k)
<1>1. /\ Place(lb, j) = IF lb.readBuffer + j < N THEN lb.readBuffer + j
                                                 ELSE lb.readBuffer + j - N
      /\ Place(lb, k) = IF lb.readBuffer + k < N THEN lb.readBuffer + k
                                                 ELSE lb.readBuffer + k - N
  BY PlaceIs
<1> QED
  BY <1>1

\* The places in the ring, one after the other.
LEMMA PlaceNext ==
    ASSUME NEW N \in Nat \ {0}, NEW lb, lb.bufferCount = N,
           lb.readBuffer \in 0..(N - 1), NEW k \in 0..(N - 1)
    PROVE  /\ (Place(lb, k) + 1) % N = Place(lb, k + 1)
           /\ (Place(lb, 1) + k) % N = Place(lb, k + 1)
           /\ Place(lb, 0) = lb.readBuffer
           /\ (Place(lb, 1) + (N - 1)) % N = lb.readBuffer
<1> DEFINE r == lb.readBuffer
<1>1. r \in 0..(N - 1)
      /\ \A j \in 0..N : Place(lb, j) = IF r + j < N THEN r + j ELSE r + j - N
  BY PlaceIs
<1>2. \A i \in 0..(N - 1), j \in 0..N : (i + j) % N = IF i + j < N THEN i + j ELSE i + j - N
  BY Wrap
<1> HIDE DEF r
<1>3. 0 \in 0..N /\ 1 \in 0..N /\ k \in 0..N /\ k + 1 \in 0..N /\ N - 1 \in 0..N
  OBVIOUS
<1>4. /\ Place(lb, 0) = r
      /\ Place(lb, 1) = IF r + 1 < N THEN r + 1 ELSE r + 1 - N
      /\ Place(lb, k) = IF r + k < N THEN r + k ELSE r + k - N
      /\ Place(lb, k + 1) = IF r + (k + 1) < N THEN r + (k + 1) ELSE r + (k + 1) - N
  BY <1>1, <1>3
<1>5. Place(lb, 1) \in 0..(N - 1) /\ Place(lb, k) \in 0..(N - 1)
  BY <1>1, <1>3, <1>4
<1>6. (Place(lb, k) + 1) % N = IF Place(lb, k) + 1 < N THEN Place(lb, k) + 1 ELSE Place(lb, k) + 1 - N
  BY <1>2, <1>3, <1>5
<1>7. (Place(lb, 1) + k) % N = IF Place(lb, 1) + k < N THEN Place(lb, 1) + k ELSE Place(lb, 1) + k - N
  BY <1>2, <1>3, <1>5
<1>8. (Place(lb, 1) + (N - 1)) % N
         = IF Place(lb, 1) + (N - 1) < N THEN Place(lb, 1) + (N - 1) ELSE Place(lb, 1) + (N - 1) - N
  BY <1>2, <1>3, <1>5
<1>9. r \in 0..(N - 1) /\ lb.readBuffer = r
  BY <1>1 DEF r
<1> HIDE DEF r
<1>10. (Place(lb, k) + 1) % N = Place(lb, k + 1)
  BY <1>4, <1>6, <1>9
<1>11. (Place(lb, 1) + k) % N = Place(lb, k + 1)
  BY <1>4, <1>7, <1>9
<1>12. (Place(lb, 1) + (N - 1)) % N = r
  BY <1>4, <1>8, <1>9
<1> QED
  BY <1>4, <1>9, <1>10, <1>11, <1>12

\* A full buffer and the one taken last, by their places.
LEMMA PendingAt ==
    ASSUME NEW N \in Nat \ {0}, NEW lb, lb.bufferCount = N, lb.fullSem \in 0..N,
           lb.readBuffer \in 0..(N - 1)
    PROVE  /\ \A k \in 1..lb.fullSem : Pending(lb)[k] = lb.buffers[Place(lb, k - 1)]
           /\ Content(lb) = lb.buffers[Place(lb, N - 1)]
           /\ Len(Pending(lb)) = lb.fullSem
<1>1. \A k \in 1..lb.fullSem : lb.readBuffer + k - 1 = lb.readBuffer + (k - 1)
  OBVIOUS
<1>2. lb.readBuffer + lb.bufferCount - 1 = lb.readBuffer + (N - 1)
  OBVIOUS
<1> QED
  BY <1>1, <1>2 DEF Pending, Place, Content, LastFull

\* getEmpty changes neither the frames that wait nor the one that was taken.
LEMMA GetEmptyKeeps ==
    ASSUME NEW N \in Nat \ {0}, NEW S, NEW lb \in LinkBuffers(N, S), RingOK(lb),
           CanGetEmpty(lb)
    PROVE  LET w == GetEmpty(lb) IN
           /\ w \in LinkBuffers(N, S) /\ RingOK(w) /\ w.currentEmpty # NoBuffer
           /\ w.fullSem = lb.fullSem /\ InHands(w) = InHands(lb)
           /\ \A k \in 1..lb.fullSem : Pending(w)[k] = Pending(lb)[k]
           /\ Content(w) = Content(lb)
<1> DEFINE w == GetEmpty(lb)
<1>1. CASE lb.currentEmpty # NoBuffer
  <2>1. w = lb
    BY <1>1 DEF GetEmpty
  <2> QED
    BY <1>1, <2>1
<1>2. CASE lb.currentEmpty = NoBuffer
  <2>1. w = [lb EXCEPT !.emptySem = @ - 1, !.currentEmpty = lb.writeBuffer,
                       !.writeBuffer = (@ + 1) % lb.bufferCount]
    BY <1>2 DEF GetEmpty
  <2>2. lb.emptySem > 0 /\ Current(lb) = 0
    BY <1>2 DEF CanGetEmpty, Current
  <2>3. /\ w.buffers = lb.buffers /\ w.emptySem = lb.emptySem - 1
        /\ w.fullSem = lb.fullSem /\ w.readBuffer = lb.readBuffer
        /\ w.currentEmpty = lb.writeBuffer /\ w.bufferCount = lb.bufferCount
        /\ w.writeBuffer = (lb.writeBuffer + 1) % lb.bufferCount
        /\ w = [buffers |-> w.buffers, emptySem |-> w.emptySem, fullSem |-> w.fullSem,
                readBuffer |-> w.readBuffer, writeBuffer |-> w.writeBuffer,
                currentEmpty |-> w.currentEmpty, bufferCount |-> w.bufferCount]
    BY <2>1 DEF LinkBuffers
  <2> HIDE DEF w
  <2>4. /\ lb.bufferCount = N /\ lb.buffers \in [0..(N - 1) -> S]
        /\ lb.readBuffer \in 0..(N - 1) /\ lb.writeBuffer \in 0..(N - 1)
        /\ lb.emptySem \in 0..N /\ lb.fullSem \in 0..N
        /\ N - 1 <= lb.emptySem + lb.fullSem /\ lb.emptySem + lb.fullSem <= N
        /\ lb.writeBuffer = Place(lb, lb.fullSem)
    BY <2>2, RingFields
  <2>5. lb.fullSem \in 0..(N - 1) /\ lb.fullSem + 1 \in 0..N
    BY <2>2, <2>4
  <2>6. w.currentEmpty # NoBuffer /\ Current(w) = 1
    BY <2>3, <2>4 DEF Current, NoBuffer
  <2>7. w.writeBuffer = Place(lb, lb.fullSem + 1)
    BY <2>3, <2>4, <2>5, PlaceNext
  <2>8. Place(lb, lb.fullSem + 1) \in 0..(N - 1)
    BY <2>4, <2>5, PlaceIs
  <2>9. \A k : Place(w, k) = Place(lb, k)
    BY <2>3 DEF Place
  <2>10. w \in LinkBuffers(N, S)
    <3>1. lb.emptySem - 1 \in 0..N
      BY <2>2, <2>4
    <3> QED
      BY <2>3, <2>4, <2>7, <2>8, <3>1 DEF LinkBuffers
  <2>11. RingOK(w)
    <3>1. /\ N - 1 <= w.emptySem + w.fullSem + 1 /\ w.emptySem + w.fullSem + 1 <= N
      BY <2>2, <2>3, <2>4
    <3>2. w.writeBuffer = Place(w, w.fullSem + 1) /\ w.currentEmpty = Place(w, w.fullSem)
      BY <2>3, <2>4, <2>7, <2>9
    <3>3. w.bufferCount = N /\ w.readBuffer \in Int /\ w.fullSem \in Int
      BY <2>3, <2>4
    <3> QED
      BY <2>6, <3>1, <3>2, <3>3 DEF RingOK, Place
  <2>12. InHands(w) = InHands(lb)
    BY <1>2, <2>3, <2>4, <2>6 DEF InHands
  <2>13. \A k \in 1..lb.fullSem : Pending(w)[k] = Pending(lb)[k]
    BY <2>3 DEF Pending
  <2>14. Content(w) = Content(lb)
    BY <2>3 DEF Content, LastFull
  <2> QED
    BY <2>3, <2>6, <2>10, <2>11, <2>12, <2>13, <2>14 DEF w
<1> QED
  BY <1>1, <1>2

\* Writing into the buffer getEmpty has returned does not disturb the others.
LEMMA WriteKeeps ==
    ASSUME NEW N \in Nat \ {0}, NEW S, NEW lb \in LinkBuffers(N, S), RingOK(lb),
           lb.currentEmpty # NoBuffer, NEW c \in S
    PROVE  LET w == Write(lb, c) IN
           /\ w \in LinkBuffers(N, S) /\ RingOK(w) /\ w.currentEmpty # NoBuffer
           /\ w.fullSem = lb.fullSem /\ InHands(w) = InHands(lb)
           /\ \A k \in 1..lb.fullSem : Pending(w)[k] = Pending(lb)[k]
           /\ InHands(lb) => Content(w) = Content(lb)
           /\ w.buffers[w.currentEmpty] = c
<1> DEFINE w == Write(lb, c)
<1>1. w = [lb EXCEPT !.buffers = [lb.buffers EXCEPT ![lb.currentEmpty] = c]]
  BY DEF Write
<1>2. /\ w.buffers = [lb.buffers EXCEPT ![lb.currentEmpty] = c]
      /\ w.emptySem = lb.emptySem /\ w.writeBuffer = lb.writeBuffer
      /\ w.fullSem = lb.fullSem /\ w.readBuffer = lb.readBuffer
      /\ w.currentEmpty = lb.currentEmpty /\ w.bufferCount = lb.bufferCount
      /\ w = [buffers |-> w.buffers, emptySem |-> w.emptySem, fullSem |-> w.fullSem,
              readBuffer |-> w.readBuffer, writeBuffer |-> w.writeBuffer,
              currentEmpty |-> w.currentEmpty, bufferCount |-> w.bufferCount]
  BY <1>1 DEF LinkBuffers
<1> HIDE DEF w
<1>3. /\ lb.bufferCount = N /\ lb.buffers \in [0..(N - 1) -> S]
      /\ lb.readBuffer \in 0..(N - 1) /\ lb.writeBuffer \in 0..(N - 1)
      /\ lb.emptySem \in 0..N /\ lb.fullSem \in 0..N
      /\ lb.currentEmpty \in 0..(N - 1)
      /\ lb.fullSem + 1 <= N
      /\ InHands(lb) => lb.fullSem + 1 <= N - 1
      /\ lb.currentEmpty = Place(lb, lb.fullSem)
  <2>1. Current(lb) = 1
    BY DEF Current
  <2> QED
    BY <2>1, RingFields
<1>4. w \in LinkBuffers(N, S)
  BY <1>2, <1>3 DEF LinkBuffers
<1>5. Current(w) = Current(lb)
  BY <1>2 DEF Current
<1>6. RingOK(w) /\ InHands(w) = InHands(lb)
  BY <1>2, <1>5 DEF RingOK, InHands
<1>7. \A k : Place(w, k) = Place(lb, k)
  BY <1>2 DEF Place
<1>8. \A k \in 0..(N - 1) : k # lb.fullSem =>
         w.buffers[Place(w, k)] = lb.buffers[Place(lb, k)]
  <2> SUFFICES ASSUME NEW k \in 0..(N - 1), k # lb.fullSem
               PROVE  w.buffers[Place(w, k)] = lb.buffers[Place(lb, k)]
    OBVIOUS
  <2>1. lb.fullSem \in 0..(N - 1) /\ k \in 0..N
    BY <1>3
  <2>2. Place(lb, k) # lb.currentEmpty /\ Place(lb, k) \in 0..(N - 1)
    <3>1. lb.bufferCount = N /\ lb.readBuffer \in 0..(N - 1)
      BY <1>3
    <3>2. Place(lb, k) # Place(lb, lb.fullSem)
      BY <2>1, <3>1, PlacesApart
    <3>3. Place(lb, k) \in 0..(N - 1)
      BY <2>1, <3>1, PlaceIs
    <3> QED
      BY <1>3, <3>2, <3>3
  <2> QED
    BY <1>2, <1>3, <1>7, <2>2
<1>9. /\ \A k \in 1..w.fullSem : Pending(w)[k] = w.buffers[Place(w, k - 1)]
      /\ Content(w) = w.buffers[Place(w, N - 1)]
      /\ \A k \in 1..lb.fullSem : Pending(lb)[k] = lb.buffers[Place(lb, k - 1)]
      /\ Content(lb) = lb.buffers[Place(lb, N - 1)]
  BY <1>2, <1>3, PendingAt
<1>10. \A k \in 1..lb.fullSem : Pending(w)[k] = Pending(lb)[k]
  <2> SUFFICES ASSUME NEW k \in 1..lb.fullSem PROVE Pending(w)[k] = Pending(lb)[k]
    OBVIOUS
  <2>1. k - 1 \in 0..(N - 1) /\ k - 1 # lb.fullSem
    BY <1>3
  <2> QED
    BY <1>2, <1>8, <1>9, <2>1
<1>11. InHands(lb) => Content(w) = Content(lb)
  BY <1>3, <1>8, <1>9
<1>12. w.buffers[w.currentEmpty] = c
  BY <1>2, <1>3
<1> QED
  BY <1>2, <1>4, <1>6, <1>10, <1>11, <1>12 DEF w

\* putFull appends the buffer that was written to those that wait.
LEMMA PutFullAppends ==
    ASSUME NEW N \in Nat \ {0}, NEW S, NEW lb \in LinkBuffers(N, S), RingOK(lb),
           lb.currentEmpty # NoBuffer
    PROVE  LET w == PutFull(lb) IN
           /\ w \in LinkBuffers(N, S) /\ RingOK(w) /\ w.currentEmpty = NoBuffer
           /\ w.fullSem = lb.fullSem + 1 /\ InHands(w) = InHands(lb)
           /\ \A k \in 1..lb.fullSem : Pending(w)[k] = Pending(lb)[k]
           /\ Pending(w)[lb.fullSem + 1] = lb.buffers[lb.currentEmpty]
           /\ Content(w) = Content(lb)
<1> DEFINE w == PutFull(lb)
<1>1. w = [lb EXCEPT !.currentEmpty = NoBuffer, !.fullSem = @ + 1]
  BY DEF PutFull
<1>2. /\ w.buffers = lb.buffers
      /\ w.emptySem = lb.emptySem /\ w.writeBuffer = lb.writeBuffer
      /\ w.fullSem = lb.fullSem + 1 /\ w.readBuffer = lb.readBuffer
      /\ w.currentEmpty = NoBuffer /\ w.bufferCount = lb.bufferCount
      /\ w = [buffers |-> w.buffers, emptySem |-> w.emptySem, fullSem |-> w.fullSem,
              readBuffer |-> w.readBuffer, writeBuffer |-> w.writeBuffer,
              currentEmpty |-> w.currentEmpty, bufferCount |-> w.bufferCount]
  BY <1>1 DEF LinkBuffers
<1> HIDE DEF w
<1>3. Current(lb) = 1 /\ Current(w) = 0
  BY <1>2 DEF Current
<1>4. /\ lb.bufferCount = N /\ lb.buffers \in [0..(N - 1) -> S]
      /\ lb.readBuffer \in 0..(N - 1) /\ lb.writeBuffer \in 0..(N - 1)
      /\ lb.emptySem \in 0..N /\ lb.fullSem \in 0..N
      /\ lb.currentEmpty \in 0..(N - 1)
      /\ N - 1 <= lb.emptySem + lb.fullSem + 1
      /\ lb.emptySem + lb.fullSem + 1 <= N
      /\ lb.fullSem + 1 \in 0..N
      /\ lb.currentEmpty = Place(lb, lb.fullSem)
      /\ lb.writeBuffer = Place(lb, lb.fullSem + 1)
  <2>1. /\ lb.bufferCount = N /\ lb.buffers \in [0..(N - 1) -> S]
        /\ lb.readBuffer \in 0..(N - 1) /\ lb.writeBuffer \in 0..(N - 1)
        /\ lb.emptySem \in 0..N /\ lb.fullSem \in 0..N
        /\ lb.currentEmpty \in {NoBuffer} \cup (0..(N - 1))
        /\ N - 1 <= lb.emptySem + lb.fullSem + Current(lb)
        /\ lb.emptySem + lb.fullSem + Current(lb) <= N
        /\ lb.fullSem + Current(lb) \in 0..N
    BY RingFields
  <2>2. /\ lb.writeBuffer = Place(lb, lb.fullSem + Current(lb))
        /\ lb.currentEmpty = Place(lb, lb.fullSem)
    BY RingFields
  <2> QED
    BY <1>3, <2>1, <2>2
<1>5. w \in LinkBuffers(N, S)
  BY <1>2, <1>4 DEF LinkBuffers
<1>6. \A k : Place(w, k) = Place(lb, k)
  BY <1>2 DEF Place
<1>7. RingOK(w)
  <2>1. w.fullSem + Current(w) = lb.fullSem + 1
    BY <1>2, <1>3, <1>4
  <2>2. w.writeBuffer = Place(w, w.fullSem + Current(w))
    BY <1>2, <1>4, <1>6, <2>1
  <2>3. /\ w.bufferCount - 1 <= w.emptySem + w.fullSem + Current(w)
        /\ w.emptySem + w.fullSem + Current(w) <= w.bufferCount
    BY <1>2, <1>3, <1>4
  <2>4. w.readBuffer + w.fullSem + Current(w) = w.readBuffer + (w.fullSem + Current(w))
    BY <1>2, <1>3, <1>4
  <2> QED
    BY <1>2, <2>2, <2>3, <2>4 DEF RingOK, Place
<1>8. InHands(w) = InHands(lb)
  BY <1>2, <1>4 DEF InHands
<1>9. /\ \A k \in 1..w.fullSem : Pending(w)[k] = w.buffers[Place(w, k - 1)]
      /\ \A k \in 1..lb.fullSem : Pending(lb)[k] = lb.buffers[Place(lb, k - 1)]
  BY <1>2, <1>4, PendingAt
<1>10. Pending(w)[lb.fullSem + 1] = lb.buffers[lb.currentEmpty]
  <2>1. lb.fullSem + 1 \in 1..w.fullSem /\ (lb.fullSem + 1) - 1 = lb.fullSem
    BY <1>2, <1>4
  <2> QED
    BY <1>2, <1>4, <1>6, <1>9, <2>1
<1>11. \A k \in 1..lb.fullSem : Pending(w)[k] = Pending(lb)[k]
  BY <1>2, <1>4, <1>6, <1>9
<1>12. Content(w) = Content(lb)
  BY <1>2 DEF Content, LastFull
<1> QED
  BY <1>2, <1>5, <1>7, <1>8, <1>10, <1>11, <1>12 DEF w

\* getFull takes the oldest of the buffers that wait.
LEMMA GetFullTakes ==
    ASSUME NEW N \in Nat \ {0}, NEW S, NEW lb \in LinkBuffers(N, S), RingOK(lb),
           CanGetFull(lb), ~InHands(lb)
    PROVE  LET w == GetFull(lb) IN
           /\ w \in LinkBuffers(N, S) /\ RingOK(w) /\ w.currentEmpty = lb.currentEmpty
           /\ w.fullSem = lb.fullSem - 1 /\ InHands(w)
           /\ \A k \in 1..w.fullSem : Pending(w)[k] = Pending(lb)[k + 1]
           /\ Content(w) = Pending(lb)[1]
<1> DEFINE w == GetFull(lb)
<1>1. w = [lb EXCEPT !.fullSem = @ - 1, !.readBuffer = (@ + 1) % lb.bufferCount]
  BY DEF GetFull
<1>2. /\ w.buffers = lb.buffers
      /\ w.emptySem = lb.emptySem /\ w.writeBuffer = lb.writeBuffer
      /\ w.fullSem = lb.fullSem - 1 /\ w.readBuffer = (lb.readBuffer + 1) % lb.bufferCount
      /\ w.currentEmpty = lb.currentEmpty /\ w.bufferCount = lb.bufferCount
      /\ w = [buffers |-> w.buffers, emptySem |-> w.emptySem, fullSem |-> w.fullSem,
              readBuffer |-> w.readBuffer, writeBuffer |-> w.writeBuffer,
              currentEmpty |-> w.currentEmpty, bufferCount |-> w.bufferCount]
  BY <1>1 DEF LinkBuffers
<1> HIDE DEF w
<1>3. /\ lb.bufferCount = N /\ lb.buffers \in [0..(N - 1) -> S]
      /\ lb.readBuffer \in 0..(N - 1) /\ lb.writeBuffer \in 0..(N - 1)
      /\ lb.emptySem \in 0..N /\ lb.fullSem \in 1..N
      /\ lb.currentEmpty \in {NoBuffer} \cup (0..(N - 1))
      /\ Current(lb) \in {0, 1}
      /\ lb.emptySem + lb.fullSem + Current(lb) = N
      /\ lb.writeBuffer = Place(lb, lb.fullSem + Current(lb))
      /\ lb.currentEmpty # NoBuffer => lb.currentEmpty = Place(lb, lb.fullSem)
  BY RingFields DEF CanGetFull
<1>4. w.readBuffer = Place(lb, 1) /\ w.readBuffer \in 0..(N - 1)
  <2>1. 1 \in 0..N
    OBVIOUS
  <2> QED
    <3>1. w.readBuffer = Place(lb, 1)
      BY <1>2 DEF Place
    <3>2. Place(lb, 1) \in 0..(N - 1)
      BY <1>3, <2>1, PlaceIs
    <3> QED
      BY <3>1, <3>2
<1>5. w \in LinkBuffers(N, S)
  <2>1. /\ w.buffers \in [0..(N - 1) -> S] /\ w.emptySem \in 0..N /\ w.fullSem \in 0..N
        /\ w.writeBuffer \in 0..(N - 1) /\ w.bufferCount \in {N}
        /\ w.currentEmpty \in {NoBuffer} \cup (0..(N - 1))
    BY ONLY <1>2, <1>3
  <2>2. w = [buffers |-> w.buffers, emptySem |-> w.emptySem, fullSem |-> w.fullSem,
             readBuffer |-> w.readBuffer, writeBuffer |-> w.writeBuffer,
             currentEmpty |-> w.currentEmpty, bufferCount |-> w.bufferCount]
    BY <1>2
  <2> QED
    BY <1>4, <2>1, <2>2 DEF LinkBuffers
<1>6. /\ \A k \in 0..(N - 1) : Place(w, k) = Place(lb, k + 1)
      /\ Place(w, N - 1) = lb.readBuffer /\ Place(lb, 0) = lb.readBuffer
  <2>1. w.bufferCount = N /\ 0 \in 0..(N - 1)
    BY <1>2, <1>3
  <2> QED
    BY <1>3, <1>4, <2>1, PlaceNext DEF Place
<1>7. Current(w) = Current(lb)
  BY <1>2 DEF Current
<1>8. RingOK(w)
  <2>1. /\ w.fullSem + Current(lb) \in 0..(N - 1) /\ w.fullSem \in 0..(N - 1)
        /\ w.fullSem + Current(lb) + 1 = lb.fullSem + Current(lb)
        /\ w.fullSem + 1 = lb.fullSem
        /\ N - 1 <= w.emptySem + w.fullSem + Current(lb)
        /\ w.emptySem + w.fullSem + Current(lb) <= N
    <3> DEFINE c == Current(lb)
               f == lb.fullSem
               e == lb.emptySem
    <3>1. c \in {0, 1} /\ f \in 1..N /\ e \in 0..N /\ e + f + c = N
      BY <1>3
    <3>2. w.fullSem = f - 1 /\ w.emptySem = e
      BY <1>2
    <3> HIDE DEF c, f, e
    <3>3. /\ (f - 1) + c \in 0..(N - 1) /\ f - 1 \in 0..(N - 1)
          /\ (f - 1) + c + 1 = f + c /\ (f - 1) + 1 = f
          /\ N - 1 <= e + (f - 1) + c /\ e + (f - 1) + c <= N
      BY <3>1
    <3> QED
      BY <3>2, <3>3 DEF c, f, e
  <2>2. /\ w.writeBuffer = Place(w, w.fullSem + Current(lb))
        /\ w.currentEmpty # NoBuffer => w.currentEmpty = Place(w, w.fullSem)
    BY <1>2, <1>3, <1>6, <2>1
  <2>3. w.readBuffer + w.fullSem + Current(lb) = w.readBuffer + (w.fullSem + Current(lb))
    BY <1>3, <1>4, <2>1
  <2> QED
    BY <1>2, <1>3, <1>7, <2>1, <2>2, <2>3 DEF RingOK, Place
<1>9. InHands(w)
  BY <1>2, <1>3 DEF InHands, Current
<1>10. /\ \A k \in 1..w.fullSem : Pending(w)[k] = w.buffers[Place(w, k - 1)]
       /\ Content(w) = w.buffers[Place(w, N - 1)]
       /\ \A k \in 1..lb.fullSem : Pending(lb)[k] = lb.buffers[Place(lb, k - 1)]
  <2>1. w.bufferCount = N /\ w.fullSem \in 0..N /\ lb.fullSem \in 0..N
    BY <1>2, <1>3
  <2> QED
    BY <1>3, <1>4, <2>1, PendingAt
<1>11. \A k \in 1..w.fullSem : Pending(w)[k] = Pending(lb)[k + 1]
  <2> SUFFICES ASSUME NEW k \in 1..w.fullSem PROVE Pending(w)[k] = Pending(lb)[k + 1]
    OBVIOUS
  <2>1. k + 1 \in 1..lb.fullSem /\ (k + 1) - 1 = k /\ k - 1 \in 0..(N - 1)
        /\ (k - 1) + 1 = k
    <3>1. w.fullSem = lb.fullSem - 1 /\ lb.fullSem \in 1..N
      BY <1>2, <1>3
    <3> QED
      BY <3>1
  <2> QED
    BY <1>2, <1>6, <1>10, <2>1
<1>12. Content(w) = Pending(lb)[1]
  <2>1. 1 \in 1..lb.fullSem /\ 1 - 1 = 0
    BY <1>3
  <2>2. Pending(lb)[1] = lb.buffers[Place(lb, 0)]
    BY <1>10, <2>1
  <2> QED
    BY <1>2, <1>6, <1>10, <2>2
<1> QED
  BY <1>2, <1>5, <1>8, <1>9, <1>11, <1>12 DEF w

\* putEmpty gives back the buffer that was taken.
LEMMA PutEmptyReturns ==
    ASSUME NEW N \in Nat \ {0}, NEW S, NEW lb \in LinkBuffers(N, S), RingOK(lb),
           InHands(lb)
    PROVE  LET w == PutEmpty(lb) IN
           /\ w \in LinkBuffers(N, S) /\ RingOK(w) /\ w.currentEmpty = lb.currentEmpty
           /\ w.fullSem = lb.fullSem /\ ~InHands(w)
           /\ \A k \in 1..lb.fullSem : Pending(w)[k] = Pending(lb)[k]
<1> DEFINE w == PutEmpty(lb)
<1>1. w = [lb EXCEPT !.emptySem = @ + 1]
  BY DEF PutEmpty
<1>2. /\ w.buffers = lb.buffers
      /\ w.emptySem = lb.emptySem + 1 /\ w.writeBuffer = lb.writeBuffer
      /\ w.fullSem = lb.fullSem /\ w.readBuffer = lb.readBuffer
      /\ w.currentEmpty = lb.currentEmpty /\ w.bufferCount = lb.bufferCount
      /\ w = [buffers |-> w.buffers, emptySem |-> w.emptySem, fullSem |-> w.fullSem,
              readBuffer |-> w.readBuffer, writeBuffer |-> w.writeBuffer,
              currentEmpty |-> w.currentEmpty, bufferCount |-> w.bufferCount]
  BY <1>1 DEF LinkBuffers
<1> HIDE DEF w
<1>3. /\ lb.bufferCount = N /\ lb.buffers \in [0..(N - 1) -> S]
      /\ lb.readBuffer \in 0..(N - 1) /\ lb.writeBuffer \in 0..(N - 1)
      /\ lb.emptySem \in 0..N /\ lb.fullSem \in 0..N
      /\ lb.currentEmpty \in {NoBuffer} \cup (0..(N - 1))
      /\ Current(lb) \in {0, 1}
      /\ lb.emptySem + lb.fullSem + Current(lb) = N - 1
  BY RingFields
<1>4. Current(w) = Current(lb)
  BY <1>2 DEF Current
<1>5. w \in LinkBuffers(N, S)
  BY <1>2, <1>3 DEF LinkBuffers
<1>6. RingOK(w)
  BY <1>2, <1>3, <1>4 DEF RingOK
<1>7. ~InHands(w)
  BY <1>2, <1>3 DEF InHands, Current
<1>8. \A k \in 1..lb.fullSem : Pending(w)[k] = Pending(lb)[k]
  BY <1>2 DEF Pending
<1> QED
  BY <1>2, <1>5, <1>6, <1>7, <1>8 DEF w

----------------------------------------------------------------------------
(* What the steps of the threads do to the rings. *)

Contents == Torn..NumFrames

\* The two rings as the lemmas above take them.
LEMMA Typed ==
    ASSUME IInv
    PROVE  /\ TxBuffers \in Nat \ {0} /\ RxBuffers \in Nat \ {0} /\ NumFrames \in Nat
           /\ tx \in LinkBuffers(TxBuffers, Contents) /\ RingOK(tx)
           /\ rx \in LinkBuffers(RxBuffers, Contents) /\ RingOK(rx)
           /\ tx.fullSem \in Nat /\ rx.fullSem \in Nat
           /\ pushed \in 0..NumFrames /\ fetched \in 0..NumFrames
           /\ Torn \in Contents /\ Empty \in Contents
<1>1. /\ TxBuffers \in Nat \ {0} /\ RxBuffers \in Nat \ {0} /\ NumFrames \in Nat
      /\ tx \in LinkBuffers(TxBuffers, Contents) /\ RingOK(tx)
      /\ rx \in LinkBuffers(RxBuffers, Contents) /\ RingOK(rx)
      /\ pushed \in 0..NumFrames /\ fetched \in 0..NumFrames
  BY SocketLinkAssumption DEF IInv, TypeOK, Rings, Contents
<1>2. tx.fullSem \in Nat /\ rx.fullSem \in Nat
  BY <1>1, RingFields
<1>3. Torn \in Contents /\ Empty \in Contents
  BY <1>1 DEF Contents, Torn, Empty
<1> QED
  BY <1>1, <1>2, <1>3

\* What the reader of the last frame finds is a frame.
LEMMA ContentTyped ==
    ASSUME NEW N \in Nat \ {0}, NEW S, NEW lb \in LinkBuffers(N, S), RingOK(lb)
    PROVE  Content(lb) \in S
<1>1. lb.bufferCount = N /\ lb.buffers \in [0..(N - 1) -> S] /\ lb.readBuffer \in 0..(N - 1)
  BY RingFields
<1>2. LastFull(lb) = Place(lb, N - 1) /\ N - 1 \in 0..N
  BY <1>1 DEF LastFull, Place
<1>3. LastFull(lb) \in 0..(N - 1)
  BY <1>1, <1>2, PlaceIs
<1>4. lb.buffers[LastFull(lb)] \in S
  BY ONLY <1>1, <1>3
<1> QED
  BY <1>4 DEF Content

\* There is one message on the connection at most.
LEMMA Wire ==
    ASSUME IInv
    PROVE  /\ toPump # <<>> => Tail(toPump) = <<>> /\ toFiller = <<>> /\ Head(toPump) \in Messages
           /\ toFiller # <<>> => /\ Tail(toFiller) = <<>> /\ toPump = <<>>
                                /\ Head(toFiller) \in {"errNone", "errType"}
<1>1. toPump \in Seq(Messages) /\ toFiller \in Seq({"errNone", "errType"})
      /\ Len(toPump) + Len(toFiller) <= 1
  BY DEF IInv, TypeOK, Lockstep
<1>2. toPump # <<>> => Len(toPump) >= 1
  BY <1>1
<1>3. toFiller # <<>> => Len(toFiller) >= 1
  BY <1>1
<1>4. Len(toPump) \in Nat /\ Len(toFiller) \in Nat
  BY <1>1
<1>5. toPump # <<>> => Tail(toPump) = <<>> /\ toFiller = <<>> /\ Head(toPump) \in Messages
  BY <1>1, <1>2, <1>3, <1>4
<1>6. toFiller # <<>> => /\ Tail(toFiller) = <<>> /\ toPump = <<>>
                         /\ Head(toFiller) \in {"errNone", "errType"}
  BY <1>1, <1>2, <1>3, <1>4
<1> QED
  BY <1>5, <1>6

\* A message put on an idle connection.
LEMMA Sent ==
    \A m : /\ Append(<<>>, m) # <<>> /\ Head(Append(<<>>, m)) = m
           /\ Len(Append(<<>>, m)) = 1
OBVIOUS

\* The ring w holds the same frames as lb.
SameFrames(lb, w) ==
    /\ RingOK(w) /\ w.fullSem = lb.fullSem
    /\ \A k \in 1..lb.fullSem : Pending(w)[k] = Pending(lb)[k]

\* The ring w is lb with frame c appended.
OneMore(lb, w, c) ==
    /\ RingOK(w) /\ w.fullSem = lb.fullSem + 1
    /\ \A k \in 1..lb.fullSem : Pending(w)[k] = Pending(lb)[k]
    /\ Pending(w)[lb.fullSem + 1] = c
    /\ w.currentEmpty = NoBuffer

\* Whoever took the last frame is still at it.
SameHands(lb, w) == InHands(w) = InHands(lb) /\ (InHands(lb) => Content(w) = Content(lb))

\* The ring w is lb with the oldest frame taken.
OneLess(lb, w) ==
    /\ RingOK(w) /\ w.fullSem = lb.fullSem - 1 /\ lb.fullSem > 0
    /\ \A k \in 1..w.fullSem : Pending(w)[k] = Pending(lb)[k + 1]
    /\ InHands(w) /\ Content(w) = Pending(lb)[1]
    /\ w.currentEmpty = lb.currentEmpty

\* Serialization starts: what waits in the ring is not touched.
LEMMA BeginPushRing ==
    ASSUME IInv, BeginPush
    PROVE  /\ tx' \in LinkBuffers(TxBuffers, Contents)
           /\ SameFrames(tx, tx') /\ SameHands(tx, tx') /\ tx'.currentEmpty # NoBuffer
<1> DEFINE v == GetEmpty(tx)
<1>1. /\ v \in LinkBuffers(TxBuffers, Contents) /\ RingOK(v) /\ v.currentEmpty # NoBuffer
      /\ v.fullSem = tx.fullSem /\ InHands(v) = InHands(tx)
      /\ \A k \in 1..tx.fullSem : Pending(v)[k] = Pending(tx)[k]
      /\ Content(v) = Content(tx)
  BY Typed, GetEmptyKeeps DEF BeginPush
<1>2. tx' = Write(v, Torn)
  BY DEF BeginPush
<1> HIDE DEF v
<1>3. /\ tx' \in LinkBuffers(TxBuffers, Contents) /\ RingOK(tx')
      /\ tx'.currentEmpty # NoBuffer
      /\ tx'.fullSem = v.fullSem /\ InHands(tx') = InHands(v)
      /\ \A k \in 1..v.fullSem : Pending(tx')[k] = Pending(v)[k]
      /\ InHands(v) => Content(tx') = Content(v)
  BY <1>1, <1>2, Typed, WriteKeeps
<1> QED
  BY <1>1, <1>3 DEF SameFrames, SameHands

\* push appends the next frame.
LEMMA EndPushRing ==
    ASSUME IInv, EndPush
    PROVE  /\ tx' \in LinkBuffers(TxBuffers, Contents)
           /\ OneMore(tx, tx', pushed + 1) /\ SameHands(tx, tx')
<1> DEFINE f == pushed + 1
           v == Write(tx, f)
<1>1. tx.currentEmpty # NoBuffer /\ f \in Contents
  BY Typed DEF EndPush, IInv, SenderSide, SenderRuns, Contents, Torn
<1>2. tx' = PutFull(v)
  BY DEF EndPush
<1> HIDE DEF f
<1>3. /\ v \in LinkBuffers(TxBuffers, Contents) /\ RingOK(v) /\ v.currentEmpty # NoBuffer
      /\ v.fullSem = tx.fullSem /\ InHands(v) = InHands(tx)
      /\ \A k \in 1..tx.fullSem : Pending(v)[k] = Pending(tx)[k]
      /\ InHands(tx) => Content(v) = Content(tx)
      /\ v.buffers[v.currentEmpty] = f
  BY <1>1, Typed, WriteKeeps
<1> HIDE DEF v
<1>4. /\ tx' \in LinkBuffers(TxBuffers, Contents) /\ RingOK(tx')
      /\ tx'.currentEmpty = NoBuffer
      /\ tx'.fullSem = v.fullSem + 1 /\ InHands(tx') = InHands(v)
      /\ \A k \in 1..v.fullSem : Pending(tx')[k] = Pending(v)[k]
      /\ Pending(tx')[v.fullSem + 1] = v.buffers[v.currentEmpty]
      /\ Content(tx') = Content(v)
  BY <1>2, <1>3, Typed, PutFullAppends
<1> QED
  BY <1>3, <1>4 DEF OneMore, SameHands, f

\* ~FdFiller appends an empty buffer.
LEMMA SendEndRing ==
    ASSUME IInv, SendEnd
    PROVE  /\ tx' \in LinkBuffers(TxBuffers, Contents)
           /\ OneMore(tx, tx', Empty) /\ SameHands(tx, tx')
<1> DEFINE u == GetEmpty(tx)
           v == Write(u, Empty)
<1>1. /\ u \in LinkBuffers(TxBuffers, Contents) /\ RingOK(u) /\ u.currentEmpty # NoBuffer
      /\ u.fullSem = tx.fullSem /\ InHands(u) = InHands(tx)
      /\ \A k \in 1..tx.fullSem : Pending(u)[k] = Pending(tx)[k]
      /\ Content(u) = Content(tx)
  BY Typed, GetEmptyKeeps DEF SendEnd
<1>2. tx' = PutFull(v)
  BY DEF SendEnd
<1> HIDE DEF u
<1>3. /\ v \in LinkBuffers(TxBuffers, Contents) /\ RingOK(v) /\ v.currentEmpty # NoBuffer
      /\ v.fullSem = u.fullSem /\ InHands(v) = InHands(u)
      /\ \A k \in 1..u.fullSem : Pending(v)[k] = Pending(u)[k]
      /\ InHands(u) => Content(v) = Content(u)
      /\ v.buffers[v.currentEmpty] = Empty
  BY <1>1, Typed, WriteKeeps
<1> HIDE DEF v
<1>4. /\ tx' \in LinkBuffers(TxBuffers, Contents) /\ RingOK(tx')
      /\ tx'.currentEmpty = NoBuffer
      /\ tx'.fullSem = v.fullSem + 1 /\ InHands(tx') = InHands(v)
      /\ \A k \in 1..v.fullSem : Pending(tx')[k] = Pending(v)[k]
      /\ Pending(tx')[v.fullSem + 1] = v.buffers[v.currentEmpty]
      /\ Content(tx') = Content(v)
  BY <1>2, <1>3, Typed, PutFullAppends
<1> QED
  BY <1>1, <1>3, <1>4 DEF OneMore, SameHands

\* The filler takes the oldest frame, or the end marker.
LEMMA FillerTakesRing ==
    ASSUME IInv, SendDataHeader \/ ReadEnd
    PROVE  tx' \in LinkBuffers(TxBuffers, Contents) /\ OneLess(tx, tx')
<1>1. tx' = GetFull(tx) /\ CanGetFull(tx) /\ ~InHands(tx)
  BY DEF SendDataHeader, ReadEnd, IInv, SenderSide, SenderRuns, TypeOK
<1> QED
  BY <1>1, Typed, GetFullTakes DEF OneLess, CanGetFull

\* The filler gives the buffer back.
LEMMA FrameAcceptedRing ==
    ASSUME IInv, FrameAccepted
    PROVE  /\ tx' \in LinkBuffers(TxBuffers, Contents) /\ SameFrames(tx, tx')
           /\ ~InHands(tx') /\ tx'.currentEmpty = tx.currentEmpty
<1>1. tx' = PutEmpty(tx) /\ InHands(tx)
  BY DEF FrameAccepted, Accepted, IInv, SenderSide, SenderRuns, TypeOK
<1> QED
  BY <1>1, Typed, PutEmptyReturns DEF SameFrames

\* The pump gets a buffer ...
LEMMA PumpGetEmptyRing ==
    ASSUME IInv, PumpGetEmpty
    PROVE  /\ rx' \in LinkBuffers(RxBuffers, Contents)
           /\ SameFrames(rx, rx') /\ SameHands(rx, rx') /\ rx'.currentEmpty # NoBuffer
BY Typed, GetEmptyKeeps DEF PumpGetEmpty, SameFrames, SameHands

\* ... reads data into it ...
LEMMA ReadDataHeaderRing ==
    ASSUME IInv, ReadDataHeader
    PROVE  /\ rx' \in LinkBuffers(RxBuffers, Contents)
           /\ SameFrames(rx, rx') /\ SameHands(rx, rx') /\ rx'.currentEmpty # NoBuffer
<1>1. rx' = Write(rx, Torn) /\ rx.currentEmpty # NoBuffer
  BY DEF ReadDataHeader, IInv, ReceiverSide, ReceiverRuns
<1> QED
  BY <1>1, Typed, WriteKeeps DEF SameFrames, SameHands

\* ... and appends the frame it has received.
LEMMA ReadDataRing ==
    ASSUME IInv, ReadData
    PROVE  /\ rx' \in LinkBuffers(RxBuffers, Contents)
           /\ OneMore(rx, rx', Head(toPump).frame) /\ SameHands(rx, rx')
<1> DEFINE f == Head(toPump).frame
           v == Write(rx, f)
<1>1. rx.currentEmpty # NoBuffer
  BY DEF ReadData, IInv, ReceiverSide, ReceiverRuns
<1>2. Head(toPump) \in Messages
  BY DEF ReadData, Received, IInv, TypeOK
<1>3. f \in Contents
  BY <1>2 DEF Messages, Contents
<1>4. rx' = PutFull(v)
  BY DEF ReadData
<1> HIDE DEF f
<1>5. /\ v \in LinkBuffers(RxBuffers, Contents) /\ RingOK(v) /\ v.currentEmpty # NoBuffer
      /\ v.fullSem = rx.fullSem /\ InHands(v) = InHands(rx)
      /\ \A k \in 1..rx.fullSem : Pending(v)[k] = Pending(rx)[k]
      /\ InHands(rx) => Content(v) = Content(rx)
      /\ v.buffers[v.currentEmpty] = f
  BY <1>1, <1>3, Typed, WriteKeeps
<1> HIDE DEF v
<1>6. /\ rx' \in LinkBuffers(RxBuffers, Contents) /\ RingOK(rx')
      /\ rx'.currentEmpty = NoBuffer
      /\ rx'.fullSem = v.fullSem + 1 /\ InHands(rx') = InHands(v)
      /\ \A k \in 1..v.fullSem : Pending(rx')[k] = Pending(v)[k]
      /\ Pending(rx')[v.fullSem + 1] = v.buffers[v.currentEmpty]
      /\ Content(rx') = Content(v)
  BY <1>4, <1>5, Typed, PutFullAppends
<1> QED
  BY <1>5, <1>6 DEF OneMore, SameHands, f

\* The consumer takes the oldest frame ...
LEMMA BeginFetchRing ==
    ASSUME IInv, BeginFetch
    PROVE  rx' \in LinkBuffers(RxBuffers, Contents) /\ OneLess(rx, rx')
<1>1. rx' = GetFull(rx) /\ CanGetFull(rx) /\ ~InHands(rx)
  BY DEF BeginFetch, IInv, ReceiverSide, ReceiverRuns
<1> QED
  BY <1>1, Typed, GetFullTakes DEF OneLess, CanGetFull

\* ... and gives the buffer back.
LEMMA EndFetchRing ==
    ASSUME IInv, EndFetch
    PROVE  /\ rx' \in LinkBuffers(RxBuffers, Contents) /\ SameFrames(rx, rx')
           /\ ~InHands(rx') /\ rx'.currentEmpty = rx.currentEmpty
<1>1. rx' = PutEmpty(rx) /\ InHands(rx)
  BY DEF EndFetch, IInv, ReceiverSide, ReceiverRuns
<1> QED
  BY <1>1, Typed, PutEmptyReturns DEF SameFrames

\* What is on its way is what its reader is prepared for.
Expected ==
    /\ Len(toPump) + Len(toFiller) <= 1
    /\ toFiller # <<>> /\ "sender" \notin killed => filler \in Answered
    /\ toPump # <<>> =>
         /\ Head(toPump).kind \in {"linkHeader", "typeName", "dataHeader", "data"}
         /\ "receiver" \notin killed =>
              /\ Head(toPump).kind = "linkHeader" => ~assigned
              /\ Head(toPump).kind = "typeName" => pump \in {"wait", "name"}
              /\ Head(toPump).kind = "dataHeader" => pump \in {"empty", "dataHeader"}
              /\ Head(toPump).kind = "data" => pump = "data"

\* This is Lockstep.
LEMMA LockstepIs == Expected => Lockstep
BY DEF Expected, Lockstep, Answered

\* And Lockstep is this.
LEMMA Expects == IInv => Expected
<1> SUFFICES ASSUME IInv PROVE Expected
  OBVIOUS
<1>1. toPump # <<>> => Head(toPump).kind \in {"linkHeader", "typeName", "dataHeader", "data"}
  BY Wire DEF Messages
<1> QED
  BY <1>1 DEF IInv, Expected, Lockstep, Answered

\* Where the two threads at the connection can be, without the rings.
LEMMA Places ==
    ASSUME IInv
    PROVE  /\ killed \subseteq {"sender", "receiver"}
           /\ filler \in Answered \cup {"connect", "loop", "ended", "dead", "killed"}
           /\ "sender" \in killed <=> filler = "killed"
           /\ "receiver" \in killed <=> pump = "killed"
           /\ filler \in {"connect", "loop", "ended", "dead", "killed"} /\ "sender" \notin killed =>
                toFiller = <<>>
           /\ filler \in {"connect", "loop", "ended"} => toPump = <<>>
           /\ pump = "wait" /\ assigned => toPump = <<>> /\ toFiller = <<>>
           /\ ~assigned => (pump = "wait" \/ pump = "killed") /\ ("receiver" \notin killed => toFiller = <<>>)
           /\ pump = "ended" => toPump = <<>>
           /\ filler = "connect" /\ "receiver" \notin killed => ~assigned
           /\ filler = "header" /\ "receiver" \notin killed /\ toPump # <<>> => ~assigned
           /\ filler = "header" /\ "receiver" \notin killed /\ toPump = <<>> /\ toFiller = <<>> =>
                assigned /\ pump = "wait"
           /\ filler = "header" /\ "receiver" \notin killed /\ toFiller # <<>> =>
                assigned /\ pump = (IF Head(toFiller) = "errNone" THEN "name" ELSE "ended")
           /\ filler = "name" /\ "receiver" \notin killed =>
                 /\ toPump # <<>> => pump = "name"
                 /\ toPump = <<>> => toFiller # <<>>
           /\ filler = "loop" /\ "receiver" \notin killed => pump \in {"empty", "dataHeader"}
           /\ filler = "dataHeader" /\ "receiver" \notin killed =>
                 /\ toPump # <<>> => pump \in {"empty", "dataHeader"}
                 /\ toPump = <<>> => toFiller # <<>> /\ pump = "data"
           /\ filler = "data" /\ "receiver" \notin killed =>
                 /\ toPump # <<>> => pump = "data"
                 /\ toPump = <<>> => toFiller # <<>> /\ pump \in {"empty", "dataHeader"}
           /\ filler = "ended" /\ "receiver" \notin killed => pump \in {"empty", "dataHeader", "ended"}
           /\ filler = "dead" /\ "receiver" \notin killed => pump = "ended" \/ ~assigned
<1> USE Wire
    DEF IInv, SenderRuns, ReceiverRuns, Answered
<1>1. /\ killed \subseteq {"sender", "receiver"}
      /\ filler \in {"connect", "header", "name", "loop", "dataHeader", "data",
                   "ended", "dead", "killed"}
      /\ pump \in {"wait", "name", "empty", "dataHeader", "data", "ended", "killed"}
  BY DEF TypeOK
<1>2. /\ "sender" \in killed <=> filler = "killed"
      /\ filler \in {"connect", "loop", "ended", "dead", "killed"} /\ "sender" \notin killed =>
           toFiller = <<>>
      /\ filler \in {"connect", "loop", "ended"} => toPump = <<>>
  BY DEF SenderSide
<1>3. /\ "receiver" \in killed <=> pump = "killed"
      /\ pump = "wait" /\ assigned => toPump = <<>> /\ toFiller = <<>>
      /\ ~assigned => (pump = "wait" \/ pump = "killed") /\ ("receiver" \notin killed => toFiller = <<>>)
      /\ pump = "ended" => toPump = <<>>
  BY DEF ReceiverSide
<1>4. /\ filler = "connect" /\ "receiver" \notin killed => ~assigned
      /\ filler = "header" /\ "receiver" \notin killed /\ toPump # <<>> => ~assigned
      /\ filler = "header" /\ "receiver" \notin killed /\ toPump = <<>> /\ toFiller = <<>> =>
           assigned /\ pump = "wait"
      /\ filler = "header" /\ "receiver" \notin killed /\ toFiller # <<>> =>
           assigned /\ pump = (IF Head(toFiller) = "errNone" THEN "name" ELSE "ended")
  BY <1>2 DEF Turns
<1>5. /\ filler = "name" /\ "receiver" \notin killed =>
            /\ toPump # <<>> => pump = "name"
            /\ toPump = <<>> => toFiller # <<>>
      /\ filler = "loop" /\ "receiver" \notin killed => pump \in {"empty", "dataHeader"}
  BY <1>2 DEF Turns
<1>6. /\ filler = "dataHeader" /\ "receiver" \notin killed =>
            /\ toPump # <<>> => pump \in {"empty", "dataHeader"}
            /\ toPump = <<>> => toFiller # <<>> /\ pump = "data"
      /\ filler = "data" /\ "receiver" \notin killed =>
            /\ toPump # <<>> => pump = "data"
            /\ toPump = <<>> => toFiller # <<>> /\ pump \in {"empty", "dataHeader"}
  BY <1>2 DEF Turns
<1>7. /\ filler = "ended" /\ "receiver" \notin killed => pump \in {"empty", "dataHeader", "ended"}
      /\ filler = "dead" /\ "receiver" \notin killed => pump = "ended" \/ ~assigned
  BY <1>2 DEF Turns, Separated
<1> QED
  BY <1>1, <1>2, <1>3, <1>4, <1>5, <1>6, <1>7

\* When the pump reads a message, the filler waits for its answer.
LEMMA Awaits ==
    ASSUME IInv, "sender" \notin killed, "receiver" \notin killed, toPump # <<>>
    PROVE  /\ pump = "dataHeader" => filler = "dataHeader" \/ filler = "data"
           /\ pump = "dataHeader" /\ filler = "data" => FALSE
           /\ pump = "data" => filler = "data"
<1>1. toFiller = <<>> /\ filler # "killed" /\ filler \notin {"connect", "loop", "ended"}
  BY Places, Wire
<1>2. filler = "header" => pump = "wait"
  BY Places, <1>1
<1>3. filler = "name" => pump = "name"
  BY Places
<1>4. filler = "dead" => pump \in {"wait", "ended", "killed"}
  BY Places
<1>5. filler = "dataHeader" => pump \in {"empty", "dataHeader"}
  BY Places
<1>6. filler = "data" => pump = "data"
  BY Places
<1>7. filler \in Answered \cup {"connect", "loop", "ended", "dead", "killed"}
  BY Places
<1> QED
  BY <1>1, <1>2, <1>3, <1>4, <1>5, <1>6, <1>7 DEF Answered

----------------------------------------------------------------------------
(* Every step preserves the invariant. *)

\* Every step keeps the types.
LEMMA TypeStep == IInv /\ [Next]_vars => TypeOK'
<1> SUFFICES ASSUME IInv, [Next]_vars PROVE TypeOK'
  OBVIOUS
<1> USE SocketLinkAssumption DEF IInv, TypeOK, network, threads, counters, Send, Answer,
    Accepted, Received, Matches, Messages, Torn, Empty
<1>1. CASE BeginPush
  <2>1. tx' \in LinkBuffers(TxBuffers, Torn..NumFrames)
    BY <1>1, BeginPushRing DEF Contents
  <2> QED
    BY <1>1, <2>1 DEF BeginPush
<1>2. CASE EndPush
  <2>1. tx' \in LinkBuffers(TxBuffers, Torn..NumFrames)
    BY <1>2, EndPushRing DEF Contents
  <2>2. pushed' \in 0..NumFrames /\ producer' = "run"
    BY <1>2 DEF EndPush, SenderSide, SenderRuns
  <2> QED
    BY <1>2, <2>1, <2>2 DEF EndPush
<1>3. CASE SendEnd
  <2>1. tx' \in LinkBuffers(TxBuffers, Torn..NumFrames)
    BY <1>3, SendEndRing DEF Contents
  <2> QED
    BY <1>3, <2>1 DEF SendEnd
<1>4. CASE Close
  BY <1>4 DEF Close
<1>5. CASE Connect
  BY <1>5 DEF Connect
<1>6. CASE ConnectFails
  BY <1>6 DEF ConnectFails
<1>7. CASE SendTypeName
  BY <1>7 DEF SendTypeName
<1>8. CASE HandshakeDone
  BY <1>8 DEF HandshakeDone
<1>9. CASE SendDataHeader
  <2>1. tx' \in LinkBuffers(TxBuffers, Torn..NumFrames)
    BY <1>9, FillerTakesRing DEF Contents
  <2> QED
    BY <1>9, <2>1 DEF SendDataHeader
<1>10. CASE ReadEnd
  <2>1. tx' \in LinkBuffers(TxBuffers, Torn..NumFrames)
    BY <1>10, FillerTakesRing DEF Contents
  <2> QED
    BY <1>10, <2>1 DEF ReadEnd
<1>11. CASE SendData
  <2>1. Content(tx) \in Torn..NumFrames
    BY Typed, ContentTyped DEF Contents
  <2> DEFINE f == Content(tx)
  <2>2. toPump' = Append(toPump, [kind |-> "data", frame |-> f]) /\ f \in Torn..NumFrames
    BY <1>11, <2>1 DEF SendData
  <2> HIDE DEF f
  <2> QED
    BY <1>11, <2>2 DEF SendData
<1>12. CASE FrameAccepted
  <2>1. tx' \in LinkBuffers(TxBuffers, Torn..NumFrames)
    BY <1>12, FrameAcceptedRing DEF Contents
  <2> QED
    BY <1>12, <2>1 DEF FrameAccepted
<1>13. CASE Rejected
  BY <1>13 DEF Rejected
<1>14. CASE FillerEOF
  BY <1>14 DEF FillerEOF
<1>15. CASE Assign
  BY <1>15 DEF Assign
<1>16. CASE CheckFixedLen
  BY <1>16 DEF CheckFixedLen
<1>17. CASE CheckTypeName
  BY <1>17 DEF CheckTypeName
<1>18. CASE PumpGetEmpty
  <2>1. rx' \in LinkBuffers(RxBuffers, Torn..NumFrames)
    BY <1>18, PumpGetEmptyRing DEF Contents
  <2> QED
    BY <1>18, <2>1 DEF PumpGetEmpty
<1>19. CASE ReadDataHeader
  <2>1. rx' \in LinkBuffers(RxBuffers, Torn..NumFrames)
    BY <1>19, ReadDataHeaderRing DEF Contents
  <2> QED
    BY <1>19, <2>1 DEF ReadDataHeader
<1>20. CASE ReadData
  <2>1. rx' \in LinkBuffers(RxBuffers, Torn..NumFrames)
    BY <1>20, ReadDataRing DEF Contents
  <2> QED
    BY <1>20, <2>1 DEF ReadData
<1>21. CASE PumpEOF
  BY <1>21 DEF PumpEOF
<1>22. CASE PumpSigpipe
  BY <1>22 DEF PumpSigpipe
<1>23. CASE Attach
  BY <1>23 DEF Attach
<1>24. CASE BeginFetch
  <2>1. rx' \in LinkBuffers(RxBuffers, Torn..NumFrames)
    BY <1>24, BeginFetchRing DEF Contents
  <2> QED
    BY <1>24, <2>1 DEF BeginFetch
<1>25. CASE EndFetch
  <2>1. rx' \in LinkBuffers(RxBuffers, Torn..NumFrames)
    BY <1>25, EndFetchRing DEF Contents
  <2>2. seen' \in Torn..NumFrames
    BY <1>25, Typed, ContentTyped DEF EndFetch, Contents
  <2> QED
    BY <1>25, <2>1, <2>2 DEF EndFetch
<1>26. CASE KillSender
  <2>1. toPump' \in Seq(Messages) /\ toFiller' \in Seq({"errNone", "errType"})
    <3>1. toPump' = toPump \/ toPump' = <<>>
      BY <1>26 DEF KillSender
    <3>2. toFiller' = <<>>
      BY <1>26 DEF KillSender
    <3>3. toPump \in Seq(Messages) /\ <<>> \in Seq(Messages)
          /\ <<>> \in Seq({"errNone", "errType"})
      OBVIOUS
    <3> QED
      BY <3>1, <3>2, <3>3
  <2> QED
    BY <1>26, <2>1 DEF KillSender
<1>27. CASE KillReceiver
  <2>1. toPump' \in Seq(Messages) /\ toFiller' \in Seq({"errNone", "errType"})
    <3>1. toFiller' = toFiller \/ toFiller' = <<>>
      BY <1>27 DEF KillReceiver
    <3>2. toPump' = <<>>
      BY <1>27 DEF KillReceiver
    <3>3. /\ <<>> \in Seq(Messages) /\ <<>> \in Seq({"errNone", "errType"})
          /\ toFiller \in Seq({"errNone", "errType"})
      OBVIOUS
    <3> QED
      BY <3>1, <3>2, <3>3
  <2> QED
    BY <1>27, <2>1 DEF KillReceiver
<1>28. CASE UNCHANGED vars
  BY <1>28 DEF vars
<1> QED
  BY <1>1, <1>2, <1>3, <1>4, <1>5, <1>6, <1>7, <1>8, <1>9, <1>10, <1>11, <1>12, <1>13,
    <1>14, <1>15, <1>16, <1>17, <1>18, <1>19, <1>20, <1>21, <1>22, <1>23, <1>24, <1>25,
    <1>26, <1>27, <1>28
  DEF Next, Producer, Filler, Pump, Consumer

\* The semaphores of a ring agree with its positions.
LEMMA RingsStep == IInv /\ [Next]_vars => Rings'
<1> SUFFICES ASSUME IInv, [Next]_vars PROVE Rings'
  OBVIOUS
<1> USE DEF IInv, Rings
<1>1. CASE BeginPush
  BY <1>1, BeginPushRing DEF BeginPush, SameFrames, OneMore, OneLess
<1>2. CASE EndPush
  BY <1>2, EndPushRing DEF EndPush, SameFrames, OneMore, OneLess
<1>3. CASE SendEnd
  BY <1>3, SendEndRing DEF SendEnd, SameFrames, OneMore, OneLess
<1>4. CASE Close
  BY <1>4 DEF Close
<1>5. CASE Connect
  BY <1>5 DEF Connect
<1>6. CASE ConnectFails
  BY <1>6 DEF ConnectFails
<1>7. CASE SendTypeName
  BY <1>7 DEF SendTypeName
<1>8. CASE HandshakeDone
  BY <1>8 DEF HandshakeDone
<1>9. CASE SendDataHeader
  BY <1>9, FillerTakesRing DEF SendDataHeader, SameFrames, OneMore, OneLess
<1>10. CASE ReadEnd
  BY <1>10, FillerTakesRing DEF ReadEnd, SameFrames, OneMore, OneLess
<1>11. CASE SendData
  BY <1>11 DEF SendData
<1>12. CASE FrameAccepted
  BY <1>12, FrameAcceptedRing DEF FrameAccepted, SameFrames, OneMore, OneLess
<1>13. CASE Rejected
  BY <1>13 DEF Rejected
<1>14. CASE FillerEOF
  BY <1>14 DEF FillerEOF
<1>15. CASE Assign
  BY <1>15 DEF Assign
<1>16. CASE CheckFixedLen
  BY <1>16 DEF CheckFixedLen
<1>17. CASE CheckTypeName
  BY <1>17 DEF CheckTypeName
<1>18. CASE PumpGetEmpty
  BY <1>18, PumpGetEmptyRing DEF PumpGetEmpty, SameFrames, OneMore, OneLess
<1>19. CASE ReadDataHeader
  BY <1>19, ReadDataHeaderRing DEF ReadDataHeader, SameFrames, OneMore, OneLess
<1>20. CASE ReadData
  BY <1>20, ReadDataRing DEF ReadData, SameFrames, OneMore, OneLess
<1>21. CASE PumpEOF
  BY <1>21 DEF PumpEOF
<1>22. CASE PumpSigpipe
  BY <1>22 DEF PumpSigpipe
<1>23. CASE Attach
  BY <1>23 DEF Attach
<1>24. CASE BeginFetch
  BY <1>24, BeginFetchRing DEF BeginFetch, SameFrames, OneMore, OneLess
<1>25. CASE EndFetch
  BY <1>25, EndFetchRing DEF EndFetch, SameFrames, OneMore, OneLess
<1>26. CASE KillSender
  BY <1>26 DEF KillSender
<1>27. CASE KillReceiver
  BY <1>27 DEF KillReceiver
<1>28. CASE UNCHANGED vars
  BY <1>28 DEF vars
<1> QED
  BY <1>1, <1>2, <1>3, <1>4, <1>5, <1>6, <1>7, <1>8, <1>9, <1>10, <1>11, <1>12, <1>13,
    <1>14, <1>15, <1>16, <1>17, <1>18, <1>19, <1>20, <1>21, <1>22, <1>23, <1>24, <1>25,
    <1>26, <1>27, <1>28
  DEF Next, Producer, Filler, Pump, Consumer

\* The two threads at the connection take turns.
LEMMA ExpectedStep == IInv /\ [Next]_vars => Expected'
<1> SUFFICES ASSUME IInv, [Next]_vars PROVE Expected'
  OBVIOUS
<1> USE DEF network, threads, counters, Send, Answer, Accepted, Received
<1>1. CASE BeginPush
  BY <1>1, Places, Wire, Expects DEF BeginPush, Expected
<1>2. CASE EndPush
  BY <1>2, Places, Wire, Expects DEF EndPush, Expected
<1>3. CASE SendEnd
  BY <1>3, Places, Wire, Expects DEF SendEnd, Expected
<1>4. CASE Close
  BY <1>4, Places, Wire, Expects DEF Close, Expected
<1>5. CASE Connect
  <2>1. toPump' = Append(<<>>, [kind |-> "linkHeader", frame |-> 0]) /\ toFiller' = <<>>
    BY <1>5, Wire, Places DEF Connect
  <2>2. toPump' # <<>> /\ Head(toPump').kind = "linkHeader" /\ Len(toPump') = 1
        /\ Len(toFiller') = 0
    BY <2>1, Sent
  <2>3. pump' = pump /\ assigned' = assigned /\ killed' = killed /\ toFiller' = <<>>
    BY <1>5, <2>1 DEF Connect
  <2> QED
    BY <1>5, <2>2, <2>3, Wire, Places, Expects DEF Connect, Expected
<1>6. CASE ConnectFails
  BY <1>6, Places, Wire, Expects DEF ConnectFails, Expected
<1>7. CASE SendTypeName
  <2>1. toPump' = Append(<<>>, [kind |-> "typeName", frame |-> 0]) /\ toFiller' = <<>>
    BY <1>7, Wire, Places DEF SendTypeName
  <2>2. toPump' # <<>> /\ Head(toPump').kind = "typeName" /\ Len(toPump') = 1
        /\ Len(toFiller') = 0
    BY <2>1, Sent
  <2>3. pump' = pump /\ assigned' = assigned /\ killed' = killed /\ toFiller' = <<>>
    BY <1>7, <2>1 DEF SendTypeName
  <2> QED
    BY <1>7, <2>2, <2>3, Wire, Places, Expects DEF SendTypeName, Expected
<1>8. CASE HandshakeDone
  <2>1. toPump' = <<>> /\ toFiller' = <<>>
    BY <1>8, Wire DEF HandshakeDone
  <2>2. Len(toFiller') = 0 /\ Len(toPump') = 0
    BY <2>1
  <2> QED
    BY <2>1, <2>2, Expects DEF Expected
<1>9. CASE SendDataHeader
  <2>1. toPump' = Append(<<>>, [kind |-> "dataHeader", frame |-> 0]) /\ toFiller' = <<>>
    BY <1>9, Wire, Places DEF SendDataHeader
  <2>2. toPump' # <<>> /\ Head(toPump').kind = "dataHeader" /\ Len(toPump') = 1
        /\ Len(toFiller') = 0
    BY <2>1, Sent
  <2>3. pump' = pump /\ assigned' = assigned /\ killed' = killed /\ toFiller' = <<>>
    BY <1>9, <2>1 DEF SendDataHeader
  <2> QED
    BY <1>9, <2>2, <2>3, Wire, Places, Expects DEF SendDataHeader, Expected
<1>10. CASE ReadEnd
  BY <1>10, Places, Wire, Expects DEF ReadEnd, Expected
<1>11. CASE SendData
  <2>1. toPump' = Append(<<>>, [kind |-> "data", frame |-> Content(tx)]) /\ toFiller' = <<>>
    BY <1>11, Wire, Places DEF SendData
  <2>2. toPump' # <<>> /\ Head(toPump').kind = "data" /\ Len(toPump') = 1
        /\ Len(toFiller') = 0
    BY <2>1, Sent
  <2>3. pump' = pump /\ assigned' = assigned /\ killed' = killed /\ toFiller' = <<>>
    BY <1>11, <2>1 DEF SendData
  <2> QED
    BY <1>11, <2>2, <2>3, Wire, Places, Expects DEF SendData, Expected
<1>12. CASE FrameAccepted
  <2>1. toPump' = <<>> /\ toFiller' = <<>>
    BY <1>12, Wire DEF FrameAccepted
  <2>2. Len(toFiller') = 0 /\ Len(toPump') = 0
    BY <2>1
  <2> QED
    BY <2>1, <2>2, Expects DEF Expected
<1>13. CASE Rejected
  <2>1. toPump' = <<>> /\ toFiller' = <<>>
    BY <1>13, Wire DEF Rejected
  <2>2. Len(toFiller') = 0 /\ Len(toPump') = 0
    BY <2>1
  <2> QED
    BY <2>1, <2>2, Expects DEF Expected
<1>14. CASE FillerEOF
  BY <1>14, Places, Wire, Expects DEF FillerEOF, Expected
<1>15. CASE Assign
  <2>1. toPump' = <<>> /\ toFiller' = <<>>
    BY <1>15, Wire DEF Assign
  <2>2. Len(toFiller') = 0 /\ Len(toPump') = 0
    BY <2>1
  <2> QED
    BY <2>1, <2>2, Expects DEF Expected
<1>16. CASE CheckFixedLen
  <2>1. toPump' = <<>> /\ toFiller = <<>> /\ \E c : toFiller' = Append(<<>>, c)
    BY <1>16, Wire, Places DEF CheckFixedLen
  <2>2. toFiller' # <<>> /\ Len(toFiller') = 1 /\ Len(toPump') = 0
    BY <2>1, Sent
  <2>3. filler' = filler /\ killed' = killed
    BY <1>16 DEF CheckFixedLen
  <2> QED
    BY <1>16, <2>1, <2>2, <2>3, Places, Expects DEF CheckFixedLen, Answered, Expected
<1>17. CASE CheckTypeName
  <2>1. toPump' = <<>> /\ toFiller = <<>> /\ \E c : toFiller' = Append(<<>>, c)
    BY <1>17, Wire, Places DEF CheckTypeName
  <2>2. toFiller' # <<>> /\ Len(toFiller') = 1 /\ Len(toPump') = 0
    BY <2>1, Sent
  <2>3. filler' = filler /\ killed' = killed
    BY <1>17 DEF CheckTypeName
  <2> QED
    BY <1>17, <2>1, <2>2, <2>3, Places, Expects DEF CheckTypeName, Answered, Expected
<1>18. CASE PumpGetEmpty
  <2>1. pump = "empty" /\ pump' = "dataHeader" /\ killed' = killed /\ toPump' = toPump
        /\ toFiller' = toFiller /\ filler' = filler /\ assigned' = assigned
    BY <1>18 DEF PumpGetEmpty
  <2> QED
    BY <2>1, Expects DEF Expected
<1>19. CASE ReadDataHeader
  <2>1. toPump' = <<>> /\ toFiller = <<>> /\ \E c : toFiller' = Append(<<>>, c)
    BY <1>19, Wire, Places DEF ReadDataHeader
  <2>2. toFiller' # <<>> /\ Len(toFiller') = 1 /\ Len(toPump') = 0
    BY <2>1, Sent
  <2>3. filler' = filler /\ killed' = killed
    BY <1>19 DEF ReadDataHeader
  <2> QED
    BY <1>19, <2>1, <2>2, <2>3, Places, Expects DEF ReadDataHeader, Answered, Expected
<1>20. CASE ReadData
  <2>1. toPump' = <<>> /\ toFiller = <<>> /\ \E c : toFiller' = Append(<<>>, c)
    BY <1>20, Wire, Places DEF ReadData
  <2>2. toFiller' # <<>> /\ Len(toFiller') = 1 /\ Len(toPump') = 0
    BY <2>1, Sent
  <2>3. filler' = filler /\ killed' = killed
    BY <1>20 DEF ReadData
  <2> QED
    BY <1>20, <2>1, <2>2, <2>3, Places, Expects DEF ReadData, Answered, Expected
<1>21. CASE PumpEOF
  BY <1>21, Places, Expects DEF PumpEOF, Expected
<1>22. CASE PumpSigpipe
  BY <1>22, Places, Wire, Expects DEF PumpSigpipe, Expected
<1>23. CASE Attach
  BY <1>23, Places, Wire, Expects DEF Attach, Expected
<1>24. CASE BeginFetch
  BY <1>24, Places, Wire, Expects DEF BeginFetch, Expected
<1>25. CASE EndFetch
  BY <1>25, Places, Wire, Expects DEF EndFetch, Expected
<1>26. CASE KillSender
  <2>1. toFiller' = <<>> /\ (toPump' = toPump \/ toPump' = <<>>) /\ killed' = {"sender"}
        /\ pump' = pump
        /\ assigned' = assigned /\ killed = {}
    BY <1>26 DEF KillSender
  <2>2. Len(<<>>) = 0 /\ Len(toPump) <= 1 /\ Len(toPump) \in Nat
    BY Expects DEF IInv, TypeOK, Expected
  <2> QED
    BY <2>1, <2>2, Expects DEF Expected
<1>27. CASE KillReceiver
  BY <1>27, Places, Wire, Expects DEF KillReceiver, Expected
<1>28. CASE UNCHANGED vars
  BY <1>28, Expects DEF vars, Expected
<1> QED
  BY <1>1, <1>2, <1>3, <1>4, <1>5, <1>6, <1>7, <1>8, <1>9, <1>10, <1>11, <1>12, <1>13,
    <1>14, <1>15, <1>16, <1>17, <1>18, <1>19, <1>20, <1>21, <1>22, <1>23, <1>24, <1>25,
    <1>26, <1>27, <1>28
  DEF Next, Producer, Filler, Pump, Consumer

\* What the filler takes from its ring is what was pushed, in order.
LEMMA SenderStep == IInv /\ [Next]_vars => SenderSide'
<1> SUFFICES ASSUME IInv, [Next]_vars PROVE SenderSide'
  OBVIOUS
<1> USE DEF IInv, SenderSide, SenderRuns, Taken, Marked, Answered, network, threads,
    counters, Send, Accepted, Received, Answer, Empty
<1>1. CASE BeginPush
  BY <1>1, Typed, BeginPushRing DEF BeginPush, SameFrames, SameHands, OneMore, OneLess
<1>2. CASE EndPush
  <2>1. Taken' = Taken /\ SenderRuns /\ SenderRuns' /\ Taken \in Int /\ filler' = filler
    <3>1. SenderRuns /\ SenderRuns' /\ filler' = filler /\ producer = "serialize"
          /\ producer' = "run"
          /\ pushed' = pushed + 1
      BY <1>2 DEF EndPush
    <3>2. pushed \in Int /\ tx.fullSem \in Int /\ tx'.fullSem = tx.fullSem + 1
      BY <1>2, Typed, EndPushRing DEF OneMore
    <3>3. Taken = pushed - tx.fullSem /\ Taken' = pushed' - tx'.fullSem
      BY <3>1, <3>2
    <3> HIDE DEF Taken
    <3> QED
      BY <3>1, <3>2, <3>3
  <2>2. ASSUME NEW k \in 1..tx'.fullSem
        PROVE  Pending(tx')[k] = IF Taken + k <= NumFrames THEN Taken + k ELSE Empty
    <3>1. CASE k \in 1..tx.fullSem
      BY <1>2, <3>1, EndPushRing DEF EndPush, OneMore
    <3>2. CASE k = tx.fullSem + 1
      <4>1. Pending(tx')[k] = pushed + 1
        BY <1>2, <3>2, EndPushRing DEF OneMore
      <4>2. Taken + k = pushed + 1 /\ pushed + 1 <= NumFrames
        <5>1. producer = "serialize" /\ pushed < NumFrames
          BY <1>2 DEF EndPush
        <5>2. pushed \in Int /\ tx.fullSem \in Int /\ NumFrames \in Int
          BY Typed
        <5>3. Taken = pushed - tx.fullSem
          BY <5>1, <5>2
        <5> HIDE DEF Taken
        <5> QED
          BY <3>2, <5>1, <5>2, <5>3
      <4> QED
        BY <4>1, <4>2, Typed
    <3>3. k \in 1..tx.fullSem \/ k = tx.fullSem + 1
      <4>1. tx'.fullSem = tx.fullSem + 1 /\ tx.fullSem \in Nat
        BY <1>2, Typed, EndPushRing DEF OneMore
      <4> QED
        BY ONLY <4>1
    <3> QED
      BY <3>1, <3>2, <3>3
  <2>3. InHands(tx') = InHands(tx) /\ (InHands(tx) => Content(tx') = Content(tx)) /\ tx'.currentEmpty = NoBuffer
    BY <1>2, EndPushRing DEF OneMore, SameHands
  <2> HIDE DEF Taken
  <2> QED
    BY <1>2, <2>1, <2>2, <2>3, Typed DEF EndPush
<1>3. CASE SendEnd
  <2>1. Taken' = Taken /\ SenderRuns /\ SenderRuns' /\ Taken \in Int /\ filler' = filler
    BY <1>3, Typed, SendEndRing DEF SendEnd, OneMore
  <2>2. ASSUME NEW k \in 1..tx'.fullSem
        PROVE  Pending(tx')[k] = IF Taken + k <= NumFrames THEN Taken + k ELSE Empty
    <3>1. CASE k \in 1..tx.fullSem
      BY <1>3, <3>1, SendEndRing DEF SendEnd, OneMore
    <3>2. CASE k = tx.fullSem + 1
      <4>1. Pending(tx')[k] = Empty
        BY <1>3, <3>2, SendEndRing DEF OneMore
      <4>2. Taken + k = NumFrames + 1
        BY <1>3, <3>2, Typed DEF SendEnd
      <4> QED
        BY <4>1, <4>2, Typed
    <3>3. k \in 1..tx.fullSem \/ k = tx.fullSem + 1
      <4>1. tx'.fullSem = tx.fullSem + 1 /\ tx.fullSem \in Nat
        BY <1>3, Typed, SendEndRing DEF OneMore
      <4> QED
        BY ONLY <4>1
    <3> QED
      BY <3>1, <3>2, <3>3
  <2>3. InHands(tx') = InHands(tx) /\ (InHands(tx) => Content(tx') = Content(tx)) /\ tx'.currentEmpty = NoBuffer
    BY <1>3, SendEndRing DEF OneMore, SameHands
  <2> HIDE DEF Taken
  <2> QED
    BY <1>3, <2>1, <2>2, <2>3, Typed DEF SendEnd
<1>4. CASE Close
  BY <1>4, Places, Wire DEF Close
<1>5. CASE Connect
  BY <1>5, Places, Wire DEF Connect
<1>6. CASE ConnectFails
  BY <1>6, Places, Wire DEF ConnectFails
<1>7. CASE SendTypeName
  BY <1>7, Places, Wire DEF SendTypeName
<1>8. CASE HandshakeDone
  BY <1>8, Places, Wire, Typed DEF HandshakeDone
<1>9. CASE SendDataHeader
  <2>1. /\ Taken' = Taken + 1 /\ SenderRuns /\ SenderRuns' /\ Taken \in Int
        /\ tx.fullSem \in Nat
        /\ 1 \in 1..tx.fullSem /\ tx'.fullSem = tx.fullSem - 1 /\ InHands(tx')
        /\ tx'.currentEmpty = tx.currentEmpty
    BY <1>9, Typed, FillerTakesRing DEF SendDataHeader, OneLess
  <2>2. Content(tx') = IF Taken + 1 <= NumFrames THEN Taken + 1 ELSE Empty
    BY <1>9, <2>1, FillerTakesRing DEF SendDataHeader, OneLess
  <2>3. ASSUME NEW k \in 1..tx'.fullSem
        PROVE  Pending(tx')[k] = IF Taken + 1 + k <= NumFrames THEN Taken + 1 + k ELSE Empty
    <3>1. k + 1 \in 1..tx.fullSem /\ Taken + 1 + k = Taken + (k + 1)
      <4> HIDE DEF Taken
      <4> QED
        BY <2>1
    <3>2. Pending(tx')[k] = Pending(tx)[k + 1]
      BY <1>9, FillerTakesRing DEF OneLess
    <3>3. Pending(tx)[k + 1] = IF Taken + (k + 1) <= NumFrames THEN Taken + (k + 1) ELSE Empty
      BY <2>1, <3>1
    <3> QED
      BY <3>1, <3>2, <3>3
  <2>4. Taken \in 0..NumFrames /\ NumFrames \in Nat
    BY <1>9, Typed DEF SendDataHeader
  <2> HIDE DEF Taken
  <2> QED
    BY <1>9, <2>1, <2>2, <2>3, <2>4, Places DEF SendDataHeader
<1>10. CASE ReadEnd
  <2>1. /\ Taken' = Taken + 1 /\ SenderRuns /\ SenderRuns' /\ Taken \in Int
        /\ tx.fullSem \in Nat
        /\ 1 \in 1..tx.fullSem /\ tx'.fullSem = tx.fullSem - 1 /\ InHands(tx')
        /\ tx'.currentEmpty = tx.currentEmpty
    BY <1>10, Typed, FillerTakesRing DEF ReadEnd, OneLess
  <2>2. Content(tx') = IF Taken + 1 <= NumFrames THEN Taken + 1 ELSE Empty
    BY <1>10, <2>1, FillerTakesRing DEF ReadEnd, OneLess
  <2>3. ASSUME NEW k \in 1..tx'.fullSem
        PROVE  Pending(tx')[k] = IF Taken + 1 + k <= NumFrames THEN Taken + 1 + k ELSE Empty
    <3>1. k + 1 \in 1..tx.fullSem /\ Taken + 1 + k = Taken + (k + 1)
      <4> HIDE DEF Taken
      <4> QED
        BY <2>1
    <3>2. Pending(tx')[k] = Pending(tx)[k + 1]
      BY <1>10, FillerTakesRing DEF OneLess
    <3>3. Pending(tx)[k + 1] = IF Taken + (k + 1) <= NumFrames THEN Taken + (k + 1) ELSE Empty
      BY <2>1, <3>1
    <3> QED
      BY <3>1, <3>2, <3>3
  <2>4. Taken \in 0..NumFrames /\ NumFrames \in Nat
    BY <1>10, Typed DEF ReadEnd
  <2> HIDE DEF Taken
  <2> QED
    BY <1>10, <2>1, <2>2, <2>3, <2>4, Places DEF ReadEnd
<1>11. CASE SendData
  BY <1>11, Places, Wire DEF SendData
<1>12. CASE FrameAccepted
  <2>1. SameFrames(tx, tx') /\ ~InHands(tx') /\ tx'.currentEmpty = tx.currentEmpty
    BY <1>12, FrameAcceptedRing
  <2>2. Taken' = Taken /\ SenderRuns /\ SenderRuns' /\ toPump' = <<>> /\ toFiller' = <<>>
    BY <1>12, <2>1, Wire DEF FrameAccepted, SameFrames
  <2> HIDE DEF Taken
  <2> QED
    BY <1>12, <2>1, <2>2 DEF FrameAccepted, SameFrames
<1>13. CASE Rejected
  BY <1>13, Places, Wire DEF Rejected
<1>14. CASE FillerEOF
  BY <1>14, Places, Wire DEF FillerEOF
<1>15. CASE Assign
  BY <1>15, Places, Wire DEF Assign
<1>16. CASE CheckFixedLen
  BY <1>16, Places, Wire DEF CheckFixedLen
<1>17. CASE CheckTypeName
  BY <1>17, Places, Wire DEF CheckTypeName
<1>18. CASE PumpGetEmpty
  BY <1>18, Places, Wire DEF PumpGetEmpty
<1>19. CASE ReadDataHeader
  BY <1>19, Places, Wire DEF ReadDataHeader
<1>20. CASE ReadData
  BY <1>20, Places, Wire DEF ReadData
<1>21. CASE PumpEOF
  BY <1>21, Places, Wire DEF PumpEOF
<1>22. CASE PumpSigpipe
  BY <1>22, Places, Wire DEF PumpSigpipe
<1>23. CASE Attach
  BY <1>23, Places, Wire DEF Attach
<1>24. CASE BeginFetch
  BY <1>24, Places, Wire DEF BeginFetch
<1>25. CASE EndFetch
  BY <1>25, Places, Wire DEF EndFetch
<1>26. CASE KillSender
  BY <1>26, Places, Wire DEF KillSender
<1>27. CASE KillReceiver
  BY <1>27, Places, Wire DEF KillReceiver
<1>28. CASE UNCHANGED vars
  BY <1>28 DEF vars
<1> QED
  BY <1>1, <1>2, <1>3, <1>4, <1>5, <1>6, <1>7, <1>8, <1>9, <1>10, <1>11, <1>12, <1>13,
    <1>14, <1>15, <1>16, <1>17, <1>18, <1>19, <1>20, <1>21, <1>22, <1>23, <1>24, <1>25,
    <1>26, <1>27, <1>28
  DEF Next, Producer, Filler, Pump, Consumer

\* What the consumer takes from its ring is what has arrived, in order.
LEMMA ReceiverStep == IInv /\ [Next]_vars => ReceiverSide'
<1> SUFFICES ASSUME IInv, [Next]_vars PROVE ReceiverSide'
  OBVIOUS
<1> USE DEF IInv, ReceiverSide, ReceiverRuns, Stored, network, threads, counters, Send,
    Accepted, Received, Answer, Empty
<1>1. CASE BeginPush
  BY <1>1, Places, Wire, Sent DEF BeginPush
<1>2. CASE EndPush
  BY <1>2, Places, Wire, Sent DEF EndPush
<1>3. CASE SendEnd
  BY <1>3, Places, Wire, Sent DEF SendEnd
<1>4. CASE Close
  BY <1>4, Places, Wire, Sent DEF Close
<1>5. CASE Connect
  BY <1>5, Places, Wire, Sent DEF Connect
<1>6. CASE ConnectFails
  BY <1>6, Places, Wire, Sent DEF ConnectFails
<1>7. CASE SendTypeName
  BY <1>7, Places, Wire, Sent DEF SendTypeName
<1>8. CASE HandshakeDone
  BY <1>8, Places, Wire, Sent DEF HandshakeDone
<1>9. CASE SendDataHeader
  BY <1>9, Places, Wire, Sent DEF SendDataHeader
<1>10. CASE ReadEnd
  BY <1>10, Places, Wire, Sent DEF ReadEnd
<1>11. CASE SendData
  <2>1. toPump = <<>> /\ toFiller' = <<>>
        /\ toPump' = Append(<<>>, [kind |-> "data", frame |-> Content(tx)])
        /\ filler = "dataHeader" /\ toFiller # <<>>
    BY <1>11, Wire DEF SendData
  <2>2. toPump' # <<>> /\ Head(toPump') = [kind |-> "data", frame |-> Content(tx)]
    BY <2>1, Sent
  <2>3. ReceiverRuns => Content(tx) = Stored + 1 /\ Stored < NumFrames /\ assigned /\ pump = "data"
    <3>1. ReceiverRuns => SenderRuns /\ assigned
      BY <1>11, <2>1, Places DEF SenderRuns
    <3>2. ReceiverRuns => Stored = Taken - 1 /\ pump = "data"
      BY <2>1, <3>1 DEF Turns, Counts
    <3>3. SenderRuns => Content(tx) = Taken /\ Taken \in 1..NumFrames
      BY <2>1 DEF SenderSide
    <3> HIDE DEF Stored
    <3> QED
      BY <3>1, <3>2, <3>3, Typed
  <2>4. UNCHANGED <<rx, fetched, seen, consumer, pump, killed, assigned>>
    BY <1>11 DEF SendData
  <2>5. Stored' = Stored
    BY <2>4
  <2> QED
    BY <2>1, <2>2, <2>3, <2>4, <2>5
<1>12. CASE FrameAccepted
  BY <1>12, Places, Wire, Sent DEF FrameAccepted
<1>13. CASE Rejected
  BY <1>13, Places, Wire, Sent DEF Rejected
<1>14. CASE FillerEOF
  BY <1>14, Places, Wire, Sent DEF FillerEOF
<1>15. CASE Assign
  BY <1>15, Places, Wire, Sent DEF Assign
<1>16. CASE CheckFixedLen
  BY <1>16, Places, Wire, Sent DEF CheckFixedLen
<1>17. CASE CheckTypeName
  BY <1>17, Places, Wire, Sent DEF CheckTypeName
<1>18. CASE PumpGetEmpty
  <2>1. SameFrames(rx, rx') /\ SameHands(rx, rx') /\ rx'.currentEmpty # NoBuffer
    BY <1>18, PumpGetEmptyRing
  <2>2. Stored' = Stored
    BY <1>18, <2>1 DEF PumpGetEmpty, SameFrames
  <2>3. toPump' # <<>> => toPump' = toPump
    BY <1>18, Wire DEF PumpGetEmpty
  <2>4. pump' # "wait" /\ pump' # "name" /\ pump' # "ended" /\ assigned'
    BY <1>18 DEF PumpGetEmpty
  <2> HIDE DEF Stored
  <2> QED
    BY <1>18, <2>1, <2>2, <2>3, <2>4, Wire DEF PumpGetEmpty, SameFrames, SameHands
<1>19. CASE ReadDataHeader
  <2>1. SameFrames(rx, rx') /\ SameHands(rx, rx') /\ rx'.currentEmpty # NoBuffer
    BY <1>19, ReadDataHeaderRing
  <2>2. Stored' = Stored
    BY <1>19, <2>1 DEF ReadDataHeader, SameFrames
  <2>3. toPump' # <<>> => toPump' = toPump
    BY <1>19, Wire DEF ReadDataHeader
  <2>4. pump' # "wait" /\ pump' # "name" /\ pump' # "ended" /\ assigned'
    BY <1>19 DEF ReadDataHeader
  <2> HIDE DEF Stored
  <2> QED
    BY <1>19, <2>1, <2>2, <2>3, <2>4, Wire DEF ReadDataHeader, SameFrames, SameHands
<1>20. CASE ReadData
  <2> DEFINE f == Head(toPump).frame
  <2>1. OneMore(rx, rx', f) /\ SameHands(rx, rx')
    BY <1>20, ReadDataRing
  <2>2. f = Stored + 1 /\ Stored < NumFrames /\ Stored = fetched + rx.fullSem /\ assigned
    BY <1>20, Places DEF ReadData
  <2>3. toPump' = <<>> /\ ReceiverRuns /\ ReceiverRuns'
    BY <1>20, Wire DEF ReadData
  <2> HIDE DEF f
  <2>4. ASSUME NEW k \in 1..rx'.fullSem PROVE Pending(rx')[k] = fetched + k
    <3>1. rx'.fullSem = rx.fullSem + 1 /\ rx.fullSem \in Nat /\ fetched \in Nat
      BY <2>1, Typed DEF OneMore
    <3>2. CASE k \in 1..rx.fullSem
      <4>1. Pending(rx)[k] = fetched + k
        BY <3>2, <2>3
      <4> QED
        BY <2>1, <3>2, <4>1 DEF OneMore
    <3>3. CASE k = rx.fullSem + 1
      BY <2>1, <2>2, <3>1, <3>3 DEF OneMore
    <3> QED
      BY <3>1, <3>2, <3>3
  <2>5. Stored' = Stored + 1 /\ rx'.currentEmpty = NoBuffer
    <3>1. fetched' = fetched /\ rx'.fullSem = rx.fullSem + 1 /\ rx.fullSem \in Nat
          /\ fetched \in Nat
      BY <1>20, <2>1, Typed DEF ReadData, OneMore
    <3> QED
      BY <2>1, <3>1 DEF OneMore
  <2>6. Stored \in Int /\ NumFrames \in Int
    BY Typed
  <2> HIDE DEF Stored
  <2>7. UNCHANGED <<consumer, fetched, seen, assigned>> /\ pump' = "empty"
    BY <1>20 DEF ReadData
  <2> QED
    BY <2>1, <2>2, <2>3, <2>4, <2>5, <2>6, <2>7 DEF SameHands
<1>21. CASE PumpEOF
  BY <1>21, Places, Wire, Sent DEF PumpEOF
<1>22. CASE PumpSigpipe
  BY <1>22, Places, Wire, Sent DEF PumpSigpipe
<1>23. CASE Attach
  BY <1>23, Places, Wire, Sent DEF Attach
<1>24. CASE BeginFetch
  <2>1. OneLess(rx, rx')
    BY <1>24, BeginFetchRing
  <2>2. /\ rx'.fullSem = rx.fullSem - 1 /\ rx.fullSem \in Nat /\ fetched \in Nat
        /\ NumFrames \in Nat
        /\ 1 \in 1..rx.fullSem /\ fetched' = fetched + 1
    BY <1>24, <2>1, Typed DEF BeginFetch, OneLess
  <2>3. Stored' = Stored /\ Stored > 0
    BY <2>2
  <2>4. /\ ReceiverRuns /\ ReceiverRuns' /\ consumer' = "deserialize" /\ seen' = seen
        /\ seen = fetched
        /\ UNCHANGED <<pump, assigned, toPump, toFiller>>
    BY <1>24 DEF BeginFetch
  <2>5. Content(rx') = fetched + 1
    BY <2>1, <2>2, <2>4 DEF OneLess
  <2>6. ASSUME NEW k \in 1..rx'.fullSem PROVE Pending(rx')[k] = fetched' + k
    <3>1. k + 1 \in 1..rx.fullSem /\ fetched' + k = fetched + (k + 1)
      BY <2>2
    <3>2. Pending(rx)[k + 1] = fetched + (k + 1)
      BY <3>1, <2>4
    <3> QED
      BY <2>1, <3>1, <3>2 DEF OneLess
  <2>7. InHands(rx') /\ rx'.currentEmpty = rx.currentEmpty
    BY <2>1 DEF OneLess
  <2>8. seen' = fetched' - 1
    BY <2>2, <2>4
  <2> HIDE DEF Stored
  <2> QED
    BY <2>2, <2>3, <2>4, <2>5, <2>6, <2>7, <2>8
<1>25. CASE EndFetch
  BY <1>25, Typed, EndFetchRing DEF EndFetch, SameFrames, SameHands, OneMore, OneLess
<1>26. CASE KillSender
  BY <1>26, Places, Wire, Sent DEF KillSender
<1>27. CASE KillReceiver
  BY <1>27, Places, Wire, Sent DEF KillReceiver
<1>28. CASE UNCHANGED vars
  BY <1>28 DEF vars
<1> QED
  BY <1>1, <1>2, <1>3, <1>4, <1>5, <1>6, <1>7, <1>8, <1>9, <1>10, <1>11, <1>12, <1>13,
    <1>14, <1>15, <1>16, <1>17, <1>18, <1>19, <1>20, <1>21, <1>22, <1>23, <1>24, <1>25,
    <1>26, <1>27, <1>28
  DEF Next, Producer, Filler, Pump, Consumer

\* Sender and receiver count the frames between them.
LEMMA TurnsStep == IInv /\ [Next]_vars => Turns'
<1> SUFFICES ASSUME IInv, [Next]_vars PROVE Turns'
  OBVIOUS
<1> USE DEF IInv, Turns, Counts, SenderRuns, ReceiverRuns, Taken, Marked, Stored, network,
    threads, counters, Send, Accepted, Received, Answer, Empty
<1>1. CASE BeginPush
  <2>1. Taken' = Taken /\ Stored' = Stored /\ Taken \in Int /\ Stored \in Int
    BY <1>1, Typed, BeginPushRing DEF BeginPush, SameFrames, OneMore, OneLess
  <2> HIDE DEF Taken, Stored
  <2> QED
    BY <1>1, <2>1, Typed, Places, Wire, Sent DEF BeginPush
<1>2. CASE EndPush
  <2>1. pushed' = pushed + 1 /\ fetched' = fetched /\ rx' = rx /\ producer = "serialize"
        /\ producer' = "run"
    BY <1>2 DEF EndPush
  <2>2. tx'.fullSem = tx.fullSem + 1
    BY <1>2, EndPushRing DEF OneMore
  <2>3. Taken = pushed - tx.fullSem /\ Taken' = pushed' - tx'.fullSem
    <3>1. pushed \in Int /\ tx.fullSem \in Int
      BY Typed
    <3> QED
      BY <2>1, <2>2, <3>1
  <2>4. Stored' = Stored
    BY <2>1
  <2> HIDE DEF Taken, Stored
  <2>5. Taken' = Taken
    BY <2>1, <2>2, <2>3, Typed
  <2> QED
    BY <1>2, <2>4, <2>5, Typed, Places DEF EndPush
<1>3. CASE SendEnd
  <2>1. producer = "run" /\ producer' = "join" /\ UNCHANGED <<pushed, fetched, rx>>
    BY <1>3 DEF SendEnd
  <2>2. tx'.fullSem = tx.fullSem + 1 /\ tx.fullSem \in Int /\ pushed \in Int
    BY <1>3, Typed, SendEndRing DEF OneMore
  <2>3. Taken = pushed - tx.fullSem /\ Taken' = pushed + 1 - tx'.fullSem
    BY <2>1, <2>2
  <2>4. Stored' = Stored
    BY <2>1
  <2> HIDE DEF Taken, Stored
  <2>5. Taken' = Taken
    BY <2>2, <2>3
  <2> QED
    BY <1>3, <2>4, <2>5, Typed, Places DEF SendEnd
<1>4. CASE Close
  BY <1>4, Places, Wire, Sent DEF Close
<1>5. CASE Connect
  BY <1>5, Places, Wire, Sent DEF Connect
<1>6. CASE ConnectFails
  BY <1>6, Places, Wire, Sent DEF ConnectFails
<1>7. CASE SendTypeName
  <2>1. Taken' = Taken /\ Stored' = Stored
    BY <1>7 DEF SendTypeName
  <2>2. /\ toFiller # <<>> /\ Head(toFiller) = "errNone" /\ toFiller' = <<>>
        /\ filler = "header"
        /\ toPump' = Append(<<>>, [kind |-> "typeName", frame |-> 0])
    BY <1>7, Wire DEF SendTypeName
  <2>3. toPump' # <<>> /\ Head(toPump').kind = "typeName"
    BY <2>2, Sent
  <2>4. ReceiverRuns => pump = "name"
    BY <2>2, Places
  <2>5. UNCHANGED <<killed, pump>> /\ filler' = "name"
    BY <1>7 DEF SendTypeName
  <2> HIDE DEF Taken, Stored
  <2> QED
    BY <2>1, <2>2, <2>3, <2>4, <2>5
<1>8. CASE HandshakeDone
  <2>1. Taken' = Taken /\ Stored' = Stored
    BY <1>8 DEF HandshakeDone
  <2>2. toFiller # <<>> /\ Head(toFiller) = "errNone" /\ filler = "name"
    BY <1>8 DEF HandshakeDone
  <2>3. SenderRuns /\ ReceiverRuns => pump \in {"empty", "dataHeader"}
    BY <2>2 DEF Turns
  <2>4. SenderRuns => Taken = 0
    BY <2>2 DEF SenderSide
  <2>5. UNCHANGED <<killed, pump>> /\ filler' = "loop"
    BY <1>8 DEF HandshakeDone
  <2> HIDE DEF Taken, Stored
  <2> QED
    BY <2>1, <2>3, <2>4, <2>5
<1>9. CASE SendDataHeader
  <2>1. Taken' = Taken + 1 /\ Stored' = Stored /\ Taken \in Int /\ Stored \in Int
    <3>1. UNCHANGED <<pushed, producer, fetched, rx>>
      BY <1>9 DEF SendDataHeader
    <3>2. /\ tx'.fullSem = tx.fullSem - 1 /\ tx.fullSem \in Int /\ pushed \in Int
          /\ fetched \in Int /\ rx.fullSem \in Int
      BY <1>9, Typed, FillerTakesRing DEF OneLess
    <3>3. Marked' = Marked /\ Marked \in Int
      BY <3>1
    <3> HIDE DEF Marked, IInv
    <3>4. /\ Taken = pushed + Marked - tx.fullSem
          /\ Taken' = pushed + Marked - tx'.fullSem
          /\ Stored' = Stored /\ Stored = fetched + rx.fullSem
      BY <3>1, <3>3
    <3> HIDE DEF Taken, Stored
    <3> QED
      BY <3>2, <3>3, <3>4
  <2>2. NumFrames \in Nat /\ Taken \in 0..NumFrames /\ tx.fullSem >= 1 /\ SenderRuns
    BY <1>9, Typed, FillerTakesRing DEF SendDataHeader, SenderSide, OneLess
  <2>3. Content(tx') = IF Taken + 1 <= NumFrames THEN Taken + 1 ELSE Empty
    <3>1. Content(tx') = Pending(tx)[1] /\ 1 \in 1..tx.fullSem
      BY <1>9, <2>2, Typed, FillerTakesRing DEF OneLess
    <3> QED
      BY <2>2, <3>1 DEF SenderSide
  <2> HIDE DEF Taken, Stored
  <2> QED
    BY <1>9, <2>1, <2>2, <2>3, Places, Wire, Sent DEF SendDataHeader
<1>10. CASE ReadEnd
  <2>1. Taken' = Taken + 1 /\ Stored' = Stored /\ Taken \in Int /\ Stored \in Int
    <3>1. UNCHANGED <<pushed, producer, fetched, rx>>
      BY <1>10 DEF ReadEnd
    <3>2. /\ tx'.fullSem = tx.fullSem - 1 /\ tx.fullSem \in Int /\ pushed \in Int
          /\ fetched \in Int /\ rx.fullSem \in Int
      BY <1>10, Typed, FillerTakesRing DEF OneLess
    <3>3. Marked' = Marked /\ Marked \in Int
      BY <3>1
    <3> HIDE DEF Marked, IInv
    <3>4. /\ Taken = pushed + Marked - tx.fullSem
          /\ Taken' = pushed + Marked - tx'.fullSem
          /\ Stored' = Stored /\ Stored = fetched + rx.fullSem
      BY <3>1, <3>3
    <3> HIDE DEF Taken, Stored
    <3> QED
      BY <3>2, <3>3, <3>4
  <2>2. NumFrames \in Nat /\ Taken \in 0..NumFrames /\ tx.fullSem >= 1 /\ SenderRuns
    BY <1>10, Typed, FillerTakesRing DEF ReadEnd, SenderSide, OneLess
  <2>3. Content(tx') = IF Taken + 1 <= NumFrames THEN Taken + 1 ELSE Empty
    <3>1. Content(tx') = Pending(tx)[1] /\ 1 \in 1..tx.fullSem
      BY <1>10, <2>2, Typed, FillerTakesRing DEF OneLess
    <3> QED
      BY <2>2, <3>1 DEF SenderSide
  <2> HIDE DEF Taken, Stored
  <2> QED
    BY <1>10, <2>1, <2>2, <2>3, Places, Wire, Sent DEF ReadEnd
<1>11. CASE SendData
  BY <1>11, Places, Wire, Sent DEF SendData
<1>12. CASE FrameAccepted
  <2>1. Taken' = Taken /\ Stored' = Stored /\ Taken \in Int /\ Stored \in Int
    BY <1>12, Typed, FrameAcceptedRing DEF FrameAccepted, SameFrames, OneMore, OneLess
  <2> HIDE DEF Taken, Stored
  <2> QED
    BY <1>12, <2>1, Typed, Places, Wire, Sent DEF FrameAccepted
<1>13. CASE Rejected
  <2>1. toFiller # <<>> /\ Head(toFiller) # "errNone" /\ filler \in Answered
        /\ toPump = <<>>
    BY <1>13, Wire DEF Rejected, Answered
  <2>2. peer # "same"
    BY <2>1 DEF Separated
  <2>3. SenderRuns /\ ReceiverRuns => pump = "ended"
    <3>1. filler = "header" /\ SenderRuns /\ ReceiverRuns => pump = "ended"
      BY <2>1, Places
    <3>2. filler # "header" /\ SenderRuns /\ ReceiverRuns => pump = "ended"
      BY <2>1 DEF Turns, Answered
    <3> QED
      BY <3>1, <3>2
  <2>4. UNCHANGED <<killed, pump, peer>> /\ filler' = "dead"
    BY <1>13 DEF Rejected
  <2> QED
    BY <2>2, <2>3, <2>4
<1>14. CASE FillerEOF
  BY <1>14, Places, Wire, Sent DEF FillerEOF
<1>15. CASE Assign
  BY <1>15, Places, Wire, Sent DEF Assign
<1>16. CASE CheckFixedLen
  BY <1>16, Places, Wire, Sent DEF CheckFixedLen
<1>17. CASE CheckTypeName
  BY <1>17, Places, Wire, Sent DEF CheckTypeName
<1>18. CASE PumpGetEmpty
  <2>1. Taken' = Taken /\ Stored' = Stored /\ Taken \in Int /\ Stored \in Int
    BY <1>18, Typed, PumpGetEmptyRing DEF PumpGetEmpty, SameFrames, OneMore, OneLess
  <2> HIDE DEF Taken, Stored
  <2> QED
    BY <1>18, <2>1, Typed, Places, Wire, Sent DEF PumpGetEmpty
<1>19. CASE ReadDataHeader
  <2>1. Taken' = Taken /\ Stored' = Stored
    BY <1>19, Typed, ReadDataHeaderRing DEF ReadDataHeader, SameFrames
  <2> HIDE DEF Taken, Stored
  <2>3. toPump' = <<>> /\ toFiller' = Append(<<>>, "errNone") /\ toPump # <<>>
    BY <1>19, Wire DEF ReadDataHeader
  <2>4. toFiller' # <<>> /\ Head(toFiller') = "errNone"
    BY <2>3, Sent
  <2>5. SenderRuns /\ ReceiverRuns => filler = "dataHeader"
    BY <1>19, Awaits DEF ReadDataHeader
  <2>6. UNCHANGED <<killed, filler>> /\ pump' = "data" /\ toPump' = <<>>
    BY <1>19, <2>3 DEF ReadDataHeader
  <2> QED
    BY <2>1, <2>3, <2>4, <2>5, <2>6
<1>20. CASE ReadData
  <2>1. Taken' = Taken /\ Taken \in Int /\ Stored \in Int
    BY <1>20, Typed DEF ReadData
  <2>2. Stored' = Stored + 1
    <3>1. fetched' = fetched /\ rx'.fullSem = rx.fullSem + 1 /\ rx.fullSem \in Nat
          /\ fetched \in Nat
      BY <1>20, Typed, ReadDataRing DEF ReadData, OneMore
    <3> HIDE DEF IInv
    <3> QED
      BY <3>1
  <2> HIDE DEF Taken, Stored
  <2>3. toPump' = <<>> /\ toFiller' = Append(<<>>, "errNone") /\ toPump # <<>>
    BY <1>20, Wire DEF ReadData
  <2>4. toFiller' # <<>> /\ Head(toFiller') = "errNone"
    BY <2>3, Sent
  <2>5. SenderRuns /\ ReceiverRuns => filler = "data"
    BY <1>20, Awaits DEF ReadData
  <2>6. UNCHANGED <<killed, filler>> /\ pump' = "empty" /\ toPump' = <<>>
    BY <1>20, <2>3 DEF ReadData
  <2> QED
    BY <2>1, <2>2, <2>3, <2>4, <2>5, <2>6
<1>21. CASE PumpEOF
  <2>1. Taken' = Taken /\ Stored' = Stored
    BY <1>21 DEF PumpEOF
  <2> HIDE DEF Taken, Stored
  <2>2. SenderRuns => filler \in {"ended", "dead"}
    BY <1>21 DEF PumpEOF, SenderSide
  <2> QED
    BY <1>21, <2>1, <2>2, Places DEF PumpEOF
<1>22. CASE PumpSigpipe
  BY <1>22, Places, Wire, Sent DEF PumpSigpipe
<1>23. CASE Attach
  BY <1>23, Places, Wire, Sent DEF Attach
<1>24. CASE BeginFetch
  <2>1. /\ rx'.fullSem = rx.fullSem - 1 /\ rx.fullSem \in Int /\ fetched \in Int
        /\ fetched' = fetched + 1
    BY <1>24, Typed, BeginFetchRing DEF BeginFetch, OneLess
  <2>2. Stored' = Stored
    BY <2>1
  <2>3. Taken' = Taken
    BY <1>24 DEF BeginFetch
  <2> HIDE DEF Taken, Stored
  <2> QED
    BY <1>24, <2>2, <2>3 DEF BeginFetch
<1>25. CASE EndFetch
  <2>1. Taken' = Taken /\ Stored' = Stored /\ Taken \in Int /\ Stored \in Int
    BY <1>25, Typed, EndFetchRing DEF EndFetch, SameFrames, OneMore, OneLess
  <2>2. UNCHANGED <<killed, filler, pump, assigned, toPump, toFiller, closed, peer>>
    BY <1>25 DEF EndFetch
  <2>3. Turns
    OBVIOUS
  <2> HIDE DEF Taken, Stored
  <2> QED
    BY ONLY <2>1, <2>2, <2>3 DEF Turns, SenderRuns, ReceiverRuns
<1>26. CASE KillSender
  BY <1>26, Places, Wire, Sent DEF KillSender
<1>27. CASE KillReceiver
  BY <1>27, Places, Wire, Sent DEF KillReceiver
<1>28. CASE UNCHANGED vars
  BY <1>28 DEF vars
<1> QED
  BY <1>1, <1>2, <1>3, <1>4, <1>5, <1>6, <1>7, <1>8, <1>9, <1>10, <1>11, <1>12, <1>13,
    <1>14, <1>15, <1>16, <1>17, <1>18, <1>19, <1>20, <1>21, <1>22, <1>23, <1>24, <1>25,
    <1>26, <1>27, <1>28
  DEF Next, Producer, Filler, Pump, Consumer

\* The filler and the pump count the same frames.
LEMMA CountsStep == IInv /\ [Next]_vars => Counts'
<1> SUFFICES ASSUME IInv, [Next]_vars PROVE Counts'
  OBVIOUS
<1> USE DEF IInv, Counts, SenderRuns, ReceiverRuns, Taken, Marked, Stored, network,
    threads, counters, Send, Accepted, Received, Answer, Empty
<1>1. CASE BeginPush
  <2>1. Taken' = Taken /\ Stored' = Stored /\ Taken \in Int /\ Stored \in Int
    BY <1>1, Typed, BeginPushRing DEF BeginPush, SameFrames, OneMore, OneLess
  <2>7. filler = "dead" => InHands(tx') = InHands(tx) /\ (InHands(tx) => Content(tx') = Content(tx))
    BY <1>1, BeginPushRing DEF SameHands
  <2> HIDE DEF Taken, Stored
  <2> QED
    BY <1>1, <2>1, <2>7 DEF BeginPush
<1>2. CASE EndPush
  <2>1. pushed' = pushed + 1 /\ fetched' = fetched /\ rx' = rx /\ producer = "serialize"
        /\ producer' = "run"
    BY <1>2 DEF EndPush
  <2>2. tx'.fullSem = tx.fullSem + 1
    BY <1>2, EndPushRing DEF OneMore
  <2>3. Taken = pushed - tx.fullSem /\ Taken' = pushed' - tx'.fullSem
    <3>1. pushed \in Int /\ tx.fullSem \in Int
      BY Typed
    <3> QED
      BY <2>1, <2>2, <3>1
  <2>4. Stored' = Stored
    BY <2>1
  <2>7. filler = "dead" => InHands(tx') = InHands(tx) /\ (InHands(tx) => Content(tx') = Content(tx))
    BY <1>2, EndPushRing DEF SameHands
  <2> HIDE DEF Taken, Stored
  <2>5. Taken' = Taken
    BY <2>1, <2>2, <2>3, Typed
  <2> QED
    BY <1>2, <2>4, <2>5, <2>7 DEF EndPush
<1>3. CASE SendEnd
  <2>1. producer = "run" /\ producer' = "join" /\ UNCHANGED <<pushed, fetched, rx>>
    BY <1>3 DEF SendEnd
  <2>2. tx'.fullSem = tx.fullSem + 1 /\ tx.fullSem \in Int /\ pushed \in Int
    BY <1>3, Typed, SendEndRing DEF OneMore
  <2>3. Taken = pushed - tx.fullSem /\ Taken' = pushed + 1 - tx'.fullSem
    BY <2>1, <2>2
  <2>4. Stored' = Stored
    BY <2>1
  <2>7. filler = "dead" => InHands(tx') = InHands(tx) /\ (InHands(tx) => Content(tx') = Content(tx))
    BY <1>3, SendEndRing DEF SameHands
  <2> HIDE DEF Taken, Stored
  <2>5. Taken' = Taken
    BY <2>2, <2>3
  <2> QED
    BY <1>3, <2>4, <2>5, <2>7 DEF SendEnd
<1>4. CASE Close
  BY <1>4, Wire DEF Close
<1>5. CASE Connect
  BY <1>5, Wire DEF Connect
<1>6. CASE ConnectFails
  <2>1. filler = "connect" /\ filler' = "dead"
        /\ UNCHANGED <<tx, rx, pushed, fetched, producer, killed, toFiller>>
    BY <1>6 DEF ConnectFails
  <2>2. Taken' = Taken /\ Stored' = Stored
    BY <2>1
  <2>3. SenderRuns => Stored = 0
    BY <2>1
  <2>4. SenderRuns => Taken = 0 /\ ~InHands(tx)
    BY <2>1 DEF SenderSide
  <2>5. UNCHANGED <<InHands(tx), Content(tx)>>
    BY <2>1
  <2> HIDE DEF Taken, Stored
  <2> QED
    BY <2>1, <2>2, <2>3, <2>4, <2>5
<1>7. CASE SendTypeName
  <2>1. Taken' = Taken /\ Stored' = Stored /\ Taken \in Int /\ Stored \in Int
    BY <1>7, Typed DEF SendTypeName
  <2> HIDE DEF Taken, Stored
  <2> QED
    BY <1>7, <2>1, Wire DEF SendTypeName
<1>8. CASE HandshakeDone
  <2>1. Taken' = Taken /\ Stored' = Stored /\ filler = "name" /\ filler' = "loop"
        /\ SenderRuns
    BY <1>8 DEF HandshakeDone, SenderSide
  <2>2. Taken = 0 /\ Stored = 0
    BY <2>1 DEF SenderSide
  <2> HIDE DEF Taken, Stored
  <2> QED
    BY <2>1, <2>2
<1>9. CASE SendDataHeader
  <2>1. Taken' = Taken + 1 /\ Stored' = Stored /\ Taken \in Int /\ Stored \in Int
    <3>1. UNCHANGED <<pushed, producer, fetched, rx>>
      BY <1>9 DEF SendDataHeader
    <3>2. /\ tx'.fullSem = tx.fullSem - 1 /\ tx.fullSem \in Int /\ pushed \in Int
          /\ fetched \in Int /\ rx.fullSem \in Int
      BY <1>9, Typed, FillerTakesRing DEF OneLess
    <3>3. Marked' = Marked /\ Marked \in Int
      BY <3>1
    <3> HIDE DEF Marked, IInv
    <3>4. /\ Taken = pushed + Marked - tx.fullSem
          /\ Taken' = pushed + Marked - tx'.fullSem
          /\ Stored' = Stored /\ Stored = fetched + rx.fullSem
      BY <3>1, <3>3
    <3> HIDE DEF Taken, Stored
    <3> QED
      BY <3>2, <3>3, <3>4
  <2>2. NumFrames \in Nat /\ Taken \in 0..NumFrames /\ tx.fullSem >= 1 /\ SenderRuns
    BY <1>9, Typed, FillerTakesRing DEF SendDataHeader, SenderSide, OneLess
  <2>3. Content(tx') = IF Taken + 1 <= NumFrames THEN Taken + 1 ELSE Empty
    <3>1. Content(tx') = Pending(tx)[1] /\ 1 \in 1..tx.fullSem
      BY <1>9, <2>2, Typed, FillerTakesRing DEF OneLess
    <3> QED
      BY <2>2, <3>1 DEF SenderSide
  <2> HIDE DEF Taken, Stored
  <2> QED
    BY <1>9, <2>1, <2>2, <2>3, Places, Wire, Sent DEF SendDataHeader
<1>10. CASE ReadEnd
  <2>1. Taken' = Taken + 1 /\ Stored' = Stored /\ Taken \in Int /\ Stored \in Int
    <3>1. UNCHANGED <<pushed, producer, fetched, rx>>
      BY <1>10 DEF ReadEnd
    <3>2. /\ tx'.fullSem = tx.fullSem - 1 /\ tx.fullSem \in Int /\ pushed \in Int
          /\ fetched \in Int /\ rx.fullSem \in Int
      BY <1>10, Typed, FillerTakesRing DEF OneLess
    <3>3. Marked' = Marked /\ Marked \in Int
      BY <3>1
    <3> HIDE DEF Marked, IInv
    <3>4. /\ Taken = pushed + Marked - tx.fullSem
          /\ Taken' = pushed + Marked - tx'.fullSem
          /\ Stored' = Stored /\ Stored = fetched + rx.fullSem
      BY <3>1, <3>3
    <3> HIDE DEF Taken, Stored
    <3> QED
      BY <3>2, <3>3, <3>4
  <2>2. NumFrames \in Nat /\ Taken \in 0..NumFrames /\ tx.fullSem >= 1 /\ SenderRuns
    BY <1>10, Typed, FillerTakesRing DEF ReadEnd, SenderSide, OneLess
  <2>3. Content(tx') = IF Taken + 1 <= NumFrames THEN Taken + 1 ELSE Empty
    <3>1. Content(tx') = Pending(tx)[1] /\ 1 \in 1..tx.fullSem
      BY <1>10, <2>2, Typed, FillerTakesRing DEF OneLess
    <3> QED
      BY <2>2, <3>1 DEF SenderSide
  <2>4. Stored = Taken /\ Taken = NumFrames
    BY <1>10, <2>2, <2>3 DEF ReadEnd
  <2> HIDE DEF Taken, Stored
  <2> QED
    BY <1>10, <2>1, <2>2, <2>3, <2>4, Places, Wire, Sent DEF ReadEnd
<1>11. CASE SendData
  <2>1. Taken' = Taken /\ Stored' = Stored /\ filler = "dataHeader" /\ filler' = "data"
        /\ toFiller' = <<>>
    BY <1>11, Wire DEF SendData
  <2> HIDE DEF Taken, Stored
  <2> QED
    BY <1>11, <2>1 DEF SendData
<1>12. CASE FrameAccepted
  <2>1. Taken' = Taken /\ Stored' = Stored
    BY <1>12, FrameAcceptedRing DEF FrameAccepted, SameFrames
  <2>2. filler = "data" /\ filler' = "loop" /\ toFiller # <<>> /\ SenderRuns
    BY <1>12 DEF FrameAccepted, SenderSide
  <2>3. Stored = Taken
    BY <2>2
  <2> HIDE DEF Taken, Stored
  <2> QED
    BY <2>1, <2>2, <2>3
<1>13. CASE Rejected
  <2>1. Taken' = Taken /\ Stored' = Stored /\ filler \in Answered /\ filler' = "dead"
        /\ tx' = tx /\ SenderRuns
    BY <1>13 DEF Rejected, Answered, SenderSide
  <2>2. Taken = 0 \/ (InHands(tx) /\ Content(tx) = Taken /\ Taken \in 1..NumFrames)
    BY <2>1 DEF SenderSide, Answered
  <2>3. filler \in {"header", "name"} => Taken = 0 /\ ~InHands(tx)
    BY <2>1 DEF SenderSide
  <2>4. filler \in {"dataHeader", "data"} => InHands(tx) /\ Content(tx) = Taken /\ Taken \in 1..NumFrames
    BY <2>1 DEF SenderSide
  <2> HIDE DEF Taken, Stored
  <2> QED
    BY <2>1, <2>3, <2>4 DEF Answered
<1>14. CASE FillerEOF
  <2>1. Taken' = Taken /\ Stored' = Stored /\ filler \in Answered /\ filler' = "dead"
        /\ tx' = tx /\ SenderRuns
    BY <1>14 DEF FillerEOF, Answered, SenderSide
  <2>2. Taken = 0 \/ (InHands(tx) /\ Content(tx) = Taken /\ Taken \in 1..NumFrames)
    BY <2>1 DEF SenderSide, Answered
  <2>3. filler \in {"header", "name"} => Taken = 0 /\ ~InHands(tx)
    BY <2>1 DEF SenderSide
  <2>4. filler \in {"dataHeader", "data"} => InHands(tx) /\ Content(tx) = Taken /\ Taken \in 1..NumFrames
    BY <2>1 DEF SenderSide
  <2> HIDE DEF Taken, Stored
  <2> QED
    BY <2>1, <2>3, <2>4 DEF Answered
<1>15. CASE Assign
  BY <1>15, Wire DEF Assign
<1>16. CASE CheckFixedLen
  <2>1. Taken' = Taken /\ Stored' = Stored
    BY <1>16, Typed DEF CheckFixedLen, SameFrames
  <2>2. SenderRuns => filler # "data"
    BY <1>16, Awaits, Places, Wire DEF CheckFixedLen
  <2> HIDE DEF Taken, Stored
  <2> QED
    BY <1>16, <2>1, <2>2 DEF CheckFixedLen
<1>17. CASE CheckTypeName
  <2>1. Taken' = Taken /\ Stored' = Stored
    BY <1>17, Typed DEF CheckTypeName, SameFrames
  <2>2. SenderRuns => filler # "data"
    BY <1>17, Awaits, Places, Wire DEF CheckTypeName
  <2> HIDE DEF Taken, Stored
  <2> QED
    BY <1>17, <2>1, <2>2 DEF CheckTypeName
<1>18. CASE PumpGetEmpty
  <2>1. Taken' = Taken /\ Stored' = Stored /\ Taken \in Int /\ Stored \in Int
    BY <1>18, Typed, PumpGetEmptyRing DEF PumpGetEmpty, SameFrames, OneMore, OneLess
  <2> HIDE DEF Taken, Stored
  <2> QED
    BY <1>18, <2>1, Typed, Places, Wire, Sent DEF PumpGetEmpty
<1>19. CASE ReadDataHeader
  <2>1. Taken' = Taken /\ Stored' = Stored
    BY <1>19, Typed, ReadDataHeaderRing DEF ReadDataHeader, SameFrames
  <2>2. SenderRuns => filler # "data"
    BY <1>19, Awaits, Places, Wire DEF ReadDataHeader
  <2> HIDE DEF Taken, Stored
  <2> QED
    BY <1>19, <2>1, <2>2 DEF ReadDataHeader
<1>20. CASE ReadData
  <2>1. Taken' = Taken /\ Taken \in Int /\ Stored \in Int
    BY <1>20, Typed DEF ReadData
  <2>2. Stored' = Stored + 1
    <3>1. fetched' = fetched /\ rx'.fullSem = rx.fullSem + 1 /\ rx.fullSem \in Nat
          /\ fetched \in Nat
      BY <1>20, Typed, ReadDataRing DEF ReadData, OneMore
    <3> HIDE DEF IInv
    <3> QED
      BY <3>1
  <2>3. toPump # <<>> /\ ReceiverRuns /\ UNCHANGED <<killed, filler>>
    BY <1>20, Places DEF ReadData
  <2>4. SenderRuns => filler = "data" /\ Stored = Taken - 1
    <3>1. SenderRuns => filler = "data"
      BY <1>20, <2>3, Awaits DEF ReadData
    <3> QED
      BY <2>3, <3>1 DEF Turns
  <2> HIDE DEF Taken, Stored
  <2> QED
    BY <2>1, <2>2, <2>3, <2>4
<1>21. CASE PumpEOF
  <2>1. Taken' = Taken /\ Stored' = Stored
    BY <1>21 DEF PumpEOF
  <2> HIDE DEF Taken, Stored
  <2>2. SenderRuns => filler \in {"ended", "dead"}
    BY <1>21 DEF PumpEOF, SenderSide
  <2> QED
    BY <1>21, <2>1, <2>2, Places DEF PumpEOF
<1>22. CASE PumpSigpipe
  BY <1>22, Wire DEF PumpSigpipe
<1>23. CASE Attach
  BY <1>23, Wire DEF Attach
<1>24. CASE BeginFetch
  <2>1. /\ rx'.fullSem = rx.fullSem - 1 /\ rx.fullSem \in Int /\ fetched \in Int
        /\ fetched' = fetched + 1
    BY <1>24, Typed, BeginFetchRing DEF BeginFetch, OneLess
  <2>2. Stored' = Stored
    BY <2>1
  <2>3. Taken' = Taken
    BY <1>24 DEF BeginFetch
  <2> HIDE DEF Taken, Stored
  <2> QED
    BY <1>24, <2>2, <2>3 DEF BeginFetch
<1>25. CASE EndFetch
  <2>1. Taken' = Taken /\ Stored' = Stored /\ Taken \in Int /\ Stored \in Int
    BY <1>25, Typed, EndFetchRing DEF EndFetch, SameFrames, OneMore, OneLess
  <2> HIDE DEF Taken, Stored
  <2> QED
    BY <1>25, <2>1, Typed, Places, Wire, Sent DEF EndFetch
<1>26. CASE KillSender
  BY <1>26, Wire DEF KillSender
<1>27. CASE KillReceiver
  BY <1>27, Wire DEF KillReceiver
<1>28. CASE UNCHANGED vars
  BY <1>28 DEF vars
<1> QED
  BY <1>1, <1>2, <1>3, <1>4, <1>5, <1>6, <1>7, <1>8, <1>9, <1>10, <1>11, <1>12, <1>13,
    <1>14, <1>15, <1>16, <1>17, <1>18, <1>19, <1>20, <1>21, <1>22, <1>23, <1>24, <1>25,
    <1>26, <1>27, <1>28
  DEF Next, Producer, Filler, Pump, Consumer

\* A pump that has compared types stops unless they are equal.
LEMMA SeparatedStep == IInv /\ [Next]_vars => Separated'
<1> SUFFICES ASSUME IInv, [Next]_vars PROVE Separated'
  OBVIOUS
<1> USE DEF IInv, TypeOK, Separated, Matches, Peers, ReceiverSide, ReceiverRuns,
    SenderSide, SenderRuns, network, threads, counters, Send, Accepted, Received, Answer
<1>1. CASE BeginPush
  BY <1>1, Wire DEF BeginPush
<1>2. CASE EndPush
  BY <1>2, Wire DEF EndPush
<1>3. CASE SendEnd
  BY <1>3, Wire DEF SendEnd
<1>4. CASE Close
  BY <1>4, Wire DEF Close
<1>5. CASE Connect
  BY <1>5, Wire DEF Connect
<1>6. CASE ConnectFails
  BY <1>6, Wire DEF ConnectFails
<1>7. CASE SendTypeName
  <2>1. toFiller' = <<>>
    BY <1>7, Wire, Places DEF SendTypeName
  <2>2. filler # "connect" /\ filler # "dead" /\ filler # "killed"
    BY <1>7 DEF SendTypeName
  <2> QED
    BY <1>7, <2>1, <2>2 DEF SendTypeName
<1>8. CASE HandshakeDone
  <2>1. toFiller' = <<>>
    BY <1>8, Wire, Places DEF HandshakeDone
  <2>2. filler # "connect" /\ filler # "dead" /\ filler # "killed"
    BY <1>8 DEF HandshakeDone
  <2> QED
    BY <1>8, <2>1, <2>2 DEF HandshakeDone
<1>9. CASE SendDataHeader
  <2>1. toFiller' = <<>>
    BY <1>9, Wire, Places DEF SendDataHeader
  <2>2. filler # "connect" /\ filler # "dead" /\ filler # "killed"
    BY <1>9 DEF SendDataHeader
  <2> QED
    BY <1>9, <2>1, <2>2 DEF SendDataHeader
<1>10. CASE ReadEnd
  BY <1>10, Wire DEF ReadEnd
<1>11. CASE SendData
  <2>1. toFiller' = <<>>
    BY <1>11, Wire, Places DEF SendData
  <2>2. filler # "connect" /\ filler # "dead" /\ filler # "killed"
    BY <1>11 DEF SendData
  <2> QED
    BY <1>11, <2>1, <2>2 DEF SendData
<1>12. CASE FrameAccepted
  <2>1. toFiller' = <<>>
    BY <1>12, Wire, Places DEF FrameAccepted
  <2>2. filler # "connect" /\ filler # "dead" /\ filler # "killed"
    BY <1>12 DEF FrameAccepted
  <2> QED
    BY <1>12, <2>1, <2>2 DEF FrameAccepted
<1>13. CASE Rejected
  BY <1>13, Wire DEF Rejected
<1>14. CASE FillerEOF
  BY <1>14, Wire DEF FillerEOF
<1>15. CASE Assign
  BY <1>15, Wire DEF Assign
<1>16. CASE CheckFixedLen
  <2>1. \E c : toFiller' = Append(<<>>, c) /\ (c # "errNone" => peer # "same")
    BY <1>16, Wire, Places DEF CheckFixedLen
  <2>2. toFiller' # <<>> /\ (Head(toFiller') # "errNone" => peer # "same")
    BY <2>1, Sent
  <2>3. toPump' = <<>> \/ toPump' = toPump
    BY <1>16, Wire DEF CheckFixedLen
  <2> QED
    BY <1>16, <2>2, <2>3, Places DEF CheckFixedLen
<1>17. CASE CheckTypeName
  <2>1. \E c : toFiller' = Append(<<>>, c) /\ (c # "errNone" => peer # "same")
    BY <1>17, Wire, Places DEF CheckTypeName
  <2>2. toFiller' # <<>> /\ (Head(toFiller') # "errNone" => peer # "same")
    BY <2>1, Sent
  <2>3. toPump' = <<>> \/ toPump' = toPump
    BY <1>17, Wire DEF CheckTypeName
  <2> QED
    BY <1>17, <2>2, <2>3, Places DEF CheckTypeName
<1>18. CASE PumpGetEmpty
  <2>1. rx'.fullSem = rx.fullSem
    BY <1>18, PumpGetEmptyRing DEF SameFrames
  <2> QED
    BY <1>18, <2>1, Places DEF PumpGetEmpty
<1>19. CASE ReadDataHeader
  <2>1. peer = "same"
    BY <1>19 DEF ReadDataHeader
  <2>2. toFiller' = Append(<<>>, "errNone")
    BY <1>19, Wire DEF ReadDataHeader
  <2>3. Head(toFiller') = "errNone"
    BY <2>2, Sent
  <2> QED
    BY <1>19, <2>1, <2>3 DEF ReadDataHeader
<1>20. CASE ReadData
  <2>1. peer = "same"
    BY <1>20 DEF ReadData
  <2>2. toFiller' = Append(<<>>, "errNone")
    BY <1>20, Wire DEF ReadData
  <2>3. Head(toFiller') = "errNone"
    BY <2>2, Sent
  <2> QED
    BY <1>20, <2>1, <2>3 DEF ReadData
<1>21. CASE PumpEOF
  BY <1>21, Wire DEF PumpEOF
<1>22. CASE PumpSigpipe
  BY <1>22, Wire DEF PumpSigpipe
<1>23. CASE Attach
  BY <1>23, Wire DEF Attach
<1>24. CASE BeginFetch
  <2>1. peer = "same"
    BY <1>24, Typed DEF BeginFetch, CanGetFull
  <2> QED
    BY <1>24, <2>1, Places DEF BeginFetch
<1>25. CASE EndFetch
  <2>1. rx'.fullSem = rx.fullSem
    BY <1>25, EndFetchRing DEF SameFrames
  <2> QED
    BY <1>25, <2>1, Places DEF EndFetch
<1>26. CASE KillSender
  BY <1>26, Wire DEF KillSender
<1>27. CASE KillReceiver
  BY <1>27, Wire DEF KillReceiver
<1>28. CASE UNCHANGED vars
  BY <1>28 DEF vars
<1> QED
  BY <1>1, <1>2, <1>3, <1>4, <1>5, <1>6, <1>7, <1>8, <1>9, <1>10, <1>11, <1>12, <1>13,
    <1>14, <1>15, <1>16, <1>17, <1>18, <1>19, <1>20, <1>21, <1>22, <1>23, <1>24, <1>25,
    <1>26, <1>27, <1>28
  DEF Next, Producer, Filler, Pump, Consumer

\* Nobody is left to send.
LEMMA EmptiedStep == IInv /\ [Next]_vars => Emptied'
<1> SUFFICES ASSUME IInv, [Next]_vars PROVE Emptied'
  OBVIOUS
<1> USE DEF IInv, Emptied, SenderRuns, ReceiverRuns, network, threads, Accepted
<1>1. CASE BeginPush
  <2>1. toPump' = toPump /\ killed' = killed
    BY <1>1 DEF BeginPush
  <2> QED
    BY <2>1
<1>2. CASE EndPush
  <2>1. toPump' = toPump /\ killed' = killed
    BY <1>2 DEF EndPush
  <2> QED
    BY <2>1
<1>3. CASE SendEnd
  <2>1. toPump' = toPump /\ killed' = killed
    BY <1>3 DEF SendEnd
  <2> QED
    BY <2>1
<1>4. CASE Close
  <2>1. toPump' = toPump /\ killed' = killed
    BY <1>4 DEF Close
  <2> QED
    BY <2>1
<1>5. CASE Connect
  BY <1>5, Places DEF Connect
<1>6. CASE ConnectFails
  <2>1. toPump' = toPump /\ killed' = killed
    BY <1>6 DEF ConnectFails
  <2> QED
    BY <2>1
<1>7. CASE SendTypeName
  BY <1>7, Places DEF SendTypeName
<1>8. CASE HandshakeDone
  <2>1. toPump' = toPump /\ killed' = killed
    BY <1>8 DEF HandshakeDone
  <2> QED
    BY <2>1
<1>9. CASE SendDataHeader
  BY <1>9, Places DEF SendDataHeader
<1>10. CASE ReadEnd
  <2>1. toPump' = toPump /\ killed' = killed
    BY <1>10 DEF ReadEnd
  <2> QED
    BY <2>1
<1>11. CASE SendData
  BY <1>11, Places DEF SendData
<1>12. CASE FrameAccepted
  <2>1. toPump' = toPump /\ killed' = killed
    BY <1>12 DEF FrameAccepted
  <2> QED
    BY <2>1
<1>13. CASE Rejected
  <2>1. toPump' = toPump /\ killed' = killed
    BY <1>13 DEF Rejected
  <2> QED
    BY <2>1
<1>14. CASE FillerEOF
  <2>1. toPump' = toPump /\ killed' = killed
    BY <1>14 DEF FillerEOF
  <2> QED
    BY <2>1
<1>15. CASE Assign
  BY <1>15, Places DEF Assign
<1>16. CASE CheckFixedLen
  <2>1. toPump' = toPump /\ killed' = killed
    BY <1>16 DEF CheckFixedLen
  <2> QED
    BY <2>1
<1>17. CASE CheckTypeName
  BY <1>17, Places DEF CheckTypeName
<1>18. CASE PumpGetEmpty
  <2>1. toPump' = toPump /\ killed' = killed
    BY <1>18 DEF PumpGetEmpty
  <2> QED
    BY <2>1
<1>19. CASE ReadDataHeader
  BY <1>19, Places DEF ReadDataHeader
<1>20. CASE ReadData
  BY <1>20, Places DEF ReadData
<1>21. CASE PumpEOF
  <2>1. toPump' = toPump /\ killed' = killed
    BY <1>21 DEF PumpEOF
  <2> QED
    BY <2>1
<1>22. CASE PumpSigpipe
  BY <1>22, Places DEF PumpSigpipe
<1>23. CASE Attach
  <2>1. toPump' = toPump /\ killed' = killed
    BY <1>23 DEF Attach
  <2> QED
    BY <2>1
<1>24. CASE BeginFetch
  <2>1. toPump' = toPump /\ killed' = killed
    BY <1>24 DEF BeginFetch
  <2> QED
    BY <2>1
<1>25. CASE EndFetch
  <2>1. toPump' = toPump /\ killed' = killed
    BY <1>25 DEF EndFetch
  <2> QED
    BY <2>1
<1>26. CASE KillSender
  BY <1>26, Places DEF KillSender
<1>27. CASE KillReceiver
  BY <1>27, Places DEF KillReceiver
<1>28. CASE UNCHANGED vars
  BY <1>28 DEF vars
<1> QED
  BY <1>1, <1>2, <1>3, <1>4, <1>5, <1>6, <1>7, <1>8, <1>9, <1>10, <1>11, <1>12, <1>13,
    <1>14, <1>15, <1>16, <1>17, <1>18, <1>19, <1>20, <1>21, <1>22, <1>23, <1>24, <1>25,
    <1>26, <1>27, <1>28
  DEF Next, Producer, Filler, Pump, Consumer

\* In the initial states both rings and the connection are empty.
LEMMA InitIInv == Init => IInv
<1> SUFFICES ASSUME Init PROVE IInv
  OBVIOUS
<1> USE SocketLinkAssumption DEF Init, NoBuffer, Torn, Empty
<1>1. /\ New(TxBuffers, Empty) \in LinkBuffers(TxBuffers, Torn..NumFrames)
      /\ New(RxBuffers, Empty) \in LinkBuffers(RxBuffers, Torn..NumFrames)
  BY DEF New, LinkBuffers
<1>2. TypeOK
  <2>1. tx \in LinkBuffers(TxBuffers, Torn..NumFrames)
        /\ rx \in LinkBuffers(RxBuffers, Torn..NumFrames)
    BY <1>1
  <2>2. toPump \in Seq(Messages) /\ toFiller \in Seq({"errNone", "errType"})
    OBVIOUS
  <2>3. {pushed, fetched} \subseteq 0..NumFrames /\ seen \in Torn..NumFrames
    OBVIOUS
  <2> QED
    BY <2>1, <2>2, <2>3 DEF TypeOK
<1>3. Rings /\ ~InHands(tx) /\ ~InHands(rx)
  BY DEF Rings, RingOK, Current, New, InHands
<1>4. tx.fullSem = 0 /\ rx.fullSem = 0 /\ tx.currentEmpty = NoBuffer
      /\ rx.currentEmpty = NoBuffer
  BY DEF New
<1>5. Expected
  BY DEF Expected
<1>6. SenderSide /\ ReceiverSide /\ Separated /\ Counts /\ Turns /\ Emptied
  BY <1>3, <1>4
  DEF SenderSide, ReceiverSide, Separated, Counts, Turns, Emptied, SenderRuns,
    ReceiverRuns, Taken, Marked,
      Stored, Received
<1> QED
  BY <1>2, <1>3, <1>5, <1>6, LockstepIs DEF IInv

\* The invariant is inductive.
THEOREM Invariant == Spec => []IInv
<1>1. IInv /\ [Next]_vars => IInv'
  <2> SUFFICES ASSUME IInv, [Next]_vars PROVE IInv'
    OBVIOUS
  <2>1. TypeOK' /\ Rings' /\ SenderSide' /\ ReceiverSide' /\ Separated' /\ Counts'
        /\ Turns' /\ Emptied'
    BY TypeStep, RingsStep, SenderStep, ReceiverStep, SeparatedStep, CountsStep, TurnsStep,
      EmptiedStep
  <2>2. Lockstep'
    <3>1. Expected'
      BY ExpectedStep
    <3> QED
      BY <3>1 DEF Expected, Lockstep, Answered
  <2> QED
    BY <2>1, <2>2 DEF IInv
<1> QED
  BY <1>1, InitIInv, PTL DEF Spec

\* Every variable keeps its type, and with it every semaphore and ring
\* position its range.
THEOREM TypeCorrect == Spec => []TypeOK
BY Invariant, PTL DEF IInv

\* The filler and the pump never misread the stream that joins them.
THEOREM TurnsTaken == Spec => []Lockstep
BY Invariant, PTL DEF IInv

\* Links of different types never exchange a frame.
THEOREM NoForeignFrame == Spec => []TypesSeparated
<1>1. IInv => TypesSeparated
  <2> SUFFICES ASSUME IInv, peer # "same" PROVE fetched = 0 /\ rx.fullSem = 0
    BY DEF TypesSeparated
  <2> QED
    BY DEF IInv, Separated
<1> QED
  BY <1>1, Invariant, PTL

\* Once ~FdFiller has returned every frame has reached the receiving process.
THEOREM Flushed == Spec => []FlushedOnClose
<1>1. IInv => FlushedOnClose
  <2> SUFFICES ASSUME IInv, peer = "same", producer = "gone", killed = {}
               PROVE  fetched + rx.fullSem = NumFrames
    BY DEF FlushedOnClose
  <2>1. SenderRuns /\ ReceiverRuns
    BY DEF SenderRuns, ReceiverRuns
  <2>2. filler \in {"ended", "dead"}
    BY <2>1 DEF IInv, SenderSide
  <2>3. filler # "dead" /\ (filler = "ended" => Stored = NumFrames)
    BY <2>1 DEF IInv, Counts, Turns
  <2> QED
    BY <2>2, <2>3 DEF Stored
<1> QED
  BY <1>1, Invariant, PTL

\* The consumer sees the next frame, complete.
NextFrame == seen' \in {seen, seen + 1}

\* What fetch deserializes is the frame after the last one, whatever the sizes
\* of the rings and whoever is killed: none is lost, repeated or torn.
THEOREM InOrder == Spec => [][NextFrame]_vars
<1>1. IInv /\ [Next]_vars => [NextFrame]_vars
  <2> SUFFICES ASSUME IInv, [Next]_vars PROVE NextFrame \/ UNCHANGED vars
    OBVIOUS
  <2>1. CASE EndFetch
    <3>1. seen' = fetched /\ seen = fetched - 1 /\ fetched \in Int
      BY <2>1, Typed DEF EndFetch, IInv, ReceiverSide
    <3> QED
      BY <3>1 DEF NextFrame
  <2>2. CASE UNCHANGED vars
    BY <2>2
  <2>3. ASSUME ~EndFetch, Next PROVE seen' = seen
    BY <2>3
    DEF Next, Producer, Filler, Pump, Consumer, counters, BeginPush, EndPush, SendEnd,
      Close, Connect,
        ConnectFails, SendTypeName, HandshakeDone, SendDataHeader, ReadEnd, SendData, FrameAccepted,
        Rejected, FillerEOF, Assign, CheckFixedLen, CheckTypeName, PumpGetEmpty, ReadDataHeader,
        ReadData, PumpEOF, PumpSigpipe, Attach, BeginFetch, KillSender, KillReceiver
  <2> QED
    BY <2>1, <2>2, <2>3 DEF NextFrame
<1> QED
  BY <1>1, Invariant, PTL DEF Spec

----------------------------------------------------------------------------
(* The link implements a bounded queue. *)

\* The n frames after frame f.
Run(f, n) == [k \in 1..n |-> f + k]

\* One run behind another.
LEMMA RunJoins ==
    ASSUME NEW f \in Int, NEW m \in Nat, NEW n \in Nat
    PROVE  Run(f, m) \o Run(f + m, n) = Run(f, m + n)
<1> DEFINE s == Run(f, m)
           t == Run(f + m, n)
           u == Run(f, m + n)
<1>1. /\ s \in Seq(Int) /\ t \in Seq(Int) /\ u \in Seq(Int)
      /\ Len(s) = m /\ Len(t) = n /\ Len(u) = m + n
  BY DEF Run
<1>2. /\ \A k \in 1..m : s[k] = f + k
      /\ \A k \in 1..n : t[k] = f + m + k
      /\ \A k \in 1..(m + n) : u[k] = f + k
  BY DEF Run
<1> HIDE DEF s, t, u
<1>3. /\ s \o t \in Seq(Int) /\ Len(s \o t) = m + n
      /\ \A k \in 1..(m + n) : (s \o t)[k] = IF k <= m THEN s[k] ELSE t[k - m]
  BY <1>1, ConcatProperties
<1>4. ASSUME NEW k \in 1..(m + n) PROVE (s \o t)[k] = u[k]
  <2>1. CASE k <= m
    BY <1>2, <1>3, <2>1
  <2>2. CASE k > m
    <3>1. k - m \in 1..n /\ f + m + (k - m) = f + k /\ ~(k <= m)
      BY <2>2
    <3>2. (s \o t)[k] = t[k - m]
      BY <1>3, <3>1
    <3> QED
      BY <1>2, <3>1, <3>2
  <2>3. k <= m \/ k > m
    OBVIOUS
  <2> QED
    BY ONLY <2>1, <2>2, <2>3
<1>5. s \o t = u
  BY <1>1, <1>3, <1>4, SeqEqual
<1> QED
  BY <1>5 DEF s, t, u

\* A run of one, and of none.
LEMMA RunShort ==
    ASSUME NEW f \in Int
    PROVE  Run(f, 0) = <<>> /\ Run(f, 1) = <<f + 1>>
<1>1. Run(f, 0) = <<>>
  BY DEF Run
<1>2. Run(f, 1) \in Seq(Int) /\ Len(Run(f, 1)) = 1 /\ Run(f, 1)[1] = f + 1
  BY DEF Run
<1> QED
  BY <1>1, <1>2

\* A run grows at its end and shrinks at its start.
LEMMA RunMoves ==
    ASSUME NEW f \in Int, NEW n \in Nat
    PROVE  /\ Run(f, n) \in Seq(Int) /\ Len(Run(f, n)) = n
           /\ Append(Run(f, n), f + n + 1) = Run(f, n + 1)
           /\ n > 0 => /\ Run(f, n) # <<>> /\ Head(Run(f, n)) = f + 1
                       /\ Tail(Run(f, n)) = Run(f + 1, n - 1)
<1>1. Run(f, n) \in Seq(Int) /\ Len(Run(f, n)) = n
  BY DEF Run
<1>2. Append(Run(f, n), f + n + 1) = Run(f, n + 1)
  <2> DEFINE s == Run(f, n)
             u == Run(f, n + 1)
             e == f + n + 1
  <2>1. /\ u \in Seq(Int) /\ Len(u) = n + 1 /\ e \in Int
        /\ \A k \in 1..n : s[k] = f + k
        /\ \A k \in 1..(n + 1) : u[k] = f + k
    BY DEF Run
  <2>2. s \in Seq(Int) /\ Len(s) = n
    BY <1>1
  <2> HIDE DEF s, u
  <2>3. PICK w : w = Append(s, e)
    OBVIOUS
  <2>4. /\ w \in Seq(Int) /\ Len(w) = n + 1
        /\ \A k \in 1..n : w[k] = s[k]
        /\ w[n + 1] = e
    BY ONLY <2>1, <2>2, <2>3, AppendProperties
  <2> HIDE DEF e
  <2>5. ASSUME NEW k \in 1..(n + 1) PROVE w[k] = u[k]
    <3>1. CASE k = n + 1
      BY <2>1, <2>4, <3>1 DEF e
    <3>2. CASE k # n + 1
      BY <2>1, <2>4, <3>2
    <3> QED
      BY ONLY <3>1, <3>2
  <2>6. w = u
    BY ONLY <2>1, <2>4, <2>5, SeqEqual
  <2> QED
    BY <2>3, <2>6 DEF s, u, e
<1>3. ASSUME n > 0
      PROVE  /\ Run(f, n) # <<>> /\ Head(Run(f, n)) = f + 1
             /\ Tail(Run(f, n)) = Run(f + 1, n - 1)
  <2>1. Run(f, n)[1] = f + 1
    BY <1>3 DEF Run
  <2> DEFINE s == Run(f, n)
             u == Run(f + 1, n - 1)
  <2>2. /\ u \in Seq(Int) /\ Len(u) = n - 1
        /\ \A k \in 1..n : s[k] = f + k
        /\ \A k \in 1..(n - 1) : u[k] = f + 1 + k
    BY <1>3 DEF Run
  <2>3. s \in Seq(Int) /\ Len(s) = n /\ s # <<>> /\ s[1] = f + 1
    BY <1>1, <1>3, <2>1
  <2> HIDE DEF s, u
  <2>4. /\ Tail(s) \in Seq(Int) /\ Len(Tail(s)) = n - 1
        /\ \A k \in 1..(n - 1) : Tail(s)[k] = s[k + 1]
    BY <2>3, HeadTailProperties
  <2>5. ASSUME NEW k \in 1..(n - 1) PROVE Tail(s)[k] = u[k]
    <3>1. k + 1 \in 1..n /\ f + (k + 1) = f + 1 + k
      OBVIOUS
    <3> QED
      BY <2>2, <2>4, <3>1
  <2>6. Tail(s) = u
    BY <2>2, <2>4, <2>5, SeqEqual
  <2>7. Head(s) = f + 1
    BY <2>3
  <2> QED
    BY <2>3, <2>6, <2>7 DEF s, u
<1> QED
  BY <1>1, <1>2, <1>3

\* What is left of a run when frames at its ends are lost.
LEMMA RunCut ==
    ASSUME NEW b \in Int, NEW c \in Int, NEW l \in Int, NEW m \in Int,
           b <= c, c <= l, l <= m
    PROVE  LET s == Run(b, m - b) IN
           \E i \in 1..(Len(s) + 1), j \in 0..Len(s) : Run(c, l - c) = SubSeq(s, i, j)
<1> DEFINE s == Run(b, m - b)
           i == c - b + 1
           j == l - b
<1>1. m - b \in Nat
  OBVIOUS
<1>2. s \in Seq(Int) /\ Len(s) = m - b /\ \A k \in 1..(m - b) : s[k] = b + k
  BY <1>1 DEF Run
<1> HIDE DEF s
<1>3. i \in 1..(m - b + 1) /\ j \in 0..(m - b) /\ j - i + 1 = l - c
  OBVIOUS
<1>4. \A k \in 1..(j - i + 1) : i + k - 1 \in 1..(m - b) /\ s[i + k - 1] = c + k
  BY <1>2, <1>3
<1>5. SubSeq(s, i, j) = [k \in 1..(j - i + 1) |-> s[i + k - 1]]
  BY <1>2, <1>3
<1>6. SubSeq(s, i, j) = Run(c, l - c)
  BY <1>3, <1>4, <1>5 DEF Run
<1> QED
  BY <1>2, <1>3, <1>6 DEF s

\* The frame before the first one of the queue, and the last one.
Before == IF ReceiverRuns THEN fetched ELSE Stored

Newest ==
    IF SenderRuns THEN pushed
    ELSE IF Received("data") THEN Stored + 1 ELSE Stored

\* What the sender's ring still holds, without the end marker.
LEMMA WaitingIs ==
    ASSUME IInv, SenderRuns
    PROVE  LET t == IF Taken <= NumFrames THEN Taken ELSE NumFrames IN
           Waiting = Run(t, pushed - t) /\ t \in Int /\ pushed - t \in Nat
<1> DEFINE n == tx.fullSem
           t == IF Taken <= NumFrames THEN Taken ELSE NumFrames
<1>1. /\ n \in Nat /\ pushed \in 0..NumFrames /\ NumFrames \in Nat /\ Marked \in {0, 1}
      /\ Taken = pushed + Marked - n /\ (Marked = 1 => pushed = NumFrames)
  BY Typed DEF Taken, Marked, IInv, SenderSide
<1>2. \A k \in 1..n : Pending(tx)[k] = IF Taken + k <= NumFrames THEN Taken + k ELSE Empty
  BY DEF IInv, SenderSide
<1> HIDE DEF n
<1>3. Taken \in Int /\ Taken + n = pushed + Marked
  BY <1>1
<1>4. Taken \in 0..(NumFrames + 1)
  <2>1. filler \in {"connect", "header", "name", "loop", "dataHeader", "data", "ended", "dead"}
    BY Places DEF SenderRuns, Answered
  <2>2. \/ Taken = 0 \/ Taken \in 0..NumFrames \/ Taken \in 1..NumFrames
        \/ Taken = NumFrames + 1
    BY <2>1 DEF IInv, SenderSide, Counts
  <2> QED
    BY <1>1, <2>2
<1>5. n > 0 => Pending(tx)[n] = IF pushed + Marked <= NumFrames THEN pushed + Marked ELSE Empty
  BY <1>1, <1>2, <1>3
<1>6. n > 0 => ((Pending(tx)[n] = Empty) <=> (Marked = 1))
  BY <1>1, <1>3, <1>4, <1>5 DEF Empty
<1> DEFINE m == IF n > 0 /\ Pending(tx)[n] = Empty THEN n - 1 ELSE n
<1>7. Waiting = [k \in 1..m |-> Pending(tx)[k]]
  BY DEF Waiting, n
<1>8. m = pushed - t /\ m \in Nat /\ t \in Int /\ m <= n
  BY <1>1, <1>3, <1>4, <1>6
<1>9. \A k \in 1..m : Pending(tx)[k] = t + k
  <2> SUFFICES ASSUME NEW k \in 1..m PROVE Pending(tx)[k] = t + k
    OBVIOUS
  <2> HIDE DEF m
  <2>1. k \in 1..n /\ t + k <= NumFrames
    BY <1>1, <1>4, <1>8
  <2>2. t = Taken
    BY <1>4, <1>8, <2>1
  <2> QED
    BY <1>2, <2>1, <2>2
<1> HIDE DEF m
<1>10. Waiting = Run(t, m)
  BY <1>7, <1>9 DEF Run
<1> QED
  BY <1>8, <1>10

\* The frame in the filler's hands is the next one to arrive, if it has not.
LEMMA UnderwayIs ==
    ASSUME IInv, SenderRuns
    PROVE  LET t == IF Taken <= NumFrames THEN Taken ELSE NumFrames IN
           /\ Underway = Run(Stored, t - Stored) /\ Stored \in Int /\ t - Stored \in {0, 1}
           /\ t - Stored = 1 => InHands(tx)
<1> DEFINE t == IF Taken <= NumFrames THEN Taken ELSE NumFrames
<1>1. Taken \in Int /\ Stored \in Int /\ NumFrames \in Nat
  BY Typed DEF Taken, Stored, Marked
<1>2. Stored \in Nat
  BY Typed DEF Stored
<1>3. Underway = IF InHands(tx) /\ Content(tx) > Stored THEN <<Content(tx)>> ELSE <<>>
  BY DEF Underway, Stored
<1>4. \/ InHands(tx) /\ Content(tx) = Taken /\ Taken \in 1..NumFrames
         /\ (Stored = Taken - 1 \/ Stored = Taken)
      \/ InHands(tx) /\ Content(tx) = Empty /\ Taken = NumFrames + 1 /\ Stored = NumFrames
      \/ ~InHands(tx) /\ Stored = Taken /\ Taken <= NumFrames
  BY <1>1, Places DEF IInv, SenderSide, Counts, SenderRuns, Answered
<1>5. Run(Stored, 0) = <<>> /\ Run(Stored, 1) = <<Stored + 1>>
  BY <1>1, RunShort
<1>6. CASE InHands(tx) /\ Content(tx) = Taken /\ Taken \in 1..NumFrames
           /\ (Stored = Taken - 1 \/ Stored = Taken)
  <2>1. CASE Stored = Taken - 1
    <3>1. t = Taken /\ t - Stored = 1 /\ Content(tx) > Stored /\ Content(tx) = Stored + 1
      BY <1>1, <1>6, <2>1
    <3> QED
      BY <1>1, <1>3, <1>5, <1>6, <3>1
  <2>2. CASE Stored = Taken
    <3>1. t = Taken /\ t - Stored = 0 /\ ~(Content(tx) > Stored)
      BY <1>1, <1>6, <2>2
    <3> QED
      BY <1>1, <1>3, <1>5, <3>1
  <2> QED
    BY <1>6, <2>1, <2>2
<1>7. CASE InHands(tx) /\ Content(tx) = Empty /\ Taken = NumFrames + 1 /\ Stored = NumFrames
  <2>1. t - Stored = 0 /\ ~(Content(tx) > Stored)
    BY <1>1, <1>2, <1>7 DEF Empty
  <2> QED
    BY <1>1, <1>3, <1>5, <2>1
<1>8. CASE ~InHands(tx) /\ Stored = Taken /\ Taken <= NumFrames
  <2>1. t - Stored = 0
    BY <1>1, <1>8
  <2> QED
    BY <1>1, <1>3, <1>5, <1>8, <2>1
<1> QED
  BY <1>4, <1>6, <1>7, <1>8

\* What is to arrive is behind what has arrived.
LEMMA NewestIs == IInv => Newest \in Int /\ Stored \in Int /\ Newest - Stored \in Nat
<1> SUFFICES ASSUME IInv PROVE Newest \in Int /\ Stored \in Int /\ Newest - Stored \in Nat
  OBVIOUS
<1> DEFINE t == IF Taken <= NumFrames THEN Taken ELSE NumFrames
<1>1. pushed \in Int /\ Stored \in Int
  BY Typed DEF Stored
<1>2. SenderRuns => t \in Int /\ pushed - t \in Nat /\ t - Stored \in {0, 1}
  BY WaitingIs, UnderwayIs
<1> HIDE DEF t
<1>3. SenderRuns => pushed - Stored \in Nat
  BY ONLY <1>1, <1>2
<1> QED
  BY <1>1, <1>3 DEF Newest

\* The queue is the run of frames between the two.
LEMMA QueueIs ==
    ASSUME IInv
    PROVE  /\ Queue = Run(Before, Newest - Before)
           /\ Before \in Int /\ Newest - Before \in Nat
<1>1. fetched \in Int /\ Stored \in Int /\ rx.fullSem \in Nat
      /\ Stored = fetched + rx.fullSem
  BY Typed DEF Stored
<1>2. Arrived = Run(Before, Stored - Before) /\ Before \in Int /\ Stored - Before \in Nat
  <2>1. CASE ReceiverRuns
    <3>1. \A k \in 1..rx.fullSem : Pending(rx)[k] = fetched + k
      BY <2>1 DEF IInv, ReceiverSide
    <3>2. Arrived = [k \in 1..rx.fullSem |-> Pending(rx)[k]]
      BY <2>1 DEF Arrived, Pending, ReceiverRuns
    <3>3. Arrived = Run(fetched, rx.fullSem)
      BY <3>1, <3>2 DEF Run
    <3>4. Before = fetched /\ Stored - Before = rx.fullSem
      BY <1>1, <2>1 DEF Before
    <3> QED
      BY <1>1, <3>3, <3>4
  <2>2. CASE ~ReceiverRuns
    <3>1. Arrived = <<>> /\ Before = Stored /\ Stored - Before = 0
      BY <1>1, <2>2 DEF Arrived, Before, ReceiverRuns
    <3>2. Run(Before, Stored - Before) = Run(Stored, 0) /\ Stored - Before \in Nat
          /\ Before \in Int
      BY <1>1, <3>1
    <3>3. Run(Stored, 0) = <<>>
      BY <1>1, RunShort
    <3> QED
      BY <3>1, <3>2, <3>3
  <2> QED
    BY <2>1, <2>2
<1>3. ToArrive = Run(Stored, Newest - Stored) /\ Newest - Stored \in Nat /\ Newest \in Int
  <2>1. CASE SenderRuns
    <3> DEFINE t == IF Taken <= NumFrames THEN Taken ELSE NumFrames
    <3>1. Waiting = Run(t, pushed - t) /\ t \in Int /\ pushed - t \in Nat
      BY <2>1, WaitingIs
    <3>2. Underway = Run(Stored, t - Stored) /\ t - Stored \in Nat
      BY <2>1, UnderwayIs
    <3>3. ToArrive = Underway \o Waiting /\ Newest = pushed /\ pushed \in Int
      BY <2>1, Typed DEF ToArrive, SenderRuns, Newest
    <3> HIDE DEF t
    <3>4. Stored + (t - Stored) = t /\ (t - Stored) + (pushed - t) = pushed - Stored
          /\ pushed - Stored \in Nat
      <4>1. Stored \in Int /\ t \in Int /\ pushed \in Int /\ pushed - t >= 0
            /\ t - Stored >= 0
        BY <1>1, <3>1, <3>2, <3>3
      <4> QED
        BY ONLY <4>1
    <3>5. Run(Stored, t - Stored) \o Run(Stored + (t - Stored), pushed - t)
            = Run(Stored, (t - Stored) + (pushed - t))
      BY <1>1, <3>1, <3>2, RunJoins
    <3> QED
      BY <3>1, <3>2, <3>3, <3>4, <3>5
  <2>2. CASE ~SenderRuns /\ Received("data")
    <3>1. ReceiverRuns
      BY <2>2 DEF IInv, Emptied, Received
    <3>2. Head(toPump).frame = Stored + 1
      BY <2>2, <3>1 DEF IInv, ReceiverSide
    <3>3. ToArrive = <<Stored + 1>> /\ Newest - Stored = 1 /\ Newest \in Int
      BY <1>1, <2>2, <3>2 DEF ToArrive, SenderRuns, Newest
    <3>4. Run(Stored, Newest - Stored) = Run(Stored, 1) /\ Newest - Stored \in Nat
      BY <3>3
    <3>5. Run(Stored, 1) = <<Stored + 1>>
      BY <1>1, RunShort
    <3> QED
      BY <3>3, <3>4, <3>5
  <2>3. CASE ~SenderRuns /\ ~Received("data")
    <3>1. ToArrive = <<>> /\ Newest - Stored = 0 /\ Newest \in Int
      BY <1>1, <2>3 DEF ToArrive, SenderRuns, Newest
    <3>2. Run(Stored, Newest - Stored) = Run(Stored, 0) /\ Newest - Stored \in Nat
      BY <3>1
    <3>3. Run(Stored, 0) = <<>>
      BY <1>1, RunShort
    <3> QED
      BY <3>1, <3>2, <3>3
  <2> QED
    BY <2>1, <2>2, <2>3
<1>4. /\ Before + (Stored - Before) = Stored /\ Newest - Before \in Nat
      /\ (Stored - Before) + (Newest - Stored) = Newest - Before
  BY <1>1, <1>2, <1>3
<1>5. Run(Before, Stored - Before) \o Run(Before + (Stored - Before), Newest - Stored)
        = Run(Before, (Stored - Before) + (Newest - Stored))
  BY <1>2, <1>3, RunJoins
<1> QED
  BY <1>2, <1>3, <1>4, <1>5 DEF Queue

\* What the consumer refers to is the last frame it has fetched.
LEMMA HeldIs == IInv /\ ReceiverRuns => Held = fetched
<1> SUFFICES ASSUME IInv, ReceiverRuns PROVE Held = fetched
  OBVIOUS
<1>1. (consumer = "deserialize") <=> InHands(rx)
  BY DEF IInv, ReceiverSide
<1>2. IF consumer = "deserialize" THEN Content(rx) = fetched ELSE seen = fetched
  BY DEF IInv, ReceiverSide
<1> QED
  BY <1>1, <1>2 DEF Held

\* The queue and what the consumer refers to, in terms of the counters.
Shape ==
    /\ Queue = Run(Before, Newest - Before)
    /\ Before \in Int /\ Newest - Before \in Nat
    /\ Newest \in Int /\ Stored \in Int /\ Newest - Stored \in Nat
    /\ ReceiverRuns => Held = fetched

\* They are so before a step ...
LEMMA ShapeIs == IInv => Shape
BY QueueIs, NewestIs, HeldIs DEF Shape

\* ... and after it.
LEMMA ShapeStays == IInv' => Shape'
BY ShapeIs, PTL

\* What the rings hold and what is in the filler's hands fits into the queue.
LEMMA RoomLeft == IInv /\ EndPush => pushed - Before < TxBuffers + RxBuffers
<1> SUFFICES ASSUME IInv, EndPush PROVE pushed - Before < TxBuffers + RxBuffers
  OBVIOUS
<1> DEFINE t == IF Taken <= NumFrames THEN Taken ELSE NumFrames
<1>1. SenderRuns /\ Marked = 0 /\ tx.currentEmpty # NoBuffer
  BY DEF EndPush, IInv, SenderSide, Marked
<1>2. /\ TxBuffers \in Nat \ {0} /\ RxBuffers \in Nat \ {0} /\ NumFrames \in Nat
      /\ tx \in LinkBuffers(TxBuffers, Contents) /\ RingOK(tx)
      /\ rx \in LinkBuffers(RxBuffers, Contents) /\ RingOK(rx)
      /\ pushed \in 0..NumFrames /\ fetched \in 0..NumFrames
  BY Typed
<1>3. /\ tx.fullSem \in Nat /\ tx.emptySem \in Nat /\ Current(tx) = 1
      /\ tx.emptySem + tx.fullSem + 1 <= TxBuffers
      /\ InHands(tx) <=> tx.emptySem + tx.fullSem + 1 = TxBuffers - 1
  <2>1. Current(tx) = 1
    BY <1>1 DEF Current
  <2>2. /\ tx.fullSem \in 0..TxBuffers /\ tx.emptySem \in 0..TxBuffers
        /\ tx.emptySem + tx.fullSem + Current(tx) <= TxBuffers
        /\ InHands(tx) <=> tx.emptySem + tx.fullSem + Current(tx) = TxBuffers - 1
    BY <1>2, RingFields
  <2> QED
    BY ONLY <1>2, <2>1, <2>2
<1>4. rx.fullSem \in 0..RxBuffers
  BY <1>2, RingFields
<1>5. Taken = pushed - tx.fullSem /\ Taken \in Int
  BY <1>1, <1>2, <1>3 DEF Taken
<1>6. t - Stored \in {0, 1} /\ (t - Stored = 1 => InHands(tx))
  BY <1>1, UnderwayIs
<1>7. Stored = fetched + rx.fullSem /\ Before \in {fetched, Stored}
  BY DEF Stored, Before
<1>8. t = Taken
  BY <1>2, <1>3, <1>5
<1> HIDE DEF t
<1>9. t - Stored + tx.fullSem < TxBuffers
  BY ONLY <1>2, <1>3, <1>6
<1> QED
  BY ONLY <1>2, <1>3, <1>4, <1>5, <1>7, <1>8, <1>9

\* The queue stays as it is.
Kept == UNCHANGED <<Before, Newest, pushed, Held>>

\* What the sender does besides push does not change the queue.
LEMMA SenderKeeps == IInv /\ (BeginPush \/ SendEnd \/ Close \/ Filler) => Kept
<1> SUFFICES ASSUME IInv, BeginPush \/ SendEnd \/ Close \/ Filler PROVE Kept
  OBVIOUS
<1>1. SenderRuns \/ (filler = "killed" /\ producer = "killed")
  <2> SUFFICES ASSUME ~SenderRuns PROVE filler = "killed" /\ producer = "killed"
    OBVIOUS
  <2>1. SenderSide
    BY DEF IInv
  <2> QED
    BY <2>1 DEF SenderSide
<1>2. UNCHANGED <<rx, fetched, seen, pushed, killed>>
      /\ (filler # "killed" \/ producer # "killed")
  BY DEF BeginPush, SendEnd, Close, Filler, Connect, ConnectFails, SendTypeName, HandshakeDone,
         SendDataHeader, ReadEnd, SendData, FrameAccepted, Rejected, FillerEOF, Accepted, counters
<1>3. UNCHANGED <<Stored, SenderRuns, ReceiverRuns, Held>> /\ SenderRuns
  BY <1>1, <1>2 DEF Stored, SenderRuns, ReceiverRuns, Held
<1> QED
  BY <1>2, <1>3 DEF Kept, Before, Newest

\* What the receiver does besides fetch does not change it either.
LEMMA ReceiverKeeps ==
    /\ IInv /\ IInv'
    /\ \/ Assign \/ CheckFixedLen \/ CheckTypeName \/ PumpGetEmpty \/ ReadDataHeader
       \/ ReadData \/ PumpEOF \/ Attach \/ EndFetch
    => Kept
<1> SUFFICES ASSUME IInv, IInv',
                    \/ Assign \/ CheckFixedLen \/ CheckTypeName \/ PumpGetEmpty \/ ReadDataHeader
                    \/ ReadData \/ PumpEOF \/ Attach \/ EndFetch
             PROVE  Kept
  OBVIOUS
<1>1. ReceiverRuns \/ (pump = "killed" /\ consumer = "killed")
  <2> SUFFICES ASSUME ~ReceiverRuns PROVE pump = "killed" /\ consumer = "killed"
    OBVIOUS
  <2>1. ReceiverSide
    BY DEF IInv
  <2> QED
    BY <2>1 DEF ReceiverSide
<1>2. ReceiverRuns /\ UNCHANGED <<pushed, fetched, killed>>
  BY <1>1
  DEF Assign, CheckFixedLen, CheckTypeName, PumpGetEmpty, ReadDataHeader, ReadData,
    PumpEOF, Attach,
      EndFetch, counters, ReceiverRuns
<1>3. UNCHANGED <<SenderRuns, ReceiverRuns>>
  BY <1>2 DEF SenderRuns, ReceiverRuns
<1>4. UNCHANGED <<Before, Held>>
  BY <1>2, <1>3, ShapeIs, ShapeStays DEF Shape, Before
<1>5. UNCHANGED Newest
  <2>1. CASE ReadData
    <3>1. Received("data") /\ toPump' = <<>>
      BY <2>1, Wire DEF ReadData, Received
    <3>2. rx'.fullSem = rx.fullSem + 1 /\ rx.fullSem \in Nat /\ fetched \in Nat
      BY <2>1, Typed, ReadDataRing DEF OneMore
    <3>3. Stored' = Stored + 1
      BY <1>2, <3>2 DEF Stored
    <3>4. ~Received("data")'
      BY <3>1 DEF Received
    <3> QED
      BY <1>2, <1>3, <3>1, <3>3, <3>4 DEF Newest
  <2>2. CASE ~ReadData
    <3>1. rx'.fullSem = rx.fullSem
      <4>1. CASE PumpGetEmpty
        BY <4>1, PumpGetEmptyRing DEF SameFrames
      <4>2. CASE ReadDataHeader
        BY <4>2, ReadDataHeaderRing DEF SameFrames
      <4>3. CASE EndFetch
        BY <4>3, EndFetchRing DEF SameFrames
      <4>4. CASE UNCHANGED rx
        BY <4>4
      <4> QED
        BY <2>2, <4>1, <4>2, <4>3, <4>4
        DEF Assign, CheckFixedLen, CheckTypeName, PumpEOF, Attach
    <3>2. toPump' = toPump \/ (toPump' = <<>> /\ ~Received("data"))
      <4>1. CASE Assign \/ CheckTypeName \/ ReadDataHeader
        BY <4>1, Wire DEF Assign, CheckTypeName, ReadDataHeader, Received
      <4>2. CASE CheckFixedLen \/ PumpGetEmpty \/ PumpEOF \/ Attach \/ EndFetch
        BY <4>2 DEF CheckFixedLen, PumpGetEmpty, PumpEOF, Attach, EndFetch, network
      <4> QED
        BY <2>2, <4>1, <4>2
    <3>3. Received("data")' = Received("data")
      BY <3>2 DEF Received
    <3>4. Stored' = Stored
      BY <1>2, <3>1 DEF Stored
    <3> QED
      BY <1>2, <1>3, <3>3, <3>4 DEF Newest
  <2> QED
    BY <2>1, <2>2
<1> QED
  BY <1>2, <1>4, <1>5 DEF Kept

\* push is the queue's.
LEMMA PushIsPush == IInv /\ IInv' /\ EndPush => BQ!Push
<1> SUFFICES ASSUME IInv, IInv', EndPush PROVE BQ!Push
  OBVIOUS
<1>1. SenderRuns /\ UNCHANGED <<killed, rx, fetched, seen, toPump>> /\ pushed' = pushed + 1
  BY DEF EndPush, IInv, SenderSide, network
<1>2. SenderRuns' /\ UNCHANGED <<Before, Held>>
  BY <1>1 DEF SenderRuns, ReceiverRuns, Stored, Before, Held
<1>3. Newest = pushed /\ Newest' = pushed + 1 /\ pushed \in Int
  BY <1>1, <1>2, Typed DEF Newest
<1>4. Queue = Run(Before, pushed - Before) /\ Before \in Int /\ pushed - Before \in Nat
  BY <1>3, ShapeIs DEF Shape
<1>5. Queue' = Run(Before, pushed + 1 - Before)
  BY <1>2, <1>3, ShapeStays DEF Shape
<1> DEFINE n == pushed - Before
<1>6. n \in Nat /\ pushed + 1 - Before = n + 1 /\ Before + n + 1 = pushed + 1
  BY <1>3, <1>4
<1> HIDE DEF n
<1>7. Len(Run(Before, n)) = n /\ Append(Run(Before, n), Before + n + 1) = Run(Before, n + 1)
  BY <1>4, <1>6, RunMoves
<1>8. Len(Queue) = n /\ Queue' = Append(Queue, pushed + 1)
  BY <1>4, <1>5, <1>6, <1>7 DEF n
<1>9. Len(Queue) < TxBuffers + RxBuffers
  BY <1>8, RoomLeft DEF n
<1>10. pushed < NumFrames
  BY <1>1 DEF EndPush, IInv, SenderSide
<1> QED
  BY <1>1, <1>2, <1>8, <1>9, <1>10 DEF BQ!Push

\* fetch is the queue's.
LEMMA FetchIsFetch == IInv /\ IInv' /\ BeginFetch => BQ!Fetch
<1> SUFFICES ASSUME IInv, IInv', BeginFetch PROVE BQ!Fetch
  OBVIOUS
<1>1. ReceiverRuns /\ UNCHANGED <<killed, pushed, toPump>> /\ fetched' = fetched + 1
  BY DEF BeginFetch, IInv, ReceiverSide, network
<1>2. rx'.fullSem = rx.fullSem - 1 /\ rx.fullSem > 0 /\ rx.fullSem \in Nat
      /\ fetched \in Int
  BY Typed, BeginFetchRing DEF OneLess
<1>3. Stored' = Stored /\ Stored \in Int /\ Stored - fetched > 0
  BY <1>1, <1>2 DEF Stored
<1>4. ReceiverRuns' /\ Before = fetched /\ Before' = fetched + 1 /\ Newest' = Newest
  BY <1>1, <1>3 DEF SenderRuns, ReceiverRuns, Before, Newest, Received
<1>5. Held = fetched /\ Held' = fetched + 1
  BY <1>1, <1>4, ShapeIs, ShapeStays DEF Shape
<1>6. Newest - Stored \in Nat /\ Newest \in Int
  BY <1>3, ShapeIs DEF Shape
<1> DEFINE n == Newest - fetched
<1>7. n \in Nat /\ n > 0 /\ Newest - (fetched + 1) = n - 1
  BY <1>2, <1>3, <1>6
<1>8. Queue = Run(fetched, n) /\ Queue' = Run(fetched + 1, n - 1)
  BY <1>4, <1>7, ShapeIs, ShapeStays DEF Shape
<1> HIDE DEF n
<1>9. /\ Run(fetched, n) # <<>> /\ Head(Run(fetched, n)) = fetched + 1
      /\ Tail(Run(fetched, n)) = Run(fetched + 1, n - 1)
  BY <1>2, <1>7, RunMoves
<1> QED
  BY <1>1, <1>5, <1>8, <1>9 DEF BQ!Fetch

\* What a killed process takes with it is at an end of the queue.
LEMMA KillLoses ==
    IInv /\ IInv' /\ (KillSender \/ KillReceiver \/ PumpSigpipe) =>
        Loses /\ UNCHANGED pushed
<1> SUFFICES ASSUME IInv, IInv', KillSender \/ KillReceiver \/ PumpSigpipe
             PROVE  Loses /\ UNCHANGED pushed
  OBVIOUS
<1>1. killed' # killed /\ UNCHANGED <<rx, fetched, seen, pushed>>
  BY Places DEF KillSender, KillReceiver, PumpSigpipe, counters
<1>2. UNCHANGED <<Held, Stored>>
  BY <1>1 DEF Held, Stored
<1>3. /\ Queue = Run(Before, Newest - Before) /\ Before \in Int /\ Newest \in Int
      /\ Newest - Before \in Nat
  BY ShapeIs DEF Shape
<1>4. PICK c \in Int, l \in Int :
          Before' = c /\ Newest' = l /\ Queue' = Run(c, l - c) /\ l - c \in Nat
  BY ShapeStays DEF Shape
<1>5. Before <= c /\ l <= Newest
  <2>1. /\ fetched \in Int /\ Stored \in Int /\ fetched <= Stored
    BY Typed DEF Stored
  <2>2. /\ Newest \in Int /\ Stored <= Newest
        /\ Newest' \in Int /\ Stored' <= Newest'
    BY <1>2, <2>1, ShapeIs, ShapeStays DEF Shape
  <2>3. CASE KillSender
    <3>1. SenderRuns /\ ReceiverRuns /\ ~SenderRuns' /\ ReceiverRuns'
          /\ toPump' \in {toPump, <<>>}
      BY <2>3 DEF KillSender, SenderRuns, ReceiverRuns
    <3>2. Before' = Before
      BY <1>1, <3>1 DEF Before
    <3>3. Received("data") => Stored < pushed
      <4> SUFFICES ASSUME Received("data") PROVE Stored < pushed
        OBVIOUS
      <4>1. filler = "data" /\ toPump # <<>>
        BY <3>1, Places, Awaits DEF Received, IInv, Lockstep, SenderRuns, ReceiverRuns
      <4>2. Stored = Taken - 1 /\ Taken \in 1..NumFrames
        BY <3>1, <4>1 DEF IInv, Turns, SenderSide
      <4>3. pushed - Taken \in Nat
        BY <3>1, <4>2, WaitingIs
      <4> QED
        BY <1>1, <2>1, <4>2, <4>3, Typed
    <3>4. Newest = pushed /\ Newest' \in {Stored, Stored + 1} /\ (Newest' = Stored + 1 => Received("data"))
      BY <1>2, <2>1, <3>1 DEF Newest, Received
    <3> QED
      BY <1>4, <2>1, <2>2, <3>2, <3>3, <3>4, <1>3
  <2>4. CASE KillReceiver
    <3>1. SenderRuns /\ ReceiverRuns /\ SenderRuns' /\ ~ReceiverRuns'
      BY <2>4 DEF KillReceiver, SenderRuns, ReceiverRuns
    <3>2. Before = fetched /\ Before' = Stored /\ Newest' = Newest
      BY <1>1, <1>2, <3>1 DEF Before, Newest
    <3> QED
      BY <1>4, <2>1, <2>2, <3>2
  <2>5. CASE PumpSigpipe
    <3>1. ~SenderRuns /\ ~SenderRuns' /\ ~ReceiverRuns' /\ UNCHANGED toPump
      BY <2>5 DEF PumpSigpipe, SenderRuns, ReceiverRuns, network
    <3>2. Before \in {fetched, Stored} /\ Before' = Stored /\ Newest' = Newest
      BY <1>2, <3>1 DEF Before, Newest, Received
    <3> QED
      BY <1>4, <2>1, <2>2, <3>2
  <2> QED
    BY <2>3, <2>4, <2>5
<1>6. Before <= c /\ c <= l /\ l <= Newest
  BY <1>3, <1>4, <1>5
<1>7. \E i \in 1..(Len(Queue) + 1), j \in 0..Len(Queue) : Run(c, l - c) = SubSeq(Queue, i, j)
  <2>1. LET s == Run(Before, Newest - Before) IN
        \E i \in 1..(Len(s) + 1), j \in 0..Len(s) : Run(c, l - c) = SubSeq(s, i, j)
    BY <1>3, <1>6, RunCut, ZenonT(30)
  <2> QED
    BY <1>3, <2>1
<1> QED
  BY <1>1, <1>2, <1>4, <1>7 DEF Loses

\* End to end, rings, threads and connection are one queue of TxBuffers plus
\* RxBuffers frames, from which only a killed process takes frames away.
THEOREM RefinesBoundedQueue == Spec => ImplementsQueue
<1>1. Init => BQ!Init
  <2> SUFFICES ASSUME Init PROVE BQ!Init
    OBVIOUS
  <2>1. IInv
    BY InitIInv
  <2>2. fetched = 0 /\ pushed = 0 /\ SenderRuns /\ ReceiverRuns
    BY DEF Init, SenderRuns, ReceiverRuns
  <2>3. Before = 0 /\ Newest = 0 /\ Newest - Before = 0
    BY <2>2 DEF Before, Newest
  <2>4. Queue = Run(0, 0)
    BY <2>1, <2>3, ShapeIs DEF Shape
  <2>5. Held = 0
    BY <2>1, <2>2, ShapeIs DEF Shape
  <2> QED
    BY <2>2, <2>4, <2>5, RunShort DEF BQ!Init
<1>2. IInv /\ IInv' /\ [Next]_vars => [BQ!Next \/ Loses]_(BQ!vars)
  <2> SUFFICES ASSUME IInv, IInv', [Next]_vars
               PROVE  BQ!Next \/ Loses \/ UNCHANGED BQ!vars
    OBVIOUS
  <2>1. ASSUME Kept PROVE UNCHANGED BQ!vars
    <3>1. Queue' = Queue
      BY <2>1, ShapeIs, ShapeStays DEF Shape, Kept
    <3> QED
      BY <2>1, <3>1 DEF Kept, BQ!vars
  <2>2. CASE EndPush
    BY <2>2, PushIsPush DEF BQ!Next
  <2>3. CASE BeginFetch
    BY <2>3, FetchIsFetch DEF BQ!Next
  <2>4. CASE KillSender \/ KillReceiver \/ PumpSigpipe
    BY <2>4, KillLoses
  <2>5. CASE BeginPush \/ SendEnd \/ Close \/ Filler
    BY <2>1, <2>5, SenderKeeps
  <2>6. CASE \/ Assign \/ CheckFixedLen \/ CheckTypeName \/ PumpGetEmpty \/ ReadDataHeader
             \/ ReadData \/ PumpEOF \/ Attach \/ EndFetch
    BY <2>1, <2>6, ReceiverKeeps
  <2>7. CASE UNCHANGED vars
    BY <2>1, <2>7
    DEF Kept, Before, Newest, Held, Stored, SenderRuns, ReceiverRuns, Received, vars,
      network, counters
  <2> QED
    BY <2>2, <2>3, <2>4, <2>5, <2>6, <2>7 DEF Next, Producer, Pump, Consumer
<1> QED
  BY <1>1, <1>2, Invariant, PTL DEF Spec, ImplementsQueue
=============================================================================
