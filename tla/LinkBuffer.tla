----------------------------- MODULE LinkBuffer -----------------------------
(***************************************************************************)
(* glstreamer::LinkBuffer, the ring of byte vectors between a thread that  *)
(* fills buffers (getEmpty, putFull) and one that drains them (getFull,    *)
(* putEmpty).  Both ends of a socket link have one.  A buffer is a record; *)
(* the operators return the buffer after the call, and the Can... ones say *)
(* when the call does not block on its semaphore.                          *)
(***************************************************************************)
EXTENDS Integers

\* currentEmpty == nullptr
NoBuffer == -1

New(count, content) ==
    [buffers |-> [i \in 0..(count - 1) |-> content],
     emptySem |-> count, fullSem |-> 0,
     readBuffer |-> 0, writeBuffer |-> 0,
     currentEmpty |-> NoBuffer,
     bufferCount |-> count]

\* The type of a LinkBuffer of count buffers with contents in S.
LinkBuffers(count, S) ==
    [buffers : [0..(count - 1) -> S],
     emptySem : 0..count, fullSem : 0..count,
     readBuffer : 0..(count - 1), writeBuffer : 0..(count - 1),
     currentEmpty : {NoBuffer} \cup (0..(count - 1)),
     bufferCount : {count}]

\* getEmpty returns the buffer it has returned before until putFull is called.
CanGetEmpty(lb) == lb.currentEmpty # NoBuffer \/ lb.emptySem > 0

GetEmpty(lb) ==
    IF lb.currentEmpty # NoBuffer THEN lb
    ELSE [lb EXCEPT !.emptySem = @ - 1,
                    !.currentEmpty = lb.writeBuffer,
                    !.writeBuffer = (@ + 1) % lb.bufferCount]

\* Writing through the reference getEmpty has returned.
Write(lb, content) == [lb EXCEPT !.buffers[lb.currentEmpty] = content]

PutFull(lb) ==
    IF lb.currentEmpty = NoBuffer THEN lb
    ELSE [lb EXCEPT !.currentEmpty = NoBuffer, !.fullSem = @ + 1]

CanGetFull(lb) == lb.fullSem > 0

\* (fault) getFull does not move on.
GetFullStuck(lb) == [lb EXCEPT !.fullSem = @ - 1]

GetFull(lb) ==
    [lb EXCEPT !.fullSem = @ - 1,
               !.readBuffer = (@ + 1) % lb.bufferCount]

\* The buffer getFull has returned last, and its contents.
LastFull(lb) == (lb.readBuffer + lb.bufferCount - 1) % lb.bufferCount

Content(lb) == lb.buffers[LastFull(lb)]

\* (fault) A buffer is given back twice, or not at all.
PutEmptyTwice(lb) == [lb EXCEPT !.emptySem = @ + 2]

PutEmptyNothing(lb) == lb

PutEmpty(lb) == [lb EXCEPT !.emptySem = @ + 1]

\* The contents of the full buffers nobody has taken yet, oldest first.
Pending(lb) ==
    [k \in 1..lb.fullSem |->
        lb.buffers[(lb.readBuffer + k - 1) % lb.bufferCount]]
=============================================================================
