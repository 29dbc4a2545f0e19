-------------------------- MODULE ShmStreamProofs --------------------------
(***************************************************************************)
(* Proofs about ShmStream, for every page size, initial size and length of *)
(* a frame.  The invariants relate the sizes that no single place of the   *)
(* code holds together: the length word, the stream's capacity, the size   *)
(* of the object and what is mapped.                                       *)
(***************************************************************************)
EXTENDS ShmStream, TLAPS

USE DEF HeaderSize, Unmapped

----------------------------------------------------------------------------
(* Arithmetic of pages. *)

\* Whole pages cover at least what they are counted for, and at least one
\* page if that is anything.
LEMMA PagesCover ==
  ASSUME NEW n \in Nat
  PROVE  /\ Pages(n) \in Int
         /\ n <= Pages(n)
         /\ n > 0 => PageSize <= Pages(n)
<1>1. PageSize \in Nat \ {0}
  BY ShmStreamAssumption
<1> DEFINE q == (n + PageSize - 1) \div PageSize
<1>2. q \in Int /\ q * PageSize > n - 1
  BY <1>1, SMTT(30)
<1>3. n > 0 => q >= 1
  BY <1>1, SMTT(30)
<1> HIDE DEF q
<1>4. q * PageSize \in Int
  BY <1>1, <1>2
<1>5. q >= 1 => q * PageSize >= PageSize
  BY <1>1, <1>2, SMTT(30)
<1>6. Pages(n) = q * PageSize
  BY DEF Pages, q
<1> QED
  BY <1>1, <1>2, <1>3, <1>4, <1>5, <1>6

----------------------------------------------------------------------------
(* The inductive invariant. *)

\* One buffer is in one process's hands at a time.
HandsApart == reader # "idle" => writer = "idle"

\* Once the first frame has been opened, the stream has a capacity to double,
\* and between the steps of enlarging, object and mapping hold just that.
SizesTogether ==
    /\ frames = 0 => writer = "idle" /\ reader = "idle"
    /\ frames > 0 => capacity > 0
    /\ frames > 0 /\ writer \in {"idle", "write", "push"} => objectSize = HeaderSize + capacity
    /\ writer \in {"write", "push"} => writerMapped = objectSize

\* The length word tells what has been written; it never exceeds the capacity,
\* and a reservation goes on until the next piece fits as well.
PieceFits ==
    /\ size = written
    /\ size <= capacity
    /\ writer \in {"reserve", "expand", "push"} => written + request <= MaxFrame
    /\ writer \in {"expand", "push"} => size + request <= capacity

\* A process that reads has mapped something.
ReaderState ==
    /\ objectSize > 0
    /\ reader \in {"read", "segv"} => readerMapped > 0

\* What is shown to be inductive.
IInv ==
    /\ TypeOK
    /\ HandsApart
    /\ SizesTogether
    /\ PieceFits
    /\ ReaderState
    /\ FaultsOnlyByGrowth

\* The link as openResources leaves it satisfies the invariant.
LEMMA InitIInv == Init => IInv
BY ShmStreamAssumption
DEF Init, IInv, TypeOK, HandsApart, SizesTogether, PieceFits, ReaderState, FaultsOnlyByGrowth

\* Every step of either process keeps it.
LEMMA NextIInv == IInv /\ [Next]_vars => IInv'
<1> SUFFICES ASSUME IInv, [Next]_vars PROVE IInv'
  OBVIOUS
<1> USE ShmStreamAssumption
<1> USE DEF IInv, TypeOK, HandsApart, SizesTogether, PieceFits, ReaderState,
            FaultsOnlyByGrowth, object, istream
<1>1. CASE OpenO
  BY <1>1 DEF OpenO, Resize
<1>2. ASSUME NEW n \in 1..(MaxFrame - written), Require(n) PROVE IInv'
  BY <1>2 DEF Require
<1>3. CASE Double
  BY <1>3 DEF Double
<1>4. CASE Expand
  BY <1>4 DEF Expand, Resize
<1>5. CASE Push
  BY <1>5 DEF Push
<1>6. CASE CloseO
  BY <1>6 DEF CloseO
<1>7. CASE OpenI
  BY <1>7 DEF OpenI, ostream
<1>8. ASSUME NEW n \in 1..(written - pos), Read(n) PROVE IInv'
  <2>1. /\ pos \in 0..MaxFrame /\ n \in Nat \ {0} /\ written \in 0..MaxFrame
        /\ pos + n <= written
    BY <1>8
  <2>2. reader' = Outcome(n) /\ pos' = (IF reader' = "read" THEN pos + n ELSE pos)
    BY <1>8 DEF Read
  <2>3. reader = "read" /\ UNCHANGED <<object, ostream, readerMapped>>
    BY <1>8 DEF Read
  <2>4. writer = "idle" /\ frames > 0 /\ objectSize = HeaderSize + capacity
    BY <2>3
  <2>5. InObject(HeaderSize + pos + n)
    <3>1. objectSize \in Nat /\ HeaderSize + pos + n <= objectSize
      BY <2>1, <2>4
    <3>2. objectSize <= Pages(objectSize) /\ Pages(objectSize) \in Int
      BY <3>1, PagesCover
    <3> QED
      BY <2>1, <3>1, <3>2 DEF InObject
  <2>6. ~Within(readerMapped, HeaderSize + pos + n) => HeaderSize + written > PageSize
    <3>1. readerMapped \in Nat /\ readerMapped > 0
      BY <2>3
    <3>2. PageSize <= Pages(readerMapped) /\ Pages(readerMapped) \in Int
      BY <3>1, PagesCover
    <3> QED
      BY <2>1, <3>2 DEF Within
  <2>7. /\ reader' \in {"thrown", "segv", "read"}
        /\ reader' = "segv" => HeaderSize + written > PageSize
    BY <2>2, <2>5, <2>6 DEF Outcome
  <2> QED
    BY <2>1, <2>2, <2>3, <2>4, <2>7 DEF ostream
<1>9. CASE CloseI
  BY <1>9 DEF CloseI, ostream
<1>10. CASE UNCHANGED vars
  BY <1>10 DEF vars, ostream
<1> QED
  BY <1>1, <1>2, <1>3, <1>4, <1>5, <1>6, <1>7, <1>8, <1>9, <1>10
  DEF Next, Write, Deserialize

\* The invariant holds throughout.
THEOREM Invariance == Spec => []IInv
<1>1. Init => IInv
  BY InitIInv
<1>2. IInv /\ [Next]_vars => IInv'
  BY NextIInv
<1> QED
  BY <1>1, <1>2, PTL DEF Spec

----------------------------------------------------------------------------
(* The theorems. *)

\* No count of ProcessLink's streams leaves its range: neither the length word
\* nor the reading position exceeds the frame.
THEOREM TypeCorrect == Spec => []TypeOK
<1>1. IInv => TypeOK
  BY DEF IInv
<1> QED
  BY <1>1, Invariance, PTL

\* PosixShmOStream writes inside its mapping and inside the object, whatever
\* the page size and however often the object has been resized.
THEOREM WritesStayMapped == Spec => []WritesMapped
<1>1. IInv => WritesMapped
  <2> SUFFICES ASSUME IInv, writer = "push" PROVE WritesMapped
    BY DEF WritesMapped
  <2>1. /\ objectSize \in Nat /\ writerMapped = objectSize
        /\ HeaderSize + size + request <= objectSize
        /\ HeaderSize + size + request \in Nat
    BY ShmStreamAssumption DEF IInv, TypeOK, HandsApart, SizesTogether, PieceFits
  <2>2. objectSize <= Pages(objectSize) /\ Pages(objectSize) \in Int
    BY <2>1, PagesCover
  <2>3. HeaderSize + size + request <= Pages(objectSize)
    BY <2>1, <2>2
  <2> QED
    BY <2>1, <2>3 DEF WritesMapped, Within, InObject
<1> QED
  BY <1>1, Invariance, PTL

\* A consuming process is killed only by a frame that is longer than a page,
\* and never because the object was cut down while it was mapped.
THEOREM OnlyGrowthFaults == Spec => []FaultsOnlyByGrowth
<1>1. IInv => FaultsOnlyByGrowth
  BY DEF IInv
<1> QED
  BY <1>1, Invariance, PTL
=============================================================================
