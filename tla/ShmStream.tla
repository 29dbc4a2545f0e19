----------------------------- MODULE ShmStream -----------------------------
(***************************************************************************)
(* The shared memory behind one buffer of a ProcessLink whose type has no  *)
(* fixed serialized size: PosixShm, PosixShmOStream and PosixShmIStream.   *)
(*                                                                         *)
(* For each frame the producing process opens an output stream, which cuts *)
(* the object down to InitialSize, serializes into it, doubling the        *)
(* object's size as often as necessary, and posts fullLeft; the consuming  *)
(* process opens an input stream, which maps the object unless the process *)
(* has it mapped already, deserializes and posts emptyLeft.  One buffer is *)
(* in one process's hands at a time (ProcessLink's NoSharedBuffer).        *)
(*                                                                         *)
(* Sizes are counted in units of the 4-byte length word at the start of    *)
(* the object.  A mapping covers whole pages; touching memory outside it,  *)
(* or a page of it beyond the end of the object, kills the process.        *)
(***************************************************************************)
EXTENDS Integers

CONSTANTS
    InitialSize,  \* PosixShmOStream's initialSize
    PageSize,
    MaxFrame,     \* the longest serialized frame (bounds a run)
    NumFrames     \* the number of frames sent (bounds a run)

\* "must be greater than zero"
ASSUME ShmStreamAssumption ==
    /\ InitialSize \in Nat \ {0}
    /\ PageSize \in Nat \ {0}
    /\ MaxFrame \in Nat
    /\ NumFrames \in Nat

\* sizeof(uint32_t)
HeaderSize == 1

Unmapped == 0

VARIABLES
    objectSize,   \* size of the shared memory object
    size,         \* buffer->size, the length word in the object
    writerMapped, \* the producing process's PosixShm::_mappedSize
    readerMapped, \* the consuming process's
    capacity,     \* PosixShmOStream::_capacity
    pos,          \* PosixShmIStream::pos
    writer,       \* where the producing process is
    reader,       \* where the consuming process is
    request,      \* length of the piece that is being written
    written,      \* what has been serialized of the current frame
    frames        \* frames opened for writing

object == <<objectSize, size>>
ostream == <<writerMapped, capacity, writer, request, written, frames>>
istream == <<readerMapped, pos, reader>>
vars == <<object, ostream, istream>>

\* After openResources: the owner of the link has created the object with
\* room for the length word and mapped it, the other end has opened it.
Init ==
    /\ objectSize = HeaderSize
    /\ size = 0
    /\ \/ writerMapped = HeaderSize /\ readerMapped = Unmapped
       \/ writerMapped = Unmapped /\ readerMapped = HeaderSize
    /\ capacity = 0 /\ pos = 0
    /\ writer = "idle" /\ reader = "idle"
    /\ request = 0 /\ written = 0 /\ frames = 0

\* The memory up to the end of the page that holds the n-th unit.
Pages(n) == ((n + PageSize - 1) \div PageSize) * PageSize

\* Whether the first n units can be touched through a mapping.
Within(mapped, n) == n <= Pages(mapped)
InObject(n) == n <= Pages(objectSize)

----------------------------------------------------------------------------
(* The producing process: ProcessLink::push *)

\* (fault) The length word is forgotten.
ResizeShort(n) ==
    /\ objectSize' = n
    /\ writerMapped' = n

\* PosixShm::resize with remap, for n units of data: unmap, ftruncate, map.
Resize(n) ==
    /\ objectSize' = HeaderSize + n
    /\ writerMapped' = HeaderSize + n

\* (fault) The length of the previous frame is kept.
OpenOKeepsSize ==
    /\ writer = "idle" /\ reader = "idle"
    /\ frames < NumFrames
    /\ Resize(InitialSize)
    /\ capacity' = InitialSize
    /\ written' = 0
    /\ frames' = frames + 1
    /\ writer' = "write"
    /\ UNCHANGED <<size, request, istream>>

\* (fault) emptyLeft is not waited for.
OpenOEarly ==
    /\ writer = "idle"
    /\ frames < NumFrames
    /\ Resize(InitialSize)
    /\ capacity' = InitialSize
    /\ size' = 0
    /\ written' = 0
    /\ frames' = frames + 1
    /\ writer' = "write"
    /\ UNCHANGED <<request, istream>>

\* emptyLeft is taken and the stream constructed.
OpenO ==
    /\ writer = "idle" /\ reader = "idle"
    /\ frames < NumFrames
    /\ Resize(InitialSize)
    /\ capacity' = InitialSize
    /\ size' = 0
    /\ written' = 0
    /\ frames' = frames + 1
    /\ writer' = "write"
    /\ UNCHANGED <<request, istream>>

\* writeData or requireInternalBuffer of n units; reserve starts with the
\* current capacity.
Require(n) ==
    /\ writer = "write"
    /\ request' = n
    /\ writer' = IF size + n > capacity THEN "reserve" ELSE "push"
    /\ UNCHANGED <<object, writerMapped, capacity, written, frames, istream>>

\* (fault) The loop does not get on, as it would from a capacity of 0.
DoubleNothing ==
    /\ writer = "reserve"
    /\ UNCHANGED vars

\* A turn of reserve's loop.
Double ==
    /\ writer = "reserve"
    /\ capacity' = capacity * 2
    /\ writer' = IF capacity' < size + request THEN "reserve" ELSE "expand"
    /\ UNCHANGED <<object, writerMapped, request, written, frames, istream>>

\* expand
Expand ==
    /\ writer = "expand"
    /\ Resize(capacity)
    /\ writer' = "push"
    /\ UNCHANGED <<size, capacity, request, written, frames, istream>>

\* The memcpy of writeData, or the caller's own writing and
\* pushInternalBuffer; the length word is advanced.
Push ==
    /\ writer = "push"
    /\ size' = size + request
    /\ written' = written + request
    /\ writer' = "write"
    /\ UNCHANGED <<objectSize, writerMapped, capacity, request, frames, istream>>

\* The frame is complete: fullLeft is posted.
CloseO ==
    /\ writer = "write"
    /\ writer' = "idle"
    /\ reader' = "fetch"
    /\ UNCHANGED <<object, writerMapped, capacity, request, written, frames,
                   readerMapped, pos>>

----------------------------------------------------------------------------
(* The consuming process: ProcessLink::fetch *)

\* The stream is constructed: map() returns an existing mapping as it is.
OpenI ==
    /\ reader = "fetch"
    /\ readerMapped' = IF readerMapped = Unmapped THEN objectSize ELSE readerMapped
    /\ pos' = 0
    /\ reader' = "read"
    /\ UNCHANGED <<object, ostream>>

\* What becomes of readData of n units: it throws when the length word says
\* that there is not so much; the process is killed when it leaves the mapping
\* (SIGSEGV) or the object (SIGBUS).
Outcome(n) ==
    IF pos + n > size THEN "thrown"
    ELSE IF ~Within(readerMapped, HeaderSize + pos + n) THEN "segv"
    ELSE IF ~InObject(HeaderSize + pos + n) THEN "bus"
    ELSE "read"

\* The deserializer asks for what the serializer has written, piece by piece.
Read(n) ==
    /\ reader = "read"
    /\ reader' = Outcome(n)
    /\ pos' = IF reader' = "read" THEN pos + n ELSE pos
    /\ UNCHANGED <<object, ostream, readerMapped>>

\* The frame has been read: emptyLeft is posted.
CloseI ==
    /\ reader = "read"
    /\ pos = written
    /\ reader' = "idle"
    /\ UNCHANGED <<object, ostream, readerMapped, pos>>

----------------------------------------------------------------------------

Write ==
    \/ OpenO \/ Double \/ Expand \/ Push \/ CloseO
    \/ \E n \in 1..(MaxFrame - written) : Require(n)

Deserialize ==
    \/ OpenI \/ CloseI
    \/ \E n \in 1..(written - pos) : Read(n)

Next == Write \/ Deserialize

Spec == Init /\ [][Next]_vars

\* Both processes run whenever they can.
FairSpec == Spec /\ WF_vars(Write) /\ WF_vars(Deserialize)

----------------------------------------------------------------------------
(* Properties. *)

TypeOK ==
    /\ {objectSize, capacity} \subseteq Nat
    /\ {writerMapped, readerMapped} \subseteq Nat
    /\ {size, written, pos, request} \subseteq 0..MaxFrame
    /\ frames \in 0..NumFrames
    /\ writer \in {"idle", "write", "reserve", "expand", "push"}
    /\ reader \in {"idle", "fetch", "read", "thrown", "segv", "bus"}

\* Whatever is written lies inside the writer's mapping and inside the object,
\* however often the object has been resized.
WritesMapped ==
    writer = "push" =>
        /\ Within(writerMapped, HeaderSize + size + request)
        /\ InObject(HeaderSize + size + request)

\* The reader is killed only by its old mapping, and never for a frame that
\* fits into one page: that each frame cuts the object down before it
\* enlarges it again never shows.
FaultsOnlyByGrowth ==
    /\ reader # "bus"
    /\ reader = "segv" => HeaderSize + written > PageSize

\* Enlarging comes to an end and every frame is read, unless the reader is
\* killed: deserializing what was serialized never runs across the end that
\* the length word tells (readData would throw).
AllRead ==
    <>(\/ frames = NumFrames /\ writer = "idle" /\ reader = "idle"
       \/ reader = "segv")

\* A frame that has been written can be read.
ReadsMapped == reader # "segv"
=============================================================================
