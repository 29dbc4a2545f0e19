----------------------------- MODULE SocketLink -----------------------------
(***************************************************************************)
(* A link between two hosts: SocketLinkOutput with its FdFiller thread on  *)
(* one side, the FdPump thread of a Demuxer and SocketLinkInput on the     *)
(* other, joined by one TCP connection.                                    *)
(*                                                                         *)
(*   producer -> LinkBuffer tx -> filler == TCP => pump -> LinkBuffer rx   *)
(*                                                          -> consumer    *)
(*                                                                         *)
(* The filler sends a link header, a type name and then, for each frame, a *)
(* data header and the data, and waits for the pump's answer after each of *)
(* them.  The stream carries no message boundaries: what a reader makes of *)
(* the bytes depends on where it is, so a message is labelled here with    *)
(* what its writer means by it.                                            *)
(*                                                                         *)
(* The producing thread finally destroys the link (~FdFiller): an empty    *)
(* buffer tells the filler to end, and the connection is closed.           *)
(*                                                                         *)
(* A frame is never empty: every TypeSpec of the repository serializes a   *)
(* fixed size or starts with an element count.                             *)
(*                                                                         *)
(* The process on either side may be killed.  Its kernel closes the socket *)
(* and what was on its way may be lost, a message cut off in the middle    *)
(* included: readFd of it ends as at the end of the stream.                *)
(***************************************************************************)
EXTENDS LinkBuffer, Sequences

CONSTANTS
    TxBuffers,  \* bufferCount of SocketLinkOutput
    RxBuffers,  \* bufferCount of SocketLinkInput
    NumFrames   \* rounds of the two processors (bounds a run)

ASSUME SocketLinkAssumption ==
    /\ {TxBuffers, RxBuffers} \subseteq Nat \ {0}
    /\ NumFrames \in Nat

\* What the other side turns out to be: it was built for the same type, for
\* another one (seen from the fixed length or only from the name), or nobody
\* listens at the address.
Peers == {"same", "fixedLen", "typeName", "refused"}

\* Buffer contents besides frames: the empty vector, a frame being written.
Empty == 0
Torn == -1

VARIABLES
    peer,
    tx, rx,      \* the two LinkBuffers
    allocated,   \* FdPump::linkBuffer # nullptr
    assigned,    \* FdPump::fd >= 0
    toPump,      \* bytes on their way from the filler, as messages
    toFiller,    \* bytes on their way from the pump
    killed,      \* the sides whose process was killed
    closed,      \* the sending host has closed its socket
    producer, filler, pump, consumer,  \* where the four threads are
    pushed,      \* frames the producer has pushed
    fetched,     \* frames the consumer has fetched
    seen         \* the last frame the consumer has deserialized

network == <<toPump, toFiller, closed>>
threads == <<producer, filler, pump, consumer>>
counters == <<pushed, fetched, seen>>
vars == <<peer, tx, rx, allocated, assigned, network, threads, counters, killed>>

Init ==
    /\ peer \in Peers
    /\ tx = New(TxBuffers, Empty)
    /\ rx = New(RxBuffers, Empty)
    /\ allocated = FALSE /\ assigned = FALSE
    /\ toPump = <<>> /\ toFiller = <<>> /\ closed = FALSE
    /\ producer = "run" /\ filler = "connect"
    /\ pump = "wait" /\ consumer = "attach"
    /\ pushed = 0 /\ fetched = 0 /\ seen = 0
    /\ killed = {}

----------------------------------------------------------------------------
(* The producing thread: SocketLinkOutput::push and ~FdFiller. *)

\* getEmpty returns a buffer; serialization into it starts ...
BeginPush ==
    /\ producer = "run"
    /\ pushed < NumFrames
    /\ CanGetEmpty(tx)
    /\ tx' = Write(GetEmpty(tx), Torn)
    /\ producer' = "serialize"
    /\ UNCHANGED <<peer, rx, allocated, assigned, network, filler, pump,
                   consumer, counters, killed>>

\* ... ends, and putFull hands the buffer to the filler.
EndPush ==
    /\ producer = "serialize"
    /\ tx' = PutFull(Write(tx, pushed + 1))
    /\ pushed' = pushed + 1
    /\ producer' = "run"
    /\ UNCHANGED <<peer, rx, allocated, assigned, network, filler, pump,
                   consumer, fetched, seen, killed>>

\* ~FdFiller: an empty buffer as the end marker ...
SendEnd ==
    /\ producer = "run"
    /\ pushed = NumFrames
    /\ CanGetEmpty(tx)
    /\ tx' = PutFull(Write(GetEmpty(tx), Empty))
    /\ producer' = "join"
    /\ UNCHANGED <<peer, rx, allocated, assigned, network, filler, pump,
                   consumer, counters, killed>>

\* (fault) close(fd) without waitForFinish.
CloseEarly ==
    /\ producer = "join"
    /\ closed' = TRUE
    /\ producer' = "gone"
    /\ UNCHANGED <<peer, tx, rx, allocated, assigned, toPump, toFiller, filler,
                   pump, consumer, counters, killed>>

\* ... then, when the filler has ended, close(fd).
Close ==
    /\ producer = "join"
    /\ filler \in {"ended", "dead"}
    /\ closed' = TRUE
    /\ producer' = "gone"
    /\ UNCHANGED <<peer, tx, rx, allocated, assigned, toPump, toFiller, filler,
                   pump, consumer, counters, killed>>

----------------------------------------------------------------------------
(* FdFiller::run *)

Send(kind, frame) == toPump' = Append(toPump, [kind |-> kind, frame |-> frame])

\* connect() and the link header.
Connect ==
    /\ filler = "connect"
    /\ peer # "refused" /\ "receiver" \notin killed
    /\ Send("linkHeader", 0)
    /\ filler' = "header"
    /\ UNCHANGED <<peer, tx, rx, allocated, assigned, toFiller, closed,
                   producer, pump, consumer, counters, killed>>

\* connect() fails: the exception ends the thread.
ConnectFails ==
    /\ filler = "connect"
    /\ peer = "refused" \/ "receiver" \in killed
    /\ filler' = "dead"
    /\ UNCHANGED <<peer, tx, rx, allocated, assigned, network, producer, pump,
                   consumer, counters, killed>>

\* (fault) The answer is not waited for.
AcceptedBlindly(from) == filler = from /\ UNCHANGED toFiller

\* The answer errNone to what was sent in state from.
Accepted(from) ==
    /\ filler = from
    /\ toFiller # <<>>
    /\ Head(toFiller) = "errNone"
    /\ toFiller' = Tail(toFiller)

SendTypeName ==
    /\ Accepted("header")
    /\ Send("typeName", 0)
    /\ filler' = "name"
    /\ UNCHANGED <<peer, tx, rx, allocated, assigned, closed, producer, pump,
                   consumer, counters, killed>>

HandshakeDone ==
    /\ Accepted("name")
    /\ filler' = "loop"
    /\ UNCHANGED <<peer, tx, rx, allocated, assigned, toPump, closed, producer,
                   pump, consumer, counters, killed>>

\* getFull returns a frame: its data header is sent.
SendDataHeader ==
    /\ filler = "loop"
    /\ CanGetFull(tx)
    /\ tx' = GetFull(tx)
    /\ Content(tx') # Empty
    /\ Send("dataHeader", 0)
    /\ filler' = "dataHeader"
    /\ UNCHANGED <<peer, rx, allocated, assigned, toFiller, closed, producer,
                   pump, consumer, counters, killed>>

\* getFull returns an empty buffer: the thread ends.
ReadEnd ==
    /\ filler = "loop"
    /\ CanGetFull(tx)
    /\ tx' = GetFull(tx)
    /\ Content(tx') = Empty
    /\ filler' = "ended"
    /\ UNCHANGED <<peer, rx, allocated, assigned, network, producer, pump,
                   consumer, counters, killed>>

SendData ==
    /\ Accepted("dataHeader")
    /\ Send("data", Content(tx))
    /\ filler' = "data"
    /\ UNCHANGED <<peer, tx, rx, allocated, assigned, closed, producer, pump,
                   consumer, counters, killed>>

\* The pump has the frame: putEmpty gives the buffer back to the producer.
FrameAccepted ==
    /\ Accepted("data")
    /\ tx' = PutEmpty(tx)
    /\ filler' = "loop"
    /\ UNCHANGED <<peer, rx, allocated, assigned, toPump, closed, producer,
                   pump, consumer, counters, killed>>

\* Any other answer is a ProtocolError: the thread ends, the connection stays
\* open until ~FdFiller.
Rejected ==
    /\ filler \in {"header", "name", "dataHeader", "data"}
    /\ toFiller # <<>>
    /\ Head(toFiller) # "errNone"
    /\ toFiller' = Tail(toFiller)
    /\ filler' = "dead"
    /\ UNCHANGED <<peer, tx, rx, allocated, assigned, toPump, closed, producer,
                   pump, consumer, counters, killed>>

\* readFd finds the end of the stream: EOFError ends the thread.
FillerEOF ==
    /\ filler \in {"header", "name", "dataHeader", "data"}
    /\ "receiver" \in killed /\ toFiller = <<>>
    /\ filler' = "dead"
    /\ UNCHANGED <<peer, tx, rx, allocated, assigned, network, producer, pump,
                   consumer, counters, killed>>

----------------------------------------------------------------------------
(* The receiving host: Demuxer::run for this connection, FdPump::run. *)

Received(kind) == toPump # <<>> /\ Head(toPump).kind = kind

Answer(code) == toFiller' = Append(toFiller, code)

\* (fault) What is compared never differs.
SameType(difference) == TRUE

\* The comparison of what both ends say of their type.
Matches(difference) == peer # difference

\* The demuxer reads the link header and hands the connection to the pump.
Assign ==
    /\ ~assigned
    /\ "receiver" \notin killed
    /\ Received("linkHeader")
    /\ toPump' = Tail(toPump)
    /\ assigned' = TRUE
    /\ UNCHANGED <<peer, tx, rx, allocated, toFiller, closed, threads, counters, killed>>

\* With connection and buffer there, the pump compares the serialized sizes.
CheckFixedLen ==
    /\ pump = "wait"
    /\ assigned /\ allocated
    /\ Answer(IF Matches("fixedLen") THEN "errNone" ELSE "errType")
    /\ pump' = IF Matches("fixedLen") THEN "name" ELSE "ended"
    /\ UNCHANGED <<peer, tx, rx, allocated, assigned, toPump, closed, producer,
                   filler, consumer, counters, killed>>

CheckTypeName ==
    /\ pump = "name"
    /\ Received("typeName")
    /\ toPump' = Tail(toPump)
    /\ Answer(IF Matches("typeName") THEN "errNone" ELSE "errType")
    /\ pump' = IF Matches("typeName") THEN "empty" ELSE "ended"
    /\ UNCHANGED <<peer, tx, rx, allocated, assigned, closed, producer, filler,
                   consumer, counters, killed>>

\* getEmpty, before the next data header is read.
PumpGetEmpty ==
    /\ pump = "empty"
    /\ CanGetEmpty(rx)
    /\ rx' = GetEmpty(rx)
    /\ pump' = "dataHeader"
    /\ UNCHANGED <<peer, tx, allocated, assigned, network, producer, filler,
                   consumer, counters, killed>>

\* The header is accepted and the data is read into the buffer ...
ReadDataHeader ==
    /\ pump = "dataHeader"
    /\ Received("dataHeader")
    /\ toPump' = Tail(toPump)
    /\ Answer("errNone")
    /\ rx' = Write(rx, Torn)
    /\ pump' = "data"
    /\ UNCHANGED <<peer, tx, allocated, assigned, closed, producer, filler,
                   consumer, counters, killed>>

\* ... until it is complete: putFull hands it to the consumer.
ReadData ==
    /\ pump = "data"
    /\ Received("data")
    /\ toPump' = Tail(toPump)
    /\ rx' = PutFull(Write(rx, Head(toPump).frame))
    /\ Answer("errNone")
    /\ pump' = "empty"
    /\ UNCHANGED <<peer, tx, allocated, assigned, closed, producer, filler,
                   consumer, counters, killed>>

\* readFd finds the end of the stream: EOFError ends the thread, after an
\* attempt to answer errPacket that the closed peer does not read.
PumpEOF ==
    /\ pump \in {"name", "dataHeader", "data"}
    /\ closed /\ toPump = <<>>
    /\ pump' = "ended"
    /\ UNCHANGED <<peer, tx, rx, allocated, assigned, network, producer, filler,
                   consumer, counters, killed>>

\* The same when the pump has already answered a sender that was killed: if
\* the sender's kernel refuses that answer just now, this attempt raises
\* SIGPIPE, which kills the receiving process.
PumpSigpipe ==
    /\ pump \in {"name", "dataHeader", "data"}
    /\ "sender" \in killed /\ toPump = <<>> /\ toFiller # <<>>
    /\ killed' = killed \cup {"receiver"}
    /\ pump' = "killed" /\ consumer' = "killed"
    /\ UNCHANGED <<peer, tx, rx, allocated, assigned, network, producer, filler,
                   counters>>

----------------------------------------------------------------------------
(* The consuming thread: SocketLinkInput. *)

\* The constructor has the buffer allocated (Demuxer::getLink).
Attach ==
    /\ consumer = "attach"
    /\ allocated' = TRUE
    /\ consumer' = "fetch"
    /\ UNCHANGED <<peer, tx, rx, assigned, network, producer, filler, pump,
                   counters, killed>>

\* fetch: getFull returns a buffer; deserialization starts ...
BeginFetch ==
    /\ consumer = "fetch"
    /\ fetched < NumFrames
    /\ CanGetFull(rx)
    /\ rx' = GetFull(rx)
    /\ fetched' = fetched + 1
    /\ consumer' = "deserialize"
    /\ UNCHANGED <<peer, tx, allocated, assigned, network, producer, filler,
                   pump, pushed, seen, killed>>

\* ... ends, and putEmpty gives the buffer back to the pump.
EndFetch ==
    /\ consumer = "deserialize"
    /\ seen' = Content(rx)
    /\ rx' = PutEmpty(rx)
    /\ consumer' = "fetch"
    /\ UNCHANGED <<peer, tx, allocated, assigned, network, producer, filler,
                   pump, pushed, fetched, killed>>

----------------------------------------------------------------------------
(* A process is killed. *)

KillSender ==
    /\ killed = {}
    /\ producer # "gone"
    /\ killed' = {"sender"}
    /\ producer' = "killed" /\ filler' = "killed"
    /\ closed' = TRUE
    /\ toPump' \in {toPump, <<>>}
    /\ toFiller' = <<>>
    /\ UNCHANGED <<peer, tx, rx, allocated, assigned, pump, consumer, counters>>

KillReceiver ==
    /\ killed = {}
    /\ killed' = {"receiver"}
    /\ pump' = "killed" /\ consumer' = "killed"
    /\ toPump' = <<>>
    /\ toFiller' \in {toFiller, <<>>}
    /\ UNCHANGED <<peer, tx, rx, allocated, assigned, closed, producer, filler,
                   counters>>

----------------------------------------------------------------------------

Producer == BeginPush \/ EndPush \/ SendEnd \/ Close

Filler ==
    \/ Connect \/ ConnectFails \/ SendTypeName \/ HandshakeDone
    \/ SendDataHeader \/ ReadEnd \/ SendData \/ FrameAccepted \/ Rejected
    \/ FillerEOF

Pump ==
    \/ CheckFixedLen \/ CheckTypeName \/ PumpGetEmpty \/ ReadDataHeader
    \/ ReadData \/ PumpEOF \/ PumpSigpipe

Consumer == Attach \/ BeginFetch \/ EndFetch

Next ==
    \/ Producer \/ Filler \/ Assign \/ Pump \/ Consumer
    \/ KillSender \/ KillReceiver

Spec == Init /\ [][Next]_vars

\* Every thread runs whenever it can; TCP delivers what is sent; nobody has to
\* be killed.
FairSpec ==
    /\ Spec
    /\ WF_vars(Producer) /\ WF_vars(Filler) /\ WF_vars(Assign)
    /\ WF_vars(Pump) /\ WF_vars(Consumer)

----------------------------------------------------------------------------
(* Properties. *)

Messages ==
    [kind : {"linkHeader", "typeName", "dataHeader", "data"},
     frame : Torn..NumFrames]

TypeOK ==
    /\ peer \in Peers
    /\ tx \in LinkBuffers(TxBuffers, Torn..NumFrames)
    /\ rx \in LinkBuffers(RxBuffers, Torn..NumFrames)
    /\ {allocated, assigned, closed} \subseteq BOOLEAN
    /\ toPump \in Seq(Messages)
    /\ toFiller \in Seq({"errNone", "errType"})
    /\ producer \in {"run", "serialize", "join", "gone", "killed"}
    /\ filler \in {"connect", "header", "name", "loop", "dataHeader", "data",
                   "ended", "dead", "killed"}
    /\ pump \in {"wait", "name", "empty", "dataHeader", "data", "ended",
                 "killed"}
    /\ consumer \in {"attach", "fetch", "deserialize", "killed"}
    /\ {pushed, fetched} \subseteq 0..NumFrames
    /\ seen \in Torn..NumFrames
    /\ killed \subseteq {"sender", "receiver"}

\* The two threads at the connection take turns, so that neither misreads the
\* stream: at most one message is under way, and it is the one its reader is
\* prepared for, also when its writer has been killed.
Lockstep ==
    /\ Len(toPump) + Len(toFiller) <= 1
    /\ toFiller # <<>> /\ "sender" \notin killed =>
         filler \in {"header", "name", "dataHeader", "data"}
    /\ toPump # <<>> /\ "receiver" \notin killed =>
         CASE Head(toPump).kind = "linkHeader" -> ~assigned
           [] Head(toPump).kind = "typeName" -> pump \in {"wait", "name"}
           [] Head(toPump).kind = "dataHeader" -> pump \in {"empty", "dataHeader"}
           [] Head(toPump).kind = "data" -> pump = "data"

\* When ~FdFiller has returned, every frame that was pushed has reached the
\* receiving process, however far behind the consumer is, if that process
\* still exists.
FlushedOnClose ==
    peer = "same" /\ producer = "gone" /\ killed = {} =>
        fetched + rx.fullSem = NumFrames

\* Links of different types never exchange a frame.
TypesSeparated == peer # "same" => fetched = 0 /\ rx.fullSem = 0

\* The producer's calls of getEmpty that are left find an empty buffer, the
\* one for the end marker included.
RoomForRest ==
    tx.emptySem >= CASE producer = "run" -> NumFrames - pushed + 1
                     [] producer = "serialize" -> NumFrames - pushed
                     [] OTHER -> 0

\* Between matching ends every frame arrives, and the connection is shut down
\* at both ends, unless a process is killed.  When the sender is killed, the
\* pump comes to its end.  A producer is never told that its filler has ended:
\* nobody listens, the types differ or the receiver was killed.  It comes to
\* its own end only if all that it still pushes fits into the ring; else push,
\* or ~FdFiller, waits for ever.
AllDelivered ==
    /\ peer = "same" => \/ <>(seen = NumFrames /\ producer = "gone" /\ pump = "ended")
                        \/ <>(killed # {})
    /\ ("sender" \in killed /\ assigned) ~> pump \in {"ended", "killed"}
    /\ (filler = "dead" /\ RoomForRest) ~> producer = "gone"
    /\ [](filler = "dead" /\ ~RoomForRest => []~(producer = "gone"))

----------------------------------------------------------------------------
(* End to end, the link is a bounded queue. *)

\* The draining thread of a ring has a buffer in its hands.
InHands(lb) ==
    lb.emptySem + lb.fullSem + (IF lb.currentEmpty # NoBuffer THEN 1 ELSE 0)
        < lb.bufferCount

\* The frame in the filler's hands, until the pump has put it into rx.
Underway ==
    IF InHands(tx) /\ Content(tx) > fetched + rx.fullSem THEN <<Content(tx)>>
    ELSE <<>>

\* The frames in tx, without the end marker behind them.
Waiting ==
    LET last == tx.fullSem
        marked == last > 0 /\ Pending(tx)[last] = Empty
    IN  [k \in 1..(IF marked THEN last - 1 ELSE last) |-> Pending(tx)[k]]

\* The frames the sender still has to send; when it was killed, the one that
\* has left it.
ToArrive ==
    IF "sender" \notin killed THEN Underway \o Waiting
    ELSE IF Received("data") THEN <<Head(toPump).frame>> ELSE <<>>

Arrived == IF "receiver" \in killed THEN <<>> ELSE Pending(rx)

Queue == Arrived \o ToArrive

Held == IF InHands(rx) THEN Content(rx) ELSE seen

BQ == INSTANCE BoundedQueue WITH
        Capacity <- TxBuffers + RxBuffers, queue <- Queue, held <- Held

\* A process is killed: frames at an end of the queue are lost.
Loses ==
    /\ killed' # killed
    /\ UNCHANGED Held
    /\ \E i \in 1..(Len(Queue) + 1), j \in 0..Len(Queue) :
         Queue' = SubSeq(Queue, i, j)

\* Two rings, two threads and a connection implement one queue.  A process
\* that is killed takes the frames it has with it; those that are left stay
\* complete and in order.
ImplementsQueue == BQ!Init /\ [][BQ!Next \/ Loses]_(BQ!vars)
=============================================================================
