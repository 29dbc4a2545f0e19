------------------------------ MODULE Demuxer ------------------------------
(***************************************************************************)
(* glstreamer::Demuxer and the life of its FdPumps.  The demuxer thread    *)
(* accepts the connections of FdFillers, reads which link each is for and  *)
(* hands it to that link's pump; SocketLinkInput objects ask for their     *)
(* link's buffer with getLink.  Whichever comes first creates the pump,    *)
(* whose thread waits until it has both.  ~Demuxer cancels the demuxer     *)
(* thread, waits for it, and destroys the pumps.                           *)
(*                                                                         *)
(* There are two levels of locks: Demuxer::stateLock guards the map of     *)
(* pumps, and is held while FdPump::stateLock is taken in assignLink and   *)
(* allocateBuffer.  A pump releases its lock only while it waits for its   *)
(* resources: it keeps it during the whole transfer.                       *)
(*                                                                         *)
(* The transfer itself is SocketLink's; here a transferring pump is in     *)
(* readFd or, while its buffers are full, in getEmpty.  Connections stand  *)
(* in the backlog of the listening socket from the start, as the demuxer   *)
(* may leave them there for as long as it takes.                           *)
(***************************************************************************)
EXTENDS Integers

CONSTANTS
    Links,  \* link ids, one SocketLinkInput each
    Conns   \* connections that are made (bounds a run)

Headers == {"good", "bad", "short"}

None == "none"

ASSUME DemuxerAssumption ==
    None \notin Links \cup Conns /\ "demuxer" \notin Links

VARIABLES
    linkId,      \* the link id in each connection's header
    header,      \* the header is good, has a bad magic or crc, or is cut off
    conn,        \* what has become of each connection
    demuxer,     \* where the demuxer thread is
    current,     \* the connection it deals with
    stateLock,   \* holder of Demuxer::stateLock: a link's input, demuxer, none
    pump,        \* where each pump's thread is
    pumpFd,      \* FdPump::fd: a connection or None
    linkBuffer,  \* the pumps that have allocated their LinkBuffer
    input,       \* where the thread of each SocketLinkInput is
    main         \* the thread that owns the demuxer: in ~Demuxer's cancel(),
                 \* woken in it without an answer, in waitForFinish, ...

pumps == <<pump, pumpFd, linkBuffer>>
vars == <<linkId, header, conn, demuxer, current, stateLock, pumps, input,
          main>>

Init ==
    /\ linkId \in [Conns -> Links]
    /\ header \in [Conns -> Headers]
    /\ conn = [c \in Conns |-> "queued"]
    /\ demuxer = "accept" /\ current = None
    /\ stateLock = None
    /\ pump = [l \in Links |-> "absent"]
    /\ pumpFd = [l \in Links |-> None]
    /\ linkBuffer = {}
    /\ input = [l \in Links |-> "construct"]
    /\ main = "run"

\* The states in which a pump holds its stateLock.
PumpLocked(l) == pump[l] = "transfer"

\* (fault) The pump is found in the map only.
CreatedNever(l) == pump

\* The pump's thread is created with the pump.
Created(l) == IF pump[l] = "absent" THEN [pump EXCEPT ![l] = "start"] ELSE pump

\* (fault) One resource will do.
ReadyEither(l) == pumpFd[l] # None \/ l \in linkBuffer

\* resourceReady
Ready(l) == pumpFd[l] # None /\ l \in linkBuffer

\* (fault) assignLink and allocateBuffer do not notify.
EmitNothing(l, ready) == UNCHANGED pump

\* tryEmitReady: condResourceReady is notified when both resources are there.
Emit(l, ready) ==
    pump' = IF ready /\ pump[l] = "wait" THEN [pump EXCEPT ![l] = "start"]
                                         ELSE pump

----------------------------------------------------------------------------
(* Demuxer::run *)

\* A connection accepted after cancel() has set its mark is closed by the
\* exception that the next system call throws.
Accept(c) ==
    /\ demuxer = "accept" /\ main = "run"
    /\ conn[c] = "queued"
    /\ conn' = [conn EXCEPT ![c] = "accepted"]
    /\ demuxer' = "header" /\ current' = c
    /\ UNCHANGED <<linkId, header, stateLock, pumps, input, main>>

\* (fault) break in place of continue.
RefuseAndEnd ==
    /\ demuxer = "header" /\ header[current] = "bad"
    /\ conn' = [conn EXCEPT ![current] = "refused"]
    /\ demuxer' = "ended" /\ current' = None
    /\ UNCHANGED <<linkId, header, stateLock, pumps, input, main>>

\* A bad magic or crc is answered and the connection closed.
RefuseHeader ==
    /\ demuxer = "header" /\ header[current] = "bad"
    /\ conn' = [conn EXCEPT ![current] = "refused"]
    /\ demuxer' = "accept" /\ current' = None
    /\ UNCHANGED <<linkId, header, stateLock, pumps, input, main>>

\* The connection ends within the header: readFd throws EOFError, which
\* leaves the loop.
HeaderEOF ==
    /\ demuxer = "header" /\ header[current] = "short"
    /\ conn' = [conn EXCEPT ![current] = "refused"]
    /\ demuxer' = "ended" /\ current' = None
    /\ UNCHANGED <<linkId, header, stateLock, pumps, input, main>>

\* With Demuxer::stateLock, the pump is looked up or created.
FindPump ==
    /\ demuxer = "header" /\ header[current] = "good"
    /\ stateLock = None
    /\ stateLock' = "demuxer"
    /\ pump' = Created(linkId[current])
    /\ demuxer' = "assign"
    /\ UNCHANGED <<linkId, header, conn, current, pumpFd, linkBuffer, input,
                   main>>

\* assignLink takes the pump's lock and gives it the connection.
AssignLink ==
    /\ demuxer = "assign"
    /\ LET l == linkId[current] IN
         /\ ~PumpLocked(l)
         /\ pumpFd[l] = None
         /\ pumpFd' = [pumpFd EXCEPT ![l] = current]
         /\ Emit(l, l \in linkBuffer)
    /\ conn' = [conn EXCEPT ![current] = "assigned"]
    /\ stateLock' = None
    /\ demuxer' = "accept" /\ current' = None
    /\ UNCHANGED <<linkId, header, linkBuffer, input, main>>

\* The pump has a connection already: ResourceConflict, answered by errExist.
\* The descriptor is released, not closed.
AssignConflict ==
    /\ demuxer = "assign"
    /\ ~PumpLocked(linkId[current])
    /\ pumpFd[linkId[current]] # None
    /\ conn' = [conn EXCEPT ![current] = "exist"]
    /\ stateLock' = None
    /\ demuxer' = "accept" /\ current' = None
    /\ UNCHANGED <<linkId, header, pumps, input, main>>

\* cancel() stops accept and readFd, the system calls of the loop.
Cancelled ==
    /\ main \in {"cancel", "woken", "wait"}
    /\ demuxer \in {"accept", "header"}
    /\ demuxer' = "ended" /\ current' = None
    /\ UNCHANGED <<linkId, header, conn, stateLock, pumps, input, main>>

----------------------------------------------------------------------------
(* SocketLinkInput's constructor: Demuxer::getLink *)

GetLink(l) ==
    /\ input[l] = "construct" /\ main = "run"
    /\ stateLock = None
    /\ stateLock' = l
    /\ pump' = Created(l)
    /\ input' = [input EXCEPT ![l] = "allocate"]
    /\ UNCHANGED <<linkId, header, conn, demuxer, current, pumpFd, linkBuffer,
                   main>>

\* allocateBuffer, under the pump's lock.
AllocateBuffer(l) ==
    /\ input[l] = "allocate"
    /\ ~PumpLocked(l)
    /\ linkBuffer' = linkBuffer \cup {l}
    /\ Emit(l, pumpFd[l] # None)
    /\ stateLock' = None
    /\ input' = [input EXCEPT ![l] = "fetch"]
    /\ UNCHANGED <<linkId, header, conn, demuxer, current, pumpFd, main>>

----------------------------------------------------------------------------
(* FdPump::run *)

\* The pump takes its lock and looks for its resources: it goes on to the
\* transfer with the lock ...
StartTransfer(l) ==
    /\ pump[l] = "start"
    /\ Ready(l)
    /\ pump' = [pump EXCEPT ![l] = "transfer"]
    /\ UNCHANGED <<linkId, header, conn, demuxer, current, stateLock, pumpFd,
                   linkBuffer, input, main>>

\* ... or waits on condResourceReady without it.
WaitResources(l) ==
    /\ pump[l] = "start"
    /\ ~Ready(l)
    /\ pump' = [pump EXCEPT ![l] = "wait"]
    /\ UNCHANGED <<linkId, header, conn, demuxer, current, stateLock, pumpFd,
                   linkBuffer, input, main>>

\* The peer closes the connection, or a transfer error ends the thread.
TransferEnds(l) ==
    /\ pump[l] = "transfer"
    /\ pump' = [pump EXCEPT ![l] = "ended"]
    /\ UNCHANGED <<linkId, header, conn, demuxer, current, stateLock, pumpFd,
                   linkBuffer, input, main>>

\* ~FdPump has shut the connection down.  readFd sees the end of the stream,
\* and the EOFError handler answers errPacket: writing to a socket this
\* process has shut down raises SIGPIPE, which nothing ignores.
PumpShutDown(l) ==
    /\ main = "destroy"
    /\ pump[l] = "transfer"
    /\ main' = "killed"
    /\ pump' = [m \in Links |-> "ended"]
    /\ UNCHANGED <<linkId, header, conn, demuxer, current, stateLock, pumpFd,
                   linkBuffer, input>>

----------------------------------------------------------------------------
(* ~Demuxer *)

\* cancel(), when the inputs have done their rounds and are destroyed, which
\* the pumps do not notice.  It returns at once unless the demuxer's thread is
\* in a system call ...
Cancel ==
    /\ main = "run"
    /\ \A l \in Links : input[l] = "fetch"
    /\ main' \in {"cancel", "wait"}
    /\ main' = "cancel" => demuxer \in {"accept", "header"}
    /\ UNCHANGED <<linkId, header, conn, demuxer, current, stateLock, pumps,
                   input>>

\* ... and else when its wait is answered; or it goes on for ever, as
\* CancellableThread has it, when the answer came before the wait.
CancelAnswered ==
    /\ main = "cancel"
    /\ main' = "wait"
    /\ UNCHANGED <<linkId, header, conn, demuxer, current, stateLock, pumps,
                   input>>

\* A wait that returns by itself is taken for an answer: no signal follows.
CancelWoken ==
    /\ main = "cancel"
    /\ main' = "woken"
    /\ UNCHANGED <<linkId, header, conn, demuxer, current, stateLock, pumps,
                   input>>

\* waitForFinish returns; then the map of pumps is destroyed: each pump's
\* connection is shut down and its thread joined ...
DestroyPumps ==
    /\ main \in {"wait", "woken"} /\ demuxer = "ended"
    /\ main' = "destroy"
    /\ UNCHANGED <<linkId, header, conn, demuxer, current, stateLock, pumps,
                   input>>

\* ... and the destructor returns.
Destroyed ==
    /\ main = "destroy"
    /\ \A l \in Links : pump[l] \in {"absent", "ended"}
    /\ main' = "gone"
    /\ UNCHANGED <<linkId, header, conn, demuxer, current, stateLock, pumps,
                   input>>

----------------------------------------------------------------------------

DemuxerRuns ==
    \/ \E c \in Conns : Accept(c)
    \/ RefuseHeader \/ HeaderEOF \/ FindPump \/ AssignLink \/ AssignConflict
    \/ Cancelled

InputRuns(l) == GetLink(l) \/ AllocateBuffer(l)

PumpRuns(l) == StartTransfer(l) \/ WaitResources(l)

Next ==
    \/ DemuxerRuns
    \/ \E l \in Links : InputRuns(l) \/ PumpRuns(l)
                          \/ TransferEnds(l) \/ PumpShutDown(l)
    \/ Cancel \/ CancelAnswered \/ CancelWoken \/ DestroyPumps \/ Destroyed

Spec == Init /\ [][Next]_vars

\* Threads run whenever they can, and a thread that waits for stateLock gets
\* it in the end.  Nobody has to begin the destruction, cancel() need not
\* return, and a demuxer whose only signal came too early stays in its system
\* call.  How long a transfer lasts is up to the peer, and a pump that is in
\* getEmpty when its input is gone stays there.
FairSpec ==
    /\ Spec
    /\ SF_vars(main # "woken" /\ DemuxerRuns)
    /\ \A l \in Links : SF_vars(InputRuns(l))
    /\ \A l \in Links : WF_vars(PumpRuns(l))
    /\ WF_vars(DestroyPumps) /\ WF_vars(Destroyed)

----------------------------------------------------------------------------
(* Properties. *)

TypeOK ==
    /\ linkId \in [Conns -> Links]
    /\ header \in [Conns -> Headers]
    /\ conn \in [Conns -> {"queued", "accepted", "refused",
                           "assigned", "exist"}]
    /\ demuxer \in {"accept", "header", "assign", "ended"}
    /\ current \in Conns \cup {None}
    /\ stateLock \in Links \cup {"demuxer", None}
    /\ \A l \in Links : pump[l] = "absent" => pumpFd[l] = None /\ l \notin linkBuffer
    /\ pump \in [Links -> {"absent", "start", "wait", "transfer", "ended"}]
    /\ pumpFd \in [Links -> Conns \cup {None}]
    /\ linkBuffer \subseteq Links
    /\ input \in [Links -> {"construct", "allocate", "fetch"}]
    /\ main \in {"run", "cancel", "woken", "wait", "destroy", "gone", "killed"}

\* A pump transfers only with both resources, and only the connection whose
\* header named its link.
PumpHasOwnLink ==
    \A l \in Links :
        /\ pumpFd[l] # None => linkId[pumpFd[l]] = l /\ conn[pumpFd[l]] = "assigned"
        /\ PumpLocked(l) => pumpFd[l] # None /\ l \in linkBuffer

\* The last resource to arrive wakes the pump, whichever it is and wherever
\* the pump's thread was in between.
NoLostWakeup ==
    \A l \in Links : pump[l] = "wait" => pumpFd[l] = None \/ l \notin linkBuffer

\* The thread that holds Demuxer::stateLock, which every getLink needs, waits
\* for a pump in one case only: a second connection for a link in use.
StallOnlyByDuplicate ==
    /\ \A l \in Links : input[l] = "allocate" => ~PumpLocked(l)
    /\ demuxer = "assign" /\ PumpLocked(linkId[current])
         => \E c \in Conns \ {current} :
              conn[c] = "assigned" /\ linkId[c] = linkId[current]

\* Every header is complete and no two good ones name the same link.
Orderly ==
    \A c, d \in Conns :
        /\ header[c] # "short"
        /\ header[c] = "good" /\ header[d] = "good" /\ c # d
             => linkId[c] # linkId[d]

\* With orderly peers, every connection made before the demuxer is destroyed
\* reaches its pump or is refused for its header, and every input its link.
\* If cancel() returns, at once or by an answer, the destruction comes to its
\* end when all pumps have, whatever the demuxer is doing; but never while an
\* input's link has no connection: its pump waits for one, and ~FdPump for the
\* pump.
AllServed ==
    /\ Orderly =>
         /\ \A c \in Conns : (conn[c] = "queued")
                                ~> (conn[c] \in {"assigned", "refused"} \/ main # "run")
         /\ \A l \in Links : (input[l] = "construct") ~> (input[l] = "fetch")
    /\ (main = "wait" /\ \A l \in Links : pump[l] = "ended") ~> main = "gone"
    /\ [](main = "gone" => \A l \in Links : pumpFd[l] # None)

\* Destroying the demuxer does not end the process.
SurvivesDestruction == main # "killed"
============================================================================
