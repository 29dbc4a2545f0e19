---------------------------- MODULE ProcessLink ----------------------------
(***************************************************************************)
(* glstreamer::ProcessLink, the link between two processes: a ring of      *)
(* QueueSize shared-memory buffers governed by two named semaphores,       *)
(* emptyLeft and fullLeft.                                                 *)
(*                                                                         *)
(* Each process constructs its end with openResources.  The one that       *)
(* creates the semaphore NAME.init owns the link: it creates everything,   *)
(* posts NAME.init and waits on fullLeft until the other end has attached. *)
(* The other end takes NAME.init, opens the resources, validates what it   *)
(* finds and posts fullLeft.  Then the processes run: push takes an empty  *)
(* slot, serializes into the next buffer and posts fullLeft; fetch mirrors *)
(* it.  At the end ~ProcessLink unlinks the names of the owner.            *)
(*                                                                         *)
(* A named object is one of the five NAME.init, .empty, .full, .ctrl and   *)
(* .buf (all buffers together).  Serializing and deserializing take two    *)
(* steps, so that two ends working on one buffer show as a torn frame.     *)
(*                                                                         *)
(* The objects and their names outlive a process that is killed: no        *)
(* destructor runs, nothing is posted or unlinked.  Its program may be     *)
(* started again while the other end still runs, and finds what is left.   *)
(* An exception that no program catches ends a process in the same way.    *)
(***************************************************************************)
EXTENDS Integers, Sequences, FiniteSets

CONSTANTS
    QueueSize,   \* constructor argument: number of shared buffers
    NumFrames,   \* rounds of the two processes' loops (bounds a run)
    First,       \* the ends that may be the first to create NAME.init
    MaxKills     \* how often a process is killed (bounds a run)

Ends == {"producer", "consumer"}

\* What the owner creates after NAME.init, in openResources' order.
CreationOrder == <<"empty", "full", "ctrl", "buf">>

\* The first n of them.
Created(n) == {CreationOrder[k] : k \in 1..n}

Resources == Created(4)

Names == Resources \cup {"init"}

ASSUME ProcessLinkAssumption ==
    /\ QueueSize \in Nat \ {0}
    /\ NumFrames \in Nat
    /\ First \subseteq Ends /\ First # {}
    /\ MaxKills \in Nat

Other(p) == IF p = "producer" THEN "consumer" ELSE "producer"

Slots == 0..(QueueSize - 1)

Torn == -1

VARIABLES
    names,       \* the POSIX names that exist
    initSem,     \* value of NAME.init
    emptyLeft,   \* value of NAME.empty
    fullLeft,    \* value of NAME.full
    buffers,     \* the frame in each shared buffer (0: never written)
    compatible,  \* both ends were given the same type and queue size
    pc,          \* where each process is
    owner,       \* the ends whose PosixSem/PosixShm objects own their names
    currentBufferId,  \* each end's position in the ring
    pushed,      \* frames the producer has pushed
    fetched,     \* frames the consumer has fetched
    seen,        \* the last frame the consumer has deserialized
    kills,       \* processes killed so far
    casualties   \* who was killed: an "owner", also during the "handshake",
                 \* an "attacher" that had taken NAME.init and not yet told
                 \* the owner, an attached "peer"; not an end before that

shared == <<names, initSem, emptyLeft, fullLeft, buffers>>
counters == <<pushed, fetched, seen>>
fate == <<kills, casualties>>
vars == <<shared, compatible, pc, owner, currentBufferId, counters, fate>>

Init ==
    /\ names = {}
    /\ initSem = 0 /\ emptyLeft = 0 /\ fullLeft = 0
    /\ buffers = [i \in Slots |-> 0]
    /\ compatible \in BOOLEAN
    /\ pc = [p \in Ends |-> "start"]
    /\ owner = {}
    /\ currentBufferId = [p \in Ends |-> 0]
    /\ pushed = 0 /\ fetched = 0 /\ seen = 0
    /\ kills = 0 /\ casualties = {}

Goto(p, label) == pc' = [pc EXCEPT ![p] = label]

\* PosixSem::wait and post on one of the semaphores.
\* (fault) wait returns when a signal interrupts it.
WaitInterrupted(sem) == UNCHANGED sem

\* (fault) The semaphore is looked at and not taken.
WaitPeeks(sem) == sem > 0 /\ UNCHANGED sem

Wait(sem) == sem > 0 /\ sem' = sem - 1

\* (fault) post is repeated, or forgotten.
PostTwice(sem) == sem' = sem + 2

PostNothing(sem) == UNCHANGED sem

Post(sem) == sem' = sem + 1

\* (fault) Destructors leave the names behind.
UnlinkNothing(gone) == UNCHANGED names

\* The destructors of objects that own their names.
Unlink(gone) == names' = names \ gone

----------------------------------------------------------------------------
(* openResources *)

\* PosixSem initSem(NAME.init, true, 0) creates the semaphore ...
CreateInit(p) ==
    /\ pc[p] = "start"
    /\ "init" \notin names
    /\ p \in First \/ pc[Other(p)] # "start"
    /\ names' = names \cup {"init"}
    /\ initSem' = 0
    /\ owner' = owner \cup {p}
    /\ Goto(p, "create")
    /\ UNCHANGED <<emptyLeft, fullLeft, buffers, compatible, currentBufferId,
                   counters, fate>>

\* ... or finds that it exists ...
FindInit(p) ==
    /\ pc[p] = "start"
    /\ "init" \in names
    /\ Goto(p, "openInit")
    /\ UNCHANGED <<shared, compatible, owner, currentBufferId, counters, fate>>

\* ... and opens it: the constructor throws if it is gone by then.
OpenInit(p) ==
    /\ pc[p] = "openInit"
    /\ Goto(p, IF "init" \in names THEN "waitInit" ELSE "failed")
    /\ UNCHANGED <<shared, compatible, owner, currentBufferId, counters, fate>>

\* The owner creates semaphores, control block and buffers, and announces
\* them.
CreateResources(p) ==
    /\ pc[p] = "create"
    /\ names \cap Resources = {}
    /\ names' = names \cup Resources
    /\ emptyLeft' = QueueSize
    /\ fullLeft' = 0
    /\ buffers' = [i \in Slots |-> 0]
    /\ Post(initSem)
    /\ Goto(p, "waitFull")
    /\ UNCHANGED <<compatible, owner, currentBufferId, counters, fate>>

\* A name that exists already is a ResourceConflict: the constructor throws
\* and what was created so far, NAME.init included, is unlinked again.
CreateConflict(p) ==
    /\ pc[p] = "create"
    /\ names \cap Resources # {}
    /\ Unlink({"init"})
    /\ owner' = owner \ {p}
    /\ Goto(p, "failed")
    /\ UNCHANGED <<initSem, emptyLeft, fullLeft, buffers, compatible,
                   currentBufferId, counters, fate>>

\* fullLeft.wait(): the other end has attached.  Leaving openResources
\* destroys initSem and with it the name NAME.init.
OwnerAttached(p) ==
    /\ pc[p] = "waitFull"
    /\ Wait(fullLeft)
    /\ Unlink({"init"})
    /\ Goto(p, "loop")
    /\ UNCHANGED <<initSem, emptyLeft, buffers, compatible, owner,
                   currentBufferId, counters, fate>>

\* initSem.wait(): the owner's announcement is used up.
AwaitInit(p) ==
    /\ pc[p] = "waitInit"
    /\ Wait(initSem)
    /\ Goto(p, "attach")
    /\ UNCHANGED <<names, emptyLeft, fullLeft, buffers, compatible, owner,
                   currentBufferId, counters, fate>>

\* The resources can be opened, and the control block agrees with this end's
\* arguments.
Valid == Resources \subseteq names /\ compatible

\* fullLeft.post() tells the owner.
Attach(p) ==
    /\ pc[p] = "attach"
    /\ Valid
    /\ Post(fullLeft)
    /\ Goto(p, "loop")
    /\ UNCHANGED <<names, initSem, emptyLeft, buffers, compatible, owner,
                   currentBufferId, counters, fate>>

\* A resource is missing, or type, queue size or serialization differ: the
\* constructor throws.  The owner is not told.
AttachMismatch(p) ==
    /\ pc[p] = "attach"
    /\ ~Valid
    /\ Goto(p, "failed")
    /\ UNCHANGED <<shared, compatible, owner, currentBufferId, counters, fate>>

----------------------------------------------------------------------------
(* push and fetch *)

\* (fault) The ring is one buffer too short.
AdvanceShort(p) ==
    currentBufferId' = [currentBufferId EXCEPT ![p] = (@ + 1) % (QueueSize - 1)]

Advance(p) ==
    currentBufferId' = [currentBufferId EXCEPT ![p] = (@ + 1) % QueueSize]

\* push: emptyLeft is taken and serialization into the buffer starts ...
BeginPush ==
    /\ pc["producer"] = "loop"
    /\ pushed < NumFrames
    /\ Wait(emptyLeft)
    /\ buffers' = [buffers EXCEPT ![currentBufferId["producer"]] = Torn]
    /\ Goto("producer", "busy")
    /\ UNCHANGED <<names, initSem, fullLeft, compatible, owner,
                   currentBufferId, counters, fate>>

\* ... ends, and fullLeft is posted.
EndPush ==
    /\ pc["producer"] = "busy"
    /\ buffers' = [buffers EXCEPT ![currentBufferId["producer"]] = pushed + 1]
    /\ Post(fullLeft)
    /\ pushed' = pushed + 1
    /\ Advance("producer")
    /\ Goto("producer", "loop")
    /\ UNCHANGED <<names, initSem, emptyLeft, compatible, owner, fetched, seen, fate>>

\* fetch: fullLeft is taken and deserialization starts ...
BeginFetch ==
    /\ pc["consumer"] = "loop"
    /\ fetched < NumFrames
    /\ Wait(fullLeft)
    /\ fetched' = fetched + 1
    /\ Goto("consumer", "busy")
    /\ UNCHANGED <<names, initSem, emptyLeft, buffers, compatible, owner,
                   currentBufferId, pushed, seen, fate>>

\* ... ends, and emptyLeft is posted.
EndFetch ==
    /\ pc["consumer"] = "busy"
    /\ seen' = buffers[currentBufferId["consumer"]]
    /\ Post(emptyLeft)
    /\ Advance("consumer")
    /\ Goto("consumer", "loop")
    /\ UNCHANGED <<names, initSem, fullLeft, buffers, compatible, owner,
                   pushed, fetched, fate>>

\* ~ProcessLink after the last round: the owner's objects unlink their names.
Destroy(p) ==
    /\ pc[p] = "loop"
    /\ (IF p = "producer" THEN pushed ELSE fetched) = NumFrames
    /\ Unlink(IF p \in owner THEN Resources ELSE {})
    /\ owner' = owner \ {p}
    /\ Goto(p, "gone")
    /\ UNCHANGED <<initSem, emptyLeft, fullLeft, buffers, compatible,
                   currentBufferId, counters, fate>>

----------------------------------------------------------------------------

\* The process dies without running a destructor: what it owned stays.  Dying
\* between two creations leaves the first ones.
Kill(p) ==
    /\ kills < MaxKills
    /\ pc[p] \notin {"start", "failed", "gone", "killed"}
    /\ \E n \in IF pc[p] = "create" THEN 0..4 ELSE {0} :
         /\ Created(n) \cap names = {} \/ n = 0
         /\ names' = names \cup Created(n)
    /\ Goto(p, "killed")
    /\ owner' = owner \ {p}
    /\ kills' = kills + 1
    /\ casualties' = casualties \cup
         (IF pc[p] = "waitFull" THEN {"owner", "handshake"}
          ELSE IF p \in owner THEN {"owner"}
          ELSE IF pc[p] = "attach" THEN {"attacher"}
          ELSE IF pc[p] \in {"loop", "busy"} THEN {"peer"} ELSE {})
    /\ UNCHANGED <<initSem, emptyLeft, fullLeft, buffers, compatible,
                   currentBufferId, counters>>

\* The program of the process is started again: a new ProcessLink object.
Restart(p) ==
    /\ pc[p] = "killed"
    /\ Goto(p, "start")
    /\ currentBufferId' = [currentBufferId EXCEPT ![p] = 0]
    /\ IF p = "producer" THEN pushed' = 0 /\ UNCHANGED <<fetched, seen>>
       ELSE fetched' = 0 /\ seen' = 0 /\ UNCHANGED pushed
    /\ UNCHANGED <<shared, compatible, owner, fate>>

----------------------------------------------------------------------------

Open(p) ==
    \/ CreateInit(p) \/ FindInit(p) \/ OpenInit(p)
    \/ CreateResources(p) \/ CreateConflict(p) \/ OwnerAttached(p)
    \/ AwaitInit(p) \/ Attach(p) \/ AttachMismatch(p)

Produce == Open("producer") \/ BeginPush \/ EndPush \/ Destroy("producer")
Consume == Open("consumer") \/ BeginFetch \/ EndFetch \/ Destroy("consumer")

Next == Produce \/ Consume \/ \E p \in Ends : Kill(p) \/ Restart(p)

Spec == Init /\ [][Next]_vars

\* Both processes run whenever they can; nobody has to be killed or started
\* again.
FairSpec == Spec /\ WF_vars(Produce) /\ WF_vars(Consume)

----------------------------------------------------------------------------
(* Properties. *)

TypeOK ==
    /\ names \subseteq Names
    /\ initSem \in 0..1
    /\ {emptyLeft, fullLeft} \subseteq 0..(QueueSize + 1)
    /\ buffers \in [Slots -> Torn..NumFrames]
    /\ compatible \in BOOLEAN
    /\ pc \in [Ends -> {"start", "create", "waitFull", "openInit", "waitInit",
                        "attach", "failed", "loop", "busy", "gone", "killed"}]
    /\ owner \subseteq Ends
    /\ currentBufferId \in [Ends -> Slots]
    /\ {pushed, fetched} \subseteq 0..NumFrames
    /\ seen \in Torn..NumFrames
    /\ kills \in 0..MaxKills
    /\ casualties \subseteq {"owner", "handshake", "attacher", "peer"}

\* Every fetch yields the next pushed frame: no frame is skipped, repeated,
\* read before it is pushed or overwritten while it is read.
InOrder ==
    seen = IF pc["consumer"] = "busy" THEN fetched - 1 ELSE fetched

\* A deserialization has begun and not ended, be it that the consumer was
\* killed in it.
Reading == IF fetched > seen THEN 1 ELSE 0

\* What the consumer deserializes is the next frame, complete, whoever is
\* killed at whatever moment: never a buffer the producer works on or died
\* in.  Only a consumer that is started again and opens the remains of an owner
\* killed in the handshake takes its own post for a frame, once, and reads a
\* buffer nobody has written.
FramesGenuine ==
    IF "handshake" \in casualties /\ pc["consumer"] \in {"loop", "busy"}
    THEN fetched <= 1 /\ seen = 0
    ELSE seen = fetched - Reading

\* The owner has announced the link and not been told that the other end has
\* attached: for ever, if that end is killed in between.
Unanswered ==
    initSem = 1 \/ "attacher" \in casualties \/ \E p \in Ends : pc[p] = "attach"

\* The post by which an attaching end tells the owner, while it is unused: for
\* ever, if the owner is killed before it takes it.
HandshakePending ==
    /\ compatible /\ ~Unanswered
    /\ (\E p \in owner : pc[p] = "waitFull") \/ "handshake" \in casualties

Busy(p) == IF pc[p] = "busy" THEN 1 ELSE 0

\* Once both ends are attached, each buffer is counted exactly once: as
\* empty, as full, or in the hands of one end.
BuffersAccounted ==
    (\A p \in Ends : pc[p] \in {"loop", "busy", "gone"})
        \/ (HandshakePending /\ casualties = {}) =>
        emptyLeft + fullLeft + Busy("producer") + Busy("consumer")
            = QueueSize + (IF HandshakePending THEN 1 ELSE 0)

\* An end exchanges frames only with a live peer that was given the same type
\* and queue size.  Once an end has been killed the ring has at most one user:
\* a program that is started again never joins a peer that still runs, with
\* whose position in the ring its own would not agree.  And when an attaching
\* end was killed between taking NAME.init and telling the owner, no end comes
\* to its loop any more, however often the programs are started again: the
\* announcement is used up and fullLeft is never posted.
OnlyWithPeer ==
    \A p \in Ends : pc[p] \in {"loop", "busy"} =>
        /\ compatible
        /\ "attacher" \notin casualties
        /\ pc[Other(p)] \in IF casualties = {}
                            THEN {"waitFull", "loop", "busy", "gone"}
                            ELSE {"start", "create", "waitFull", "openInit",
                                  "waitInit", "failed", "gone", "killed"}

\* What the two ends leave behind when neither runs any more: nothing, also
\* after a conflict, unless an owner was killed; and then something, however
\* often the programs are started again.
NamesRemoved ==
    (\A p \in Ends : pc[p] \in {"start", "failed", "gone", "killed"}) =>
        (names # {} <=> "owner" \in casualties)

\* With matching arguments every frame arrives and both processes come to
\* their end, unless an end is killed that owns the link, is attached to it or
\* has taken NAME.init to attach.  An end killed before that is replaced by
\* starting it again.
AllDelivered ==
    compatible =>
        \/ <>(seen = NumFrames /\ \A p \in Ends : pc[p] = "gone")
        \/ <>(casualties # {})
        \/ <>[](\E p \in Ends : pc[p] = "killed")

----------------------------------------------------------------------------
(* The link is a bounded queue. *)

QueueLength == fullLeft - (IF HandshakePending THEN 1 ELSE 0)

Queue ==
    [k \in 1..QueueLength |->
        buffers[(currentBufferId["consumer"] + Reading + k - 1) % QueueSize]]

BQ == INSTANCE BoundedQueue WITH
        Capacity <- QueueSize,
        queue <- Queue,
        held <- IF Reading = 1 THEN buffers[currentBufferId["consumer"]] ELSE seen

\* An end that had a part in the link has been started again.
Reused ==
    /\ casualties # {}
    /\ kills > Cardinality({p \in Ends : pc[p] = "killed"})

\* Opening, serializing and closing are invisible at the two ends; what
\* remains is a bounded queue of QueueSize frames, also when an end is killed:
\* a frame half written never arrives and a frame once pushed stays in its
\* place.  An end that is started again afterwards counts its frames anew.
ImplementsQueue == BQ!Init /\ [][BQ!Next \/ Reused']_(BQ!vars)
============================================================================
