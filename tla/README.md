# GLStreamer in TLA+

GLStreamer is a C++ library for parallel rendering. A program is a graph of
*processors* whose output slots are joined to other processors' input slots by
*links*; the processors may sit in one thread, in several threads, in several
processes or on several hosts. This directory holds a model of that machinery:
TLA+ modules translated from the code in `src/src`, TLC configurations that check
them on small instances, and proofs that TLAPS checks for every instance.

Paths below are relative to `src/src`.

## 1. The system

### Components

| Component | State | Operations | What makes it correct |
|---|---|---|---|
| Processor, ArgBlock, ThreadBlock, LinkBlock (`processor.h`, `argblock.h`, `ThreadBlock.cpp`) | slots with a pointer to an argument and to a link; processors in execution order | `execute` = `fetchArgs`, `run`, `pushArgs` slot by slot; `ThreadBlock::execute` one processor after the other | inputs of one `run` belong to one round; no cycle of waiting |
| InternalSingleLink | one argument shared by two slots | `push`, `fetch` do nothing | the order of the processors in the block |
| ThreadedLink (`threadedlink.cpp`) | ring of argument buffers, two positions, `currentSize`, one mutex, two condition variables | `push`, `fetch` | lent buffers differ; no lost wake-up; a FIFO |
| ProcessLink (`processlink.cpp`) | ring of shared-memory buffers, five POSIX names, two semaphores, one position per process | `openResources` on both sides, `push`, `fetch`, `~ProcessLink` | a FIFO between processes; opening pairs exactly two matching ends; names are removed |
| PosixShm and its streams (`posixshm*.cpp`) | object size, length word, one mapping per process, stream capacity and position | map, resize, `reserve`, `expand`, `writeData`, `readData` | accesses stay inside mapping and object |
| LinkBuffer (`linkbuffer.h`) | ring of byte vectors, two semaphores, a lent buffer | `getEmpty`, `putFull`, `getFull`, `putEmpty` | as ThreadedLink, for one filler and one drainer |
| SocketLinkOutput + FdFiller | LinkBuffer, a thread, a socket | `push`; connect, header, type name, frames; end marker and close | every frame arrives once; closing flushes |
| FdPump + SocketLinkInput | LinkBuffer, a thread, a socket | header checks, frames, answers; `fetch` | the two sides never misread the stream |
| Demuxer (`demuxer.cpp`) | map of pumps, two levels of locks, accept thread | `getLink`, accept loop, `assignLink`, destruction | each connection reaches its own link's pump; the lock is not held up |
| CancellableThread | two atomic bits, two mutexes, a condition variable, a signal | `cancel`; `enter/leave_syscall`, `check_cancel` | a cancellation is neither lost nor invented; the thread ends |
| Splitters, composer, renderers (`gl/`) | viewports, ranges, frames, textures | `split`, `makeGrid`, `makeEvenSplit`, `draw`, compose | the composed picture is the undivided one |
| GLThread and the programs' main functions (`gl/GLThread.h`, `tests/`) | threads, context bindings, a start-up barrier each and one barrier of the program; links made and destroyed | constructor, `run`, `join`; `LinkBlock` | no slot refers to a link that is gone, no link to a processor that is gone; the program ends |
| TypeManager, TypeSpecs, ProcessorManager, plugins, memory streams | registries filled at start-up; none | registration, conversion | not concurrent |
| Shaders, windows, contexts, shadow renderers | OpenGL and X11 objects | calls into those libraries | not a matter of this code |

### Interactions

- A processor calls `Link::fetch` and `Link::push` of whatever link its slot has;
  the link redirects the slot's `arg` pointer (ThreadedLink) or copies through
  serialization (ProcessLink, SocketLink).
- ThreadedLink shares memory between two threads under one mutex. The buffers
  themselves are used by `run()` *without* the mutex.
- ProcessLink shares memory between two processes under two named semaphores.
- A SocketLink has four threads: producer, FdFiller, FdPump, consumer. Filler and
  pump alternate over one TCP connection, and each shares a LinkBuffer with its
  processor's thread.
- The Demuxer's thread and the threads that construct `SocketLinkInput`s meet at
  the map of pumps. The Demuxer's is a CancellableThread, cancelled by the thread
  that destroys the demuxer. An FdPump is a plain `std::thread`, which `~FdPump`
  ends by shutting its socket down and joining it.
- The main thread of a rendering program hands viewports and ranges to the
  renderers' threads over ThreadedLinks and gets frames back.

### What is hard here

Unlocked use of lent buffers; notifications at one count only; a semaphore that
serves as handshake and as frame count; names and half-written buffers that survive a killed process;
objects of one thread that another thread's link constructor and destructor
write to, kept alive by barriers alone; mappings that outlive an object's size; a byte stream without boundaries; two
locks held across a whole transfer; signals that race system calls; truncated
products of rounded fractions computed in different threads. `PROJECT.json`
lists these at their lines under `hazards`, with the properties that cover each.

## 2. Modules

Layers, with what is shown between them:

    BoundedQueue            what any link promises
      ^ refinement  ^              ^
    ThreadedLink  ProcessLink   SocketLink   (uses LinkBuffer twice)
                      |             |
                  ShmStream      Demuxer  --  CancellableThread
      (contents of one buffer)  (life of pumps)  (how threads are stopped)

    Pipeline          loops of whole programs, a link being the bounded queue above
      ^ EXTENDS
    Program           the threads' lives around the loops: GLThread, barriers, links
      ^ instantiated with
    SamplePrograms    main functions of the tests  <-  ProcessorClasses  (slots)

    SplitRendering    what flows through a rendering program

Every `MCx.tla` instantiates module `x` for TLC and explains its bounds.
Definitions marked `\* (fault)` are mutated forms of the definition below them,
as a plausible bug would have it; nothing uses them except the mutants in
`PROJECT.json`, which put one in place of its original to see that a property
notices.

**BoundedQueue** (`link.h`): frames are numbers in order of their pushes, `held`
is the frame the consuming slot refers to. `Push` and `Fetch` are the two
virtual functions of `Link`.

**ThreadedLink**: variables carry the members' names. `Push` and `Fetch` are the
locked regions, `PushWait`/`FetchWait` the waits on the condition variables,
`SpuriousPush`/`SpuriousFetch` wake-ups without a notification. `run()` of each
processor takes two steps on the lent buffer, which is `Torn` in between: two
threads on one buffer would be seen. `ImplementsQueue` maps the ring to a queue
of `QueueSize - 2` frames, with fairness.

**ProcessLink**: the process that creates `NAME.init` owns the link
(`CreateInit`, `CreateResources`, `OwnerAttached`, and `CreateConflict` when the
name of a killed run is in the way); the other attaches (`FindInit`, `OpenInit`;
`AwaitInit` takes `NAME.init`; `Attach` validates what it finds and tells the owner
by `fullLeft`, `AttachMismatch` throws instead). `BeginPush` .. `EndFetch` take and
post the semaphores around the (de)serialization. `Kill` ends a process at any
moment without a destructor: names, counts and buffers stay as they are, and
`Restart` begins its program again while the other end still runs. `MaxKills`
bounds the kills; `casualties` is a history of who was killed. An end killed
between `AwaitInit` and `Attach` is an `"attacher"`: it has used up the owner's
announcement and told nobody, so the owner waits on `fullLeft` and the end started
again waits on `NAME.init`, both for ever. `OnlyWithPeer` says that neither of the two gets into its loop, and `AllDelivered` makes the
exception. `First` says which ends may be the first
to open: with both, the handshake race below appears, so the main run has the
consumer first and a run of its own shows the race.

**ShmStream**: one buffer of a ProcessLink over a sequence of frames, in units of
the 4-byte length word. The writer resizes down, reserves by doubling, expands
and advances the length word; the reader keeps its first mapping for ever, as
`PosixShm::map` does. `Outcome` is what the operating system and `readData` make
of an access.

**LinkBuffer** is a module of operators on a buffer record, without state.
**SocketLink** holds two of them, the four threads, the messages under way in
either direction, and the kind of peer. A message carries a label of what its
writer means by it; the reader decides by *its own* place in the protocol, and
`Lockstep` says that the two always agree. Either process may be killed
(`KillSender`, `KillReceiver`): its kernel closes the connection and what was
under way may be cut off, so the pump meets the end of the stream inside a frame
(`FillerEOF` and `PumpSigpipe` are the survivors' ends).

**Demuxer**: the accept loop, `getLink`, both mutexes, pump creation by whoever
is first, and destruction up to the last `~FdPump`. Destruction begins with
`cancel()`, which returns when the thread has answered (`CancelAnswered`) or
spuriously (`CancelWoken`) and may miss the answer and wait for ever, which is
finding 2 below; `AllServed` promises the end of the destruction only if `cancel()`
returns at once or by an answer (after a spurious return no further signal comes, and
a thread whose only signal came too early stays in its call). The transfer inside a pump is one state here. The headers
of the connections (good, bad, cut off) and their link ids are chosen initially.

**CancellableThread**: `cancel()` is `Mark`, `Lock`, `Kill`, the wait with its
timeout, and `Return`; the target goes through `enter_syscall`, the blocking
call, `check_cancel` and `leave_syscall`. The two bits change by single atomic
steps, everything else interleaves. Signals stay pending until delivered.

**Pipeline**: a program is a constant record (blocks of processors per thread,
order of opening, links of the slots, capacities, who makes each link). Each slot
with a link between threads is one step of `fetchArgs`/`pushArgs`; an
InternalSingleLink (capacity 0), whose `push` and `fetch` do nothing, is passed in
the step the loop makes at the next slot (`Past`, `Due`). A frame is the set of
source rounds it was computed from, so that mixed rounds show. Links are the
bounded queues of section 4. The handshake race of ProcessLink is left out here: a
link that has been opened is a queue. `PipelineAssumption` says what a program is:
every processor is in one block (`Placed`), every link joins one output slot and
one input slot (`Joined`), an InternalSingleLink leads to a later processor of its
own thread, and of GLThreads' links those between threads are made by the main
thread (`Local`), and a process opens the ProcessLinks of its own slots, each once
(`Paired`).

**Program** puts those loops between the stages of a program's threads. The main
thread constructs the GLThreads one by one and waits at each one's `initBarrier`;
then `set_up`, `link`, `loop`, `unlink`, `leave` are separated by the program's
barrier, which `Release` opens when all wait. A GLThread may fail while binding
its context or by an exception later (`Fail`); `GLThread::run` catches it and the
thread ends. `linked` is the set of links that exist; `NoDangling` relates it to
the life of the processors at both ends.

**ProcessorClasses** gives the slots each processor's constructor declares, in
declaration order, with their types, and what the links' constructors refuse.
**SamplePrograms** translates main functions of `tests/`: `case2-test.cpp`,
`processlink_provider.cpp` with `processlink_consumer.cpp`, `deadlock.cpp`,
`sort-first-simple.cpp`, `sort-last.cpp`, `shadow.cpp`. (`deadlock.cpp` itself only
makes its links, in opposite orders; the rounds its processors would run if that
came to an end are the model's addition.) The assumption `LinksAccepted` has TLC check that each program joins
slots of one type, by names that exist, and leaves none without a link.

**SplitRendering**: the tests `sort-first` and `sort-last`. Fractions of doubles
are modelled by what truncation makes of them: `low` is *any* set of those
products which are whole numbers in exact arithmetic but computed from a rounded
fraction, and each product in it comes out one less. A scene has several meshes,
and a range cuts *each* of them (`Drawn`): in sort-last a renderer draws a slice of
every mesh. Renderers draw opaque triangles, mesh by mesh (`Before`), with a depth
test into frames of their viewport's size. `Compose` is the
composer's fetching and clearing, `DrawFrame` one turn of its loop, which lays a
frame over its output by position (sort-first) or by depth (sort-last): `Quad` is
the rectangle the frame is drawn on, `Place` where in it a pixel of the output lies,
`Texel` what the frame shows there, `Unclipped` what `glOrtho` lets through. The
canvas lies anywhere (`Origins`, pairs of ints). The sum of a position and a size is
an unsigned (`Edge`, modulo `Word`, which stands for 2^32).

`PictureComplete` compares the composed picture with the one a single renderer
draws, pixel by pixel, and names where the two differ:
- in sort-last, of two triangles equally near but in different meshes the one in the
  earlier *part* is shown, and the single renderer shows the one in the earlier
  *mesh* (`Like`);
- the frames' positions contain the canvas' x and y, and the composer's `glViewport`
  adds them again: the picture is moved by twice the canvas' position (`Displaced`);
- a frame whose right or upper edge is negative is spread over the whole output,
  because the edge wraps (`Stretched`); of a picture with such a frame nothing but
  its size is claimed.

Every program of the repository has its canvas at the origin, where only the first
exists. Colours, transparency and textures are abstracted to "which triangle, which
point of the scene, how deep".

## 3. Runs

All runs except the first set `CHECK_DEADLOCK FALSE`: the programs end there, or
a peer that never comes leaves threads waiting, as in the code. What *must not*
get stuck is stated by the liveness properties instead. (`MCThreadedLink` has an
explicit final stuttering step and is checked for deadlock.)

| Run | Question | Bounds, and why they suffice |
|---|---|---|
| `threaded_link` | Do two threads ever work on one buffer, lose a wake-up or a frame? Is the ring a bounded queue? | 4 buffers, the fewest where the notification thresholds differ from "not empty"/"not full"; 7 frames go round the ring almost twice. The theorems lift the bounds. |
| `process_link` | The same between processes, plus mismatching ends, closing, and either process killed at any moment and started again: who may meet whom, what is left behind, which frames still arrive | 3 buffers and 5 frames as in the tests; 2 kills: an owner dies between announcing and being found, and one of those who compete for its remains in turn. The theorems lift these bounds. |
| `process_link_race` | ... if either end may open first | expected violation |
| `socket_link` | Are the two rings and the connection one queue? Do the sides stay in step? Does closing flush? | rings of 2 and 3, 7 frames: more than both hold, round each at least twice; all kinds of peer; each process killed at any moment |
| `cancellable_thread` | Is a cancellation ever lost or invented, and does the target end? | 2 cancellers, so that they meet at each mutex |
| `cancel_hangs` | Does `cancel()` return? | expected violation |
| `demuxer` | Is every connection served by its own pump, is every pump woken, who can hold up the lock, does destruction end once `cancel()` has returned? | 2 links, 3 connections, all assignments of ids and headers |
| `demuxer_shutdown` | Does destroying the demuxer leave the process alive? | expected violation |
| `shm_stream` | Do accesses stay inside mapping and object, does enlarging end, can frames be read? | pages of 4 units, frames up to 10: two doublings, all ways to cut a frame into pieces, three frames |
| `shm_mapping` | Can every frame that was written be read? | expected violation |
| `program` | Do frames stay aligned, do programs start and end, does a failing GLThread stop them, does a slot or a link ever dangle? | six programs of the tests, 3 rounds, which fill the queues; every GLThread may fail at every moment |
| `split_rendering` | Is the picture complete under any truncation? When does a renderer fail? | canvases smaller than, equal to and not divisible by the grid; grids of 2, 3 and 2x2 parts; canvases of 3x2 and 6x4; meshes of 1 and 3 triangles, at 2 depths or out of sight: ties within a mesh and between meshes, in either order of the parts; 2 rounds with changing canvas, at the origin and at (-2, 1), where edges are negative (`Word` is 16) |

### Fairness

Each thread or process is weakly fair: it is scheduled while it can run. TCP
delivers what was sent. Strong fairness is assumed where a thread waits for a
*mutex* that others take and release again and again: the target's lock of
`mutex_inprogress` (CancellableThread) and `Demuxer::stateLock`. POSIX does not
promise that, every implementation of a mutex in use does in the sense needed
here. Nothing is assumed to make a spurious wake-up happen, a system call
complete, a transfer end, anybody answer `~Demuxer`'s `cancel()`, anybody call `cancel()` or begin a destruction, or
anybody be killed, fail or be started again; where a run may end early by a kill
or a failure, the liveness property says so and what holds instead. A program's
barrier opens once all threads wait at it. Safety needs none of this;
`SplitRendering` states no liveness and has no fairness.

### Disagreements found

Each is an expected violation with a counterexample; details and quoted lines are
in `PROJECT.json` under `findings`.

1. **Handshake token taken for a frame** (`process_link_race`). If the producer
   opens first, the attaching consumer posts `fullLeft` for the waiting owner
   (`processlink.cpp:224`) and may take it itself in its first `fetch`.
2. **`cancel()` need not return** (`cancel_hangs`). The answer is a notification
   without a predicate; if it comes before the wait, no second one follows.
3. **SIGPIPE at shutdown** (`demuxer_shutdown`). The pump answers the end of a
   stream on a socket its own process has shut down (`fdpump.cpp:135`).
4. **Reads outside the mapping** (`shm_mapping`). `map()` returns the existing
   mapping (`posixshm.cpp:108`), which covers only the size the object had then;
   `readData` checks against the length word in the object.

One more was found by reading: `ThreadedLink` accepts a queue size below 3, for
which `push` never returns. `ThreadedLinkAssumption` excludes it.

## 4. Proofs

All theorems hold for every value of the constants under the named assumption of
the module (queue sizes and bounds are naturals, a ThreadedLink has at least
three buffers, ids are not the string "none", page and initial size are
positive, programs, canvases and grids are what section 2 says). In each module the argument is *initial states satisfy `IInv`, every
step keeps it, and it implies the property*.

- **ThreadedLinkProofs.** `TypeCorrect`, `BuffersAreExclusive`, `DeliveryInOrder`,
  `WakeupsNotLost`, and `RefinesBoundedQueue` (safety part). None of these is
  inductive: that positions differ depends on `currentSize`. `IndicesAgree` says
  that the producer's position is `currentSize - 1` after the consumer's, modulo
  the ring; `FramesInRing` gives the frame in each position between. The lemmas
  `Wrap`, `RingIs`, `RingInjective` reduce the modulus to a case distinction.
  `FramesConsecutive`, about BoundedQueue with any capacity and any number of
  frames: held and queued frames are consecutive. Every link that implements
  BoundedQueue is thereby FIFO, without loss or repetition.
- **CancellableThreadProofs.** `TypeCorrect`, `CancellationNotLost`,
  `NoCancelWithoutCause`, `AnswersAreReal`, for any set of cancellers. The
  strengthening says why the mark or a canceller must have caused each state of
  the target, and that an answered target stays out of its call.
- **DemuxerProofs.** `TypeCorrect`, `PumpsKeepTheirLinks`, `WakeupsNotLost`,
  `OnlyDuplicatesStall`, for any sets of links and connections. The strengthening
  relates the holder of each lock to where the threads are.
- **ShmStreamProofs.** `TypeCorrect`, `WritesStayMapped`, `OnlyGrowthFaults`, for
  any page size, initial size and frame length. The strengthening says that
  object, mapping and capacity agree whenever the writer is not in the middle of
  enlarging, and that the length word is what has been written.
- **ProcessLinkProofs.** `TypeCorrect`, `NamesAreRemoved`, `OnlyOwnPeer`,
  `BuffersAreAccounted`: whichever end opens first, and for any number of kills
  and restarts. That buffers are accounted for says nothing about the moment
  before the second end arrives, so it is not inductive. The strengthening says
  which names belong to whom (`Ownership`), that names nobody owns any more are
  left for ever and keep newcomers from creating theirs (`Remains`), that
  `NAME.init` is 1 only while nothing has happened in the ring (`Announced`), and
  who may be where meanwhile (`Peers`), also after an attaching end was killed
  (`Unanswered`, `Attached`). `Accounts` then counts the buffers.
  `FramesAreGenuine` has the hypothesis that the consumer opens first
  (`First = {"consumer"}`; otherwise the handshake race refutes it). On top of the
  above: until an owner is killed the consumer owns the link; the buffers from its
  position on hold the next frames in order and the producer's position is behind
  them (`FramesInRing`); a consumer that opens the remains of a killed owner finds
  no frame (`OpensRemains`). `AtIs`, `AtNext`, `AtApart` are the arithmetic of
  positions. `RefinesBoundedQueue`, under the same hypothesis: the link is a
  BoundedQueue (`ImplementsQueue`) until an end that had a part in it is killed and
  started again, which begins its count anew. `QInv` relates the semaphores, the
  position and the half-done steps of each end to the frames in the queue.
- **SocketLinkProofs.** `TypeCorrect`, `TurnsTaken` (`Lockstep`), `NoForeignFrame`
  (`TypesSeparated`), `Flushed` (`FlushedOnClose`), the action property `InOrder`
  (`NextFrame`) and `RefinesBoundedQueue` (`ImplementsQueue`), for any sizes of the two
  rings, any number of frames, all kinds of peer, and kills at any moment. The
  first half are lemmas about LinkBuffer: what `getEmpty`, `putFull`, `getFull` and
  `putEmpty` do to the sequence of full buffers (`Pending`) when semaphores and
  positions agree (`RingOK`). The invariant then has a part for each side
  (`SenderSide`, `ReceiverSide`: which frames its ring holds), one for what the
  filler knows of the receiver's count (`Counts`), and one for where the pump can
  be when the filler waits for it (`Turns`): each message under way is the one its
  reader's state asks for. The refinement counts the frames from the oldest to
  the newest one in either ring or under way; a kill takes frames from one end of
  this queue, and those that are left stay complete and in order.
- **ProgramProofs.** For any program that satisfies `PipelineAssumption`, with any
  numbers of threads, processors, slots and links. `TypeCorrect`; `Alignment`
  (`Aligned`): frames of different rounds never meet in one `run`, whatever the
  capacities and paths; `NothingDangles` (`NoDangling`); `FailureIsFinal`: after a
  GLThread has failed the program does not come to its end; `DisorderNeverEnds`:
  nor does one whose processes open their ProcessLinks in contradictory orders, as
  in `deadlock.cpp`. These two are the safety part of `AllDone`.
  The invariant counts how often each slot has been passed (`Fetched`, `Pushed`):
  the queue of a link holds exactly the frames between the two counts of its ends,
  and a slot refers to the frame of its count; an InternalSingleLink is always up
  to date because it leads forward in its block. `Starting`, `Linking`, `Looping`,
  `Unlinking` and `Leaving` are the stages the threads can be in together, and the
  links that exist in each. For `DisorderNeverEnds` the links are ranked in the
  order in which they found their second ends (`Ranked`): an end that waits has
  opened what comes before, so when all are open the ranks are an order in which
  every process opens its links. `LinksAreBoundedQueues` closes the composition:
  every link of a program but the InternalSingleLinks is used as BoundedQueue says
  (`Link!Spec`), so that a link may stand there which implements it.
- **SplitRenderingProofs.** `TypeCorrect`, `PictureIsComplete`
  (`PictureComplete`) and `OnlyTinyFail` (`FailsOnlyTiny`), for canvases, grids and
  scenes of every size and any set of products that truncation gets wrong. The
  lemmas bound a truncated product (at most one below the exact one, monotonous,
  the whole for the last part) and show that the parts' edges cover every pixel
  (`TruncCovers`) and that in sort-last a mesh's slices follow each other and make up
  the mesh (`Slices`, `SliceEnds`). A pixel is then said to show *a* nearest triangle
  of a set and the first such one of its mesh (`Leads`), which is what laying frames
  over each other by depth preserves (`LeadsBoth`) and implies `PictureComplete`
  (`LeadsLike`); in sort-first every frame shows all triangles and the pictures are
  equal. `QuadIs` and `NotClipped` are the modular arithmetic of the frames' edges:
  unless an edge is negative the quad is as large as the frame. The invariant says
  what the output shows at a pixel after k frames (`Shows`); the step is one turn of
  the composer's loop. The theorem claims what section 2 says `PictureComplete`
  claims, no more: ties between meshes, the displacement and wrapped edges are
  exceptions in its statement.

Assumptions are those the modules name (`ThreadedLinkAssumption` ..
`SplitRenderingAssumption`), and `TheLinkAssumption`, which makes `TheLink` any
link of any program that is no InternalSingleLink.

Only model-checked: liveness (fairness and ENABLED are out of the prover's
reach), hence the fair part of ThreadedLink's refinement and the part of `AllDone`
that says when a program does end; and the expected violations, which are
counterexamples.

## 5. What is not modelled

- TypeManager, ProcessorManager, plugins: filled at start-up by one thread.
- Memory streams, TypeSpecs: stateless conversions; frames are equal or not.
- Corrupt data headers on the wire (`errMagic`, `errCrc`, `errSize`), a
  deserializer that throws: no peer of this code base sends such data. A host
  that vanishes without closing its connections: nobody is ever told, and both
  sides wait as long as TCP does.
- A sender that is started again: its new connection is one more for a link that
  has a pump, which is the duplicate of the Demuxer model.
- Exceptions in a program's main thread, which end the process, and the
  destruction of a posixpp barrier while threads may still be leaving it: the
  library is external.
- What `run()` computes. It is taken to overwrite its outputs; `Reader` and
  `Caster` of `case2-test.cpp`, which append to theirs, do not care about frames.
- Dispatcher and `spliter-test.cpp`, its only user; what the shadow renderers draw
  (their slots and their program are modelled).
- An InternalSingleLink to an earlier processor or to itself, which hands on the
  frame of the round before: no program of the repository has one.
- Sizes near 2^32 (length words, widths and heights are small; of positions only
  the wrap of a negative edge is modelled); descriptors.
- Windows, contexts, shaders: calls into libraries.

## 6. Plan

Most important first; all done but the last.

1. BoundedQueue, ThreadedLink: the link every threaded program uses; full proof.
2. ProcessLink: opening, exchange, closing; kills and restarts; proofs of its
   safety and of the safety part of its refinement.
3. LinkBuffer, SocketLink: wire protocol, two rings, kills; full proof.
4. CancellableThread, Demuxer: stopping threads, life of pumps; proofs.
5. ShmStream: mappings and sizes; proofs.
6. Pipeline, Program: several slots, processors, threads; GLThread and barriers;
   proofs, and that its links are used as the queues they implement.
7. SplitRendering: splitting, drawing, composing; full proof.
8. Open: that a canceller's wait and the target's system
   calls implement a one-shot "cancelled / ended" specification; a single renderer
   as the abstract specification of SplitRendering (now the invariant
   `PictureComplete`).

Abstract specification: BoundedQueue, for all links and for their use by programs.
