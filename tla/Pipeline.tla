------------------------------ MODULE Pipeline ------------------------------
(***************************************************************************)
(* The processing loops of a GLStreamer program: processors, grouped in    *)
(* threads or processes (ThreadBlock), joined by links.  Each thread first *)
(* opens its ProcessLinks, in the order in which it constructs them, and   *)
(* then executes its processors one after the other, round after round:    *)
(* fetchArgs goes through the input slots, run() computes the output       *)
(* arguments, pushArgs goes through the output slots.  Program puts the    *)
(* loops into the life of the program's threads.                           *)
(*                                                                         *)
(* A ThreadedLink, ProcessLink or SocketLink is the bounded queue it is    *)
(* shown to implement in its own module; an InternalSingleLink is one      *)
(* argument that both slots refer to: its push and fetch do nothing, and   *)
(* the loops over the slots pass it in the step they make at the next one. *)
(*                                                                         *)
(* A frame is represented by the rounds of the sources it was computed     *)
(* from, so that a frame made of inputs that do not belong together shows. *)
(***************************************************************************)
EXTENDS Integers, Sequences, FiniteSets, Functions

CONSTANTS
    Programs,  \* the programs, by name: records as described below
    Rounds     \* how often each thread executes its block (bounds a run)

(***************************************************************************)
(* A program has the fields                                                *)
(*   glThreads  whether its threads are GLThreads of one process; else each *)
(*              is a process of its own                                    *)
(*   block      for each thread, its processors in the order of            *)
(*              addProcessor                                               *)
(*   opens      for each thread, its ProcessLinks in the order of opening  *)
(*   inputs     for each processor, the links of its input slots           *)
(*   outputs    for each processor, the links of its output slots          *)
(*   capacity   for each link, the frames it holds; 0: InternalSingleLink  *)
(*   maker      for each link, the thread that constructs and destroys it  *)
(***************************************************************************)
\* The fields fit together.
Typed(n) ==
    LET links == DOMAIN n.capacity
        processors == DOMAIN n.inputs
        threads == DOMAIN n.block
    IN  /\ n.block \in Seq(Seq(processors) \ {<<>>})
        /\ n.opens \in [threads -> Seq(links)]
        /\ n.inputs \in [processors -> Seq(links)]
        /\ n.outputs \in [processors -> Seq(links)]
        /\ n.capacity \in [links -> Nat]
        /\ n.maker \in [links -> threads]

\* A processor is in one block, once.
Placed(n) ==
    /\ \A p \in DOMAIN n.inputs : \E t \in DOMAIN n.block : p \in Range(n.block[t])
    /\ \A s, t \in DOMAIN n.block :
         \A i \in 1..Len(n.block[s]), j \in 1..Len(n.block[t]) :
            n.block[s][i] = n.block[t][j] => s = t /\ i = j

\* A link joins one output slot and one input slot, as the links' constructors
\* require.
Joined(n) ==
    /\ \A side \in {n.inputs, n.outputs} : \A p, q \in DOMAIN side :
         \A i \in 1..Len(side[p]), j \in 1..Len(side[q]) :
            side[p][i] = side[q][j] => p = q /\ i = j
    /\ \A l \in DOMAIN n.capacity : \E p, q \in DOMAIN n.inputs :
         l \in Range(n.outputs[p]) /\ l \in Range(n.inputs[q])

\* An InternalSingleLink leads to a later processor of the same thread.  Of the
\* links of GLThreads, the main thread makes those between threads.
Local(n) ==
    \A s, t \in DOMAIN n.block :
        \A i \in 1..Len(n.block[s]), j \in 1..Len(n.block[t]) :
            \A l \in Range(n.outputs[n.block[s][i]]) \cap Range(n.inputs[n.block[t][j]]) :
                /\ n.capacity[l] = 0 => s = t /\ i < j
                /\ n.glThreads => n.maker[l] = 1 \/ (n.maker[l] = s /\ s = t)

\* A process opens the ProcessLinks of its own processors' slots, each once, for
\* the slot that it passes to the constructor.
Paired(n) ==
    \A t \in DOMAIN n.opens :
        /\ \A j, k \in 1..Len(n.opens[t]) : n.opens[t][j] = n.opens[t][k] => j = k
        /\ \A l \in Range(n.opens[t]) :
             /\ n.capacity[l] > 0
             /\ \E p \in Range(n.block[t]) : l \in Range(n.inputs[p]) \cup Range(n.outputs[p])

ASSUME PipelineAssumption ==
    /\ Rounds \in Nat \ {0}
    /\ \A name \in DOMAIN Programs :
         LET n == Programs[name] IN
         /\ n.glThreads \in BOOLEAN
         /\ n.block # <<>>
         /\ Typed(n) /\ Placed(n) /\ Joined(n) /\ Local(n) /\ Paired(n)

VARIABLES
    program,   \* the program's name
    opener,    \* the thread that has created each ProcessLink
    attached,  \* the ProcessLinks whose other end has attached
    place,     \* where each thread is: phase, position in its block, slot
    round,     \* rounds each thread has completed
    queue,     \* frames in each link
    arg,       \* the frame the input slot of each link refers to
    made       \* the frame each processor's run() has computed last

links == <<opener, attached, queue, arg>>
loopVars == <<program, links, place, round, made>>

\* No thread.
Nobody == 0

Net == Programs[program]
Threads == DOMAIN Net.block
Links == DOMAIN Net.capacity
Processors == DOMAIN Net.inputs

Internal(l) == Net.capacity[l] = 0

\* The ProcessLinks.
OpenLinks == UNION {Range(Net.opens[t]) : t \in Threads}

Place(phase, proc, slot) == [phase |-> phase, proc |-> proc, slot |-> slot]

LoopInit ==
    /\ program \in DOMAIN Programs
    /\ opener = [l \in OpenLinks |-> Nobody]
    /\ attached = {}
    /\ place = [t \in Threads |-> Place("open", 1, 1)]
    /\ round = [t \in Threads |-> 0]
    /\ queue = [l \in Links |-> <<>>]
    /\ arg = [l \in Links |-> {}]
    /\ made = [p \in Processors |-> {}]

Goto(t, phase, proc, slot) ==
    place' = [place EXCEPT ![t] = Place(phase, proc, slot)]

\* The processor t executes, the slot it has come to, and its links.
Current(t) == Net.block[t][place[t].proc]
Slot(t) == place[t].slot
Fetches(t) == Net.inputs[Current(t)]
Pushes(t) == Net.outputs[Current(t)]

\* (fault) The loop over the slots stops one too early.
AllButLast(slots, k) == \A j \in k..(Len(slots) - 1) : Internal(slots[j])

\* From its k-th slot on, the loop over the slots has nothing more to do ...
Past(slots, k) == \A j \in k..Len(slots) : Internal(slots[j])

\* ... or the j-th slot is the next at which it has.
Due(slots, k, j) ==
    /\ j \in k..Len(slots)
    /\ ~Internal(slots[j])
    /\ \A i \in k..(j - 1) : Internal(slots[i])

----------------------------------------------------------------------------
(* ProcessLink::openResources *)

\* The next link to open.
Opening(t) == Net.opens[t][Slot(t)]

\* (fault) The owner does not wait for the other end.
OpenOnly(t) ==
    /\ place[t].phase = "open"
    /\ ~Past(Net.opens[t], Slot(t))
    /\ opener[Opening(t)] = Nobody
    /\ opener' = [opener EXCEPT ![Opening(t)] = t]
    /\ Goto(t, "open", 1, Slot(t) + 1)
    /\ UNCHANGED <<program, attached, round, queue, arg, made>>

\* The first end creates the link and waits ...
OpenFirst(t) ==
    /\ place[t].phase = "open"
    /\ ~Past(Net.opens[t], Slot(t))
    /\ opener[Opening(t)] = Nobody
    /\ opener' = [opener EXCEPT ![Opening(t)] = t]
    /\ Goto(t, "wait", 1, Slot(t))
    /\ UNCHANGED <<program, attached, round, queue, arg, made>>

\* ... until the second end attaches, which goes on at once.
OpenSecond(t) ==
    /\ place[t].phase = "open"
    /\ ~Past(Net.opens[t], Slot(t))
    /\ opener[Opening(t)] # Nobody
    /\ attached' = attached \cup {Opening(t)}
    /\ Goto(t, "open", 1, Slot(t) + 1)
    /\ UNCHANGED <<program, opener, round, queue, arg, made>>

Opened(t) ==
    /\ place[t].phase = "wait"
    /\ Opening(t) \in attached
    /\ Goto(t, "open", 1, Slot(t) + 1)
    /\ UNCHANGED <<program, links, round, made>>

\* All links are there: the loop starts.
StartLoop(t) ==
    /\ place[t].phase = "open"
    /\ Past(Net.opens[t], Slot(t))
    /\ Goto(t, "fetch", 1, 1)
    /\ UNCHANGED <<program, links, round, made>>

----------------------------------------------------------------------------
(* Processor::execute *)

\* Link::fetch of the next input slot.
Fetch(t) ==
    /\ place[t].phase = "fetch"
    /\ \E k \in 1..Len(Fetches(t)) :
         /\ Due(Fetches(t), Slot(t), k)
         /\ LET l == Fetches(t)[k] IN
              /\ queue[l] # <<>>
              /\ arg' = [arg EXCEPT ![l] = Head(queue[l])]
              /\ queue' = [queue EXCEPT ![l] = Tail(@)]
         /\ Goto(t, "fetch", place[t].proc, k + 1)
    /\ UNCHANGED <<program, opener, attached, round, made>>

\* What run() computes: a source a frame of its own, the others a frame from
\* what their input slots refer to.
Computed(t) ==
    LET ins == Net.inputs[Current(t)] IN
      IF ins = <<>> THEN {round[t] + 1}
      ELSE UNION {arg[ins[k]] : k \in 1..Len(ins)}

\* All arguments are fetched: execute calls run().
AtRun(t) == place[t].phase = "fetch" /\ Past(Fetches(t), Slot(t))

\* run().  The input slot at the other end of an InternalSingleLink refers to
\* the same argument.
Run(t) ==
    LET p == Current(t) IN
    /\ AtRun(t)
    /\ made' = [made EXCEPT ![p] = Computed(t)]
    /\ arg' = [l \in Links |->
                 IF Internal(l) /\ l \in Range(Net.outputs[p])
                 THEN Computed(t) ELSE arg[l]]
    /\ Goto(t, "push", place[t].proc, 1)
    /\ UNCHANGED <<program, opener, attached, round, queue>>

\* (fault) push does not wait.
RoomAlways(l) == TRUE

\* push does not block.
Room(l) == Len(queue[l]) < Net.capacity[l]

\* Link::push of the next output slot.
Push(t) ==
    /\ place[t].phase = "push"
    /\ \E k \in 1..Len(Pushes(t)) :
         /\ Due(Pushes(t), Slot(t), k)
         /\ LET l == Pushes(t)[k] IN
              /\ Room(l)
              /\ queue' = [queue EXCEPT ![l] = Append(@, made[Current(t)])]
         /\ Goto(t, "push", place[t].proc, k + 1)
    /\ UNCHANGED <<program, opener, attached, arg, round, made>>

----------------------------------------------------------------------------
(* ThreadBlock::execute, in the program's loop *)

NextProcessor(t) ==
    /\ place[t].phase = "push"
    /\ Past(Pushes(t), Slot(t))
    /\ place[t].proc < Len(Net.block[t])
    /\ Goto(t, "fetch", place[t].proc + 1, 1)
    /\ UNCHANGED <<program, links, round, made>>

NextRound(t) ==
    /\ place[t].phase = "push"
    /\ Past(Pushes(t), Slot(t))
    /\ place[t].proc = Len(Net.block[t])
    /\ round' = [round EXCEPT ![t] = @ + 1]
    /\ Goto(t, IF round'[t] = Rounds THEN "done" ELSE "fetch", 1, 1)
    /\ UNCHANGED <<program, links, made>>

\* A step of t's loop, the opening of its ProcessLinks included.
Step(t) ==
    \/ OpenFirst(t) \/ OpenSecond(t) \/ Opened(t) \/ StartLoop(t)
    \/ Fetch(t) \/ Run(t) \/ Push(t) \/ NextProcessor(t) \/ NextRound(t)

----------------------------------------------------------------------------
(* Properties. *)

Frames == SUBSET (1..Rounds)

LoopTypeOK ==
    /\ program \in DOMAIN Programs
    /\ opener \in [OpenLinks -> Threads \cup {Nobody}]
    /\ attached \subseteq {l \in OpenLinks : opener[l] # Nobody}
    /\ \A t \in Threads :
         /\ place[t].phase \in {"open", "wait", "fetch", "push", "done"}
         /\ place[t].proc \in 1..Len(Net.block[t])
         /\ place[t].slot \in Nat \ {0}
    /\ round \in [Threads -> 0..Rounds]
    /\ \A l \in Links : queue[l] \in Seq(Frames) /\ Len(queue[l]) <= Net.capacity[l]
    /\ arg \in [Links -> Frames]
    /\ made \in [Processors -> Frames]

\* How often the i-th processor of t has run.
Runs(t, i) ==
    round[t] + IF \/ place[t].phase \in {"fetch", "push"} /\ i < place[t].proc
                  \/ place[t].phase = "push" /\ i = place[t].proc
               THEN 1 ELSE 0

\* In its n-th run a processor has the n-th frame of every source in all its
\* input slots, along whatever paths, with whatever capacities, they have come
\* to it, and what it computes comes from these and no others.
Aligned ==
    \A t \in Threads : \A i \in 1..Len(Net.block[t]) :
        LET p == Net.block[t][i]
            expected == IF Runs(t, i) = 0 THEN {} ELSE {Runs(t, i)}
        IN  /\ made[p] = expected
            /\ place[t].phase = "push" /\ place[t].proc = i =>
                 \A k \in 1..Len(Net.inputs[p]) : arg[Net.inputs[p][k]] = expected

\* The programs whose ProcessLinks can be numbered so that every process opens
\* its own in ascending order.
OrderablePrograms ==
    {n \in DOMAIN Programs :
        LET opens == Programs[n].opens
            opened == UNION {Range(opens[t]) : t \in DOMAIN opens}
        IN  \E rank \in [opened -> 1..Cardinality(opened)] :
              \A t \in DOMAIN opens : \A j, k \in 1..Len(opens[t]) :
                  j < k => rank[opens[t][j]] < rank[opens[t][k]]}

Orderable == program \in OrderablePrograms
=============================================================================
