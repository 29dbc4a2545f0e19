----------------------------- MODULE ProgramProofs -----------------------------
(***************************************************************************)
(* Programs of any number of threads, processors and links: frames stay    *)
(* aligned, links exist while their ends use them, and processes that open *)
(* their ProcessLinks in contradictory orders do not end.                  *)
(***************************************************************************)
EXTENDS Program, FiniteSetTheorems, SequenceTheorems, TLAPS

\* The i-th processor of t, and the links of its slots.
Proc(t, i) == Net.block[t][i]
In(t, i, k) == Net.inputs[Proc(t, i)][k]
Out(t, i, k) == Net.outputs[Proc(t, i)][k]

\* There are such a processor and such slots.
IsProc(t, i) == t \in Threads /\ i \in 1..Len(Net.block[t])
InSlot(t, i, k) == IsProc(t, i) /\ k \in 1..Len(Net.inputs[Proc(t, i)])
OutSlot(t, i, k) == IsProc(t, i) /\ k \in 1..Len(Net.outputs[Proc(t, i)])

\* How often the slots' loops have come past a slot.
Fetched(t, i, k) ==
    round[t] + IF \/ place[t].phase \in {"fetch", "push"} /\ i < place[t].proc
                  \/ place[t].phase = "push" /\ i = place[t].proc
                  \/ place[t].phase = "fetch" /\ i = place[t].proc /\ k < place[t].slot
               THEN 1 ELSE 0
Pushed(t, i, k) ==
    round[t] + IF \/ place[t].phase \in {"fetch", "push"} /\ i < place[t].proc
                  \/ place[t].phase = "push" /\ i = place[t].proc /\ k < place[t].slot
               THEN 1 ELSE 0

\* The frame of the n-th run; before the first there is none.
Frame(n) == IF n = 0 THEN {} ELSE {n}

\* The types, as functions, and where a loop is.
LoopTypes ==
    /\ program \in DOMAIN Programs
    /\ opener \in [OpenLinks -> Threads \cup {Nobody}]
    /\ attached \subseteq {l \in OpenLinks : opener[l] # Nobody}
    /\ place \in [Threads -> [phase : {"open", "wait", "fetch", "push", "done"},
                              proc : Nat \ {0}, slot : Nat \ {0}]]
    /\ round \in [Threads -> 0..Rounds]
    /\ queue \in [Links -> Seq(Frames)]
    /\ \A l \in Links : Len(queue[l]) <= Net.capacity[l]
    /\ arg \in [Links -> Frames]
    /\ made \in [Processors -> Frames]
    /\ \A t \in Threads :
         /\ place[t].proc <= Len(Net.block[t])
         /\ place[t].phase # "done" => round[t] < Rounds
         /\ place[t].phase \in {"open", "wait"} => place[t].proc = 1 /\ round[t] = 0

\* Every processor has computed the frame of its last run.
MadeRight == \A t, i : IsProc(t, i) => made[Proc(t, i)] = Frame(Runs(t, i))

\* Every input slot refers to the frame it has fetched last, or, at an
\* InternalSingleLink, to the one the processor at its other end has made.
ArgRight ==
    \A t, i, k : InSlot(t, i, k) =>
        /\ ~Internal(In(t, i, k)) => arg[In(t, i, k)] = Frame(Fetched(t, i, k))
        /\ \A s, j, m :
             OutSlot(s, j, m) /\ Out(s, j, m) = In(t, i, k) /\ Internal(In(t, i, k))
               => arg[In(t, i, k)] = Frame(Runs(s, j))

\* The frames after the n-th to the last.
Holds(frames, n, last) ==
    /\ Len(frames) = last - n
    /\ \A x \in 1..Len(frames) : frames[x] = {n + x}

\* A link holds the frames between the one its input slot has fetched last and
\* the one its output slot has pushed last.
Queued ==
    \A t, i, k, s, j, m :
        InSlot(t, i, k) /\ OutSlot(s, j, m) /\ Out(s, j, m) = In(t, i, k)
          /\ ~Internal(In(t, i, k))
        => Holds(queue[In(t, i, k)], Fetched(t, i, k), Pushed(s, j, m))

LoopInv == LoopTypes /\ MadeRight /\ ArgRight /\ Queued

Stages == {"unborn", "binding", "stillborn", "set_up", "link",
           "loop", "unlink", "leave", "ended", "dead"}

\* Where the threads of a program of GLThreads are together, and which links
\* exist there.
Starting ==
    /\ \A t \in Threads : stage[t] \in {"unborn", "binding", "stillborn", "set_up", "dead"}
    /\ linked = {}
Linking ==
    /\ \A t \in Threads : stage[t] = "link"
    /\ linked = {l \in Links : Net.maker[l] \in waiting}
Looping ==
    /\ \A t \in Threads : stage[t] \in {"loop", "dead"}
    /\ linked = {l \in Links : stage[Net.maker[l]] # "dead"}
Unlinking ==
    /\ \A t \in Threads : stage[t] = "unlink"
    /\ linked = {l \in Links : ~(Net.maker[l] = Main /\ Main \in waiting)}
Leaving ==
    /\ \A t \in Threads : stage[t] \in {"leave", "ended"}
    /\ linked = {l \in Links : Net.maker[l] # Main /\ stage[Net.maker[l]] # "ended"}

LifeInv ==
    /\ stage \in [Threads -> Stages]
    /\ waiting \subseteq Threads
    /\ \A t \in waiting : stage[t] \in {"set_up", "link", "loop", "unlink"}
    /\ IF Net.glThreads
       THEN /\ stage[Main] \notin {"unborn", "binding", "stillborn", "dead"}
            /\ Starting \/ Linking \/ Looping \/ Unlinking \/ Leaving
       ELSE /\ linked = Links
            /\ waiting = {}
            /\ \A t \in Threads : stage[t] = "loop"

\* The inductive invariant.
IInv == LoopInv /\ LifeInv

----------------------------------------------------------------------------
\* The program's processors.
LEMMA NetIs ==
    ASSUME program \in DOMAIN Programs
    PROVE  /\ Typed(Net) /\ Placed(Net) /\ Joined(Net) /\ Local(Net)
           /\ Net.glThreads \in BOOLEAN
           /\ Threads = 1..Len(Net.block) /\ Len(Net.block) \in Nat \ {0}
           /\ Net.inputs \in [Processors -> Seq(Links)]
           /\ Net.outputs \in [Processors -> Seq(Links)]
           /\ Net.capacity \in [Links -> Nat]
           /\ \A t \in Threads : Net.block[t] \in Seq(Processors) /\ Len(Net.block[t]) \in Nat \ {0}
<1>1. Typed(Net) /\ Placed(Net) /\ Joined(Net) /\ Local(Net) /\ Net.block # <<>>
      /\ Net.glThreads \in BOOLEAN
  BY PipelineAssumption DEF Net
<1>2. /\ Net.block \in Seq(Seq(Processors) \ {<<>>})
      /\ Net.inputs \in [Processors -> Seq(Links)]
      /\ Net.outputs \in [Processors -> Seq(Links)]
      /\ Net.capacity \in [Links -> Nat]
  BY <1>1 DEF Typed, Processors, Links
<1>3. Threads = 1..Len(Net.block) /\ Len(Net.block) \in Nat \ {0}
  BY <1>1, <1>2 DEF Threads
<1>4. ASSUME NEW t \in Threads
      PROVE  Net.block[t] \in Seq(Processors) /\ Len(Net.block[t]) \in Nat \ {0}
  <2>1. Net.block[t] \in Seq(Processors) \ {<<>>}
    BY <1>2, <1>3
  <2> QED
    BY <2>1
<1> QED
  BY <1>1, <1>2, <1>3, <1>4

\* A processor's place is its own.
LEMMA ProcIs ==
    ASSUME program \in DOMAIN Programs
    PROVE  /\ \A t, i : IsProc(t, i) => t \in Threads /\ i \in Nat \ {0} /\ Proc(t, i) \in Processors
           /\ \A s, j, t, i : IsProc(s, j) /\ IsProc(t, i) /\ Proc(s, j) = Proc(t, i)
                => s = t /\ j = i
<1> USE NetIs
<1>1. ASSUME NEW t, NEW i, IsProc(t, i)
      PROVE  t \in Threads /\ i \in Nat \ {0} /\ Proc(t, i) \in Processors
  BY <1>1 DEF IsProc, Proc
<1>2. ASSUME NEW s, NEW j, NEW t, NEW i, IsProc(s, j), IsProc(t, i), Proc(s, j) = Proc(t, i)
      PROVE  s = t /\ j = i
  <2>1. Placed(Net) /\ s \in DOMAIN Net.block /\ t \in DOMAIN Net.block
        /\ j \in 1..Len(Net.block[s]) /\ i \in 1..Len(Net.block[t])
        /\ Net.block[s][j] = Net.block[t][i]
    BY <1>2 DEF IsProc, Proc, Threads
  <2> QED
    BY ONLY <2>1 DEF Placed
<1> QED
  BY <1>1, <1>2

\* A link's slots.
LEMMA SlotIs ==
    ASSUME program \in DOMAIN Programs
    PROVE  /\ \A t, i, k : InSlot(t, i, k) => In(t, i, k) \in Links /\ k \in Nat \ {0}
           /\ \A t, i, k : OutSlot(t, i, k) => Out(t, i, k) \in Links /\ k \in Nat \ {0}
           /\ \A t, i, k, s, j, m :
                InSlot(t, i, k) /\ InSlot(s, j, m) /\ In(t, i, k) = In(s, j, m)
                  => t = s /\ i = j /\ k = m
           /\ \A t, i, k, s, j, m :
                OutSlot(t, i, k) /\ OutSlot(s, j, m) /\ Out(t, i, k) = Out(s, j, m)
                  => t = s /\ i = j /\ k = m
           /\ \A l \in Links : /\ \E s, j, m : OutSlot(s, j, m) /\ Out(s, j, m) = l
                             /\ \E t, i, k : InSlot(t, i, k) /\ In(t, i, k) = l
           /\ \A t, i, k, s, j, m :
                InSlot(t, i, k) /\ OutSlot(s, j, m) /\ Out(s, j, m) = In(t, i, k)
                  /\ Internal(In(t, i, k))
                => s = t /\ j < i
<1> USE NetIs, ProcIs
<1>1. ASSUME NEW t, NEW i, NEW k, InSlot(t, i, k)
      PROVE  /\ In(t, i, k) \in Links /\ k \in Nat \ {0} /\ Proc(t, i) \in Processors
             /\ k \in 1..Len(Net.inputs[Proc(t, i)]) /\ IsProc(t, i)
             /\ In(t, i, k) \in Range(Net.inputs[Proc(t, i)])
  <2>1. Net.inputs[Proc(t, i)] \in Seq(Links)
    BY <1>1 DEF InSlot
  <2> QED
    BY <1>1, <2>1 DEF InSlot, In, Range
<1>2. ASSUME NEW t, NEW i, NEW k, OutSlot(t, i, k)
      PROVE  /\ Out(t, i, k) \in Links /\ k \in Nat \ {0} /\ Proc(t, i) \in Processors
             /\ k \in 1..Len(Net.outputs[Proc(t, i)]) /\ IsProc(t, i)
             /\ Out(t, i, k) \in Range(Net.outputs[Proc(t, i)])
  <2>1. Net.outputs[Proc(t, i)] \in Seq(Links)
    BY <1>2 DEF OutSlot
  <2> QED
    BY <1>2, <2>1 DEF OutSlot, Out, Range
<1>3. ASSUME NEW side \in {Net.inputs, Net.outputs}, NEW p \in Processors, NEW q \in Processors,
             NEW i \in 1..Len(side[p]), NEW j \in 1..Len(side[q]), side[p][i] = side[q][j]
      PROVE  p = q /\ i = j
  <2>1. DOMAIN side = Processors
    OBVIOUS
  <2>2. \A x \in DOMAIN side, y \in DOMAIN side : \A a \in 1..Len(side[x]), b \in 1..Len(side[y]) :
          side[x][a] = side[y][b] => x = y /\ a = b
    BY DEF Joined
  <2> QED
    BY ONLY <1>3, <2>1, <2>2
<1>4. ASSUME NEW t, NEW i, NEW k, NEW s, NEW j, NEW m,
             InSlot(t, i, k), InSlot(s, j, m), In(t, i, k) = In(s, j, m)
      PROVE  t = s /\ i = j /\ k = m
  <2>1. Proc(t, i) = Proc(s, j) /\ k = m
    <3>1. /\ Net.inputs[Proc(t, i)][k] = Net.inputs[Proc(s, j)][m]
          /\ Proc(t, i) \in Processors /\ k \in 1..Len(Net.inputs[Proc(t, i)])
          /\ Proc(s, j) \in Processors /\ m \in 1..Len(Net.inputs[Proc(s, j)])
      BY <1>1, <1>4 DEF In
    <3>2. Net.inputs \in {Net.inputs, Net.outputs}
      OBVIOUS
    <3> QED
      BY ONLY <1>3, <3>1, <3>2
  <2> QED
    BY <1>1, <1>4, <2>1
<1>5. ASSUME NEW t, NEW i, NEW k, NEW s, NEW j, NEW m,
             OutSlot(t, i, k), OutSlot(s, j, m), Out(t, i, k) = Out(s, j, m)
      PROVE  t = s /\ i = j /\ k = m
  <2>1. Proc(t, i) = Proc(s, j) /\ k = m
    <3>1. /\ Net.outputs[Proc(t, i)][k] = Net.outputs[Proc(s, j)][m]
          /\ Proc(t, i) \in Processors /\ k \in 1..Len(Net.outputs[Proc(t, i)])
          /\ Proc(s, j) \in Processors /\ m \in 1..Len(Net.outputs[Proc(s, j)])
      BY <1>2, <1>5 DEF Out
    <3>2. Net.outputs \in {Net.inputs, Net.outputs}
      OBVIOUS
    <3> QED
      BY ONLY <1>3, <3>1, <3>2
  <2> QED
    BY <1>2, <1>5, <2>1
<1>6. ASSUME NEW l \in Links
      PROVE  /\ \E s, j, m : OutSlot(s, j, m) /\ Out(s, j, m) = l
             /\ \E t, i, k : InSlot(t, i, k) /\ In(t, i, k) = l
  <2>1. PICK p \in Processors, q \in Processors :
          l \in Range(Net.outputs[p]) /\ l \in Range(Net.inputs[q])
    BY DEF Joined, Processors, Links
  <2>2. PICK s \in Threads : p \in Range(Net.block[s])
    BY DEF Placed, Processors, Threads
  <2>3. PICK j \in 1..Len(Net.block[s]) : Net.block[s][j] = p
    BY <2>2 DEF Range
  <2>4. Net.outputs[p] \in Seq(Links) /\ Net.inputs[q] \in Seq(Links)
    OBVIOUS
  <2>5. PICK m \in 1..Len(Net.outputs[p]) : Net.outputs[p][m] = l
    BY <2>1, <2>4 DEF Range
  <2>6. OutSlot(s, j, m) /\ Out(s, j, m) = l
    BY <2>3, <2>5 DEF OutSlot, Out, IsProc, Proc
  <2>7. PICK t \in Threads : q \in Range(Net.block[t])
    BY DEF Placed, Processors, Threads
  <2>8. PICK i \in 1..Len(Net.block[t]) : Net.block[t][i] = q
    BY <2>7 DEF Range
  <2>9. PICK k \in 1..Len(Net.inputs[q]) : Net.inputs[q][k] = l
    BY <2>1, <2>4 DEF Range
  <2>10. InSlot(t, i, k) /\ In(t, i, k) = l
    BY <2>8, <2>9 DEF InSlot, In, IsProc, Proc
  <2> QED
    BY <2>6, <2>10
<1>7. ASSUME NEW t, NEW i, NEW k, NEW s, NEW j, NEW m,
             InSlot(t, i, k), OutSlot(s, j, m), Out(s, j, m) = In(t, i, k), Internal(In(t, i, k))
      PROVE  s = t /\ j < i
  <2>1. s \in DOMAIN Net.block /\ t \in DOMAIN Net.block
        /\ j \in 1..Len(Net.block[s]) /\ i \in 1..Len(Net.block[t])
    BY <1>1, <1>2, <1>7 DEF IsProc, Threads
  <2>2. In(t, i, k) \in Range(Net.outputs[Net.block[s][j]]) \cap Range(Net.inputs[Net.block[t][i]])
    BY <1>1, <1>2, <1>7 DEF Proc
  <2> QED
    BY <1>7, <2>1, <2>2 DEF Local, Internal
<1> QED
  BY <1>1, <1>2, <1>4, <1>5, <1>6, <1>7

----------------------------------------------------------------------------
\* The program does not change.
LEMMA StaticStays ==
    ASSUME program' = program
    PROVE  /\ Net' = Net /\ Threads' = Threads /\ Links' = Links /\ Processors' = Processors
           /\ OpenLinks' = OpenLinks
           /\ \A t, i : Proc(t, i)' = Proc(t, i) /\ (IsProc(t, i)' <=> IsProc(t, i))
           /\ \A t, i, k : /\ In(t, i, k)' = In(t, i, k) /\ Out(t, i, k)' = Out(t, i, k)
                           /\ InSlot(t, i, k)' <=> InSlot(t, i, k)
                           /\ OutSlot(t, i, k)' <=> OutSlot(t, i, k)
                           /\ Internal(In(t, i, k))' <=> Internal(In(t, i, k))
<1>1. Net' = Net
  BY DEF Net
<1>2. Threads' = Threads /\ Links' = Links /\ Processors' = Processors
      /\ OpenLinks' = OpenLinks
  BY <1>1, Zenon DEF Threads, Links, Processors, OpenLinks
<1>3. \A t, i : Proc(t, i)' = Proc(t, i) /\ (IsProc(t, i)' <=> IsProc(t, i))
  BY <1>1, <1>2, Zenon DEF Proc, IsProc
<1>4. \A t, i, k : In(t, i, k)' = In(t, i, k) /\ Out(t, i, k)' = Out(t, i, k)
  BY <1>1, <1>3, Zenon DEF In, Out
<1>5. \A t, i, k : /\ InSlot(t, i, k)' <=> InSlot(t, i, k)
                   /\ OutSlot(t, i, k)' <=> OutSlot(t, i, k)
  BY <1>1, <1>3, Zenon DEF InSlot, OutSlot
<1>6. \A t, i, k : Internal(In(t, i, k))' <=> Internal(In(t, i, k))
  BY <1>1, <1>4, Zenon DEF Internal
<1> QED
  BY <1>1, <1>2, <1>3, <1>4, <1>5, <1>6

\* A thread goes to another place.
LEMMA Moved ==
    ASSUME LoopTypes, NEW t \in Threads, NEW phase, NEW proc, NEW slot, Goto(t, phase, proc, slot)
    PROVE  /\ place'[t].phase = phase /\ place'[t].proc = proc /\ place'[t].slot = slot
           /\ \A s \in Threads : s # t => place'[s] = place[s]
           /\ DOMAIN place = Threads
           /\ phase \in {"open", "wait", "fetch", "push", "done"} /\ proc \in Nat \ {0}
                /\ slot \in Nat \ {0} =>
                place' \in [Threads -> [phase : {"open", "wait", "fetch", "push", "done"},
                                        proc : Nat \ {0}, slot : Nat \ {0}]]
BY DEF LoopTypes, Goto, Place

\* Where a thread is.
LEMMA PlaceIs ==
    ASSUME LoopTypes, NEW t \in Threads
    PROVE  /\ place[t].proc \in Nat \ {0} /\ place[t].slot \in Nat \ {0}
           /\ place[t].proc \in 1..Len(Net.block[t]) /\ IsProc(t, place[t].proc)
           /\ Current(t) = Proc(t, place[t].proc) /\ Current(t) \in Processors
           /\ round[t] \in 0..Rounds /\ Rounds \in Nat \ {0}
           /\ Fetches(t) = Net.inputs[Proc(t, place[t].proc)] /\ Fetches(t) \in Seq(Links)
           /\ Pushes(t) = Net.outputs[Proc(t, place[t].proc)] /\ Pushes(t) \in Seq(Links)
<1> USE PipelineAssumption DEF LoopTypes
<1>1. place[t].proc \in Nat \ {0} /\ place[t].slot \in Nat \ {0} /\ round[t] \in 0..Rounds
      /\ program \in DOMAIN Programs
  OBVIOUS
<1>2. place[t].proc \in 1..Len(Net.block[t])
  BY <1>1, NetIs
<1>3. IsProc(t, place[t].proc) /\ Current(t) = Proc(t, place[t].proc)
  BY <1>2 DEF IsProc, Current, Proc
<1>4. Current(t) \in Processors
  BY <1>1, <1>3, ProcIs
<1>5. Net.inputs[Current(t)] \in Seq(Links) /\ Net.outputs[Current(t)] \in Seq(Links)
  BY <1>1, <1>4, NetIs
<1> QED
  BY <1>1, <1>2, <1>3, <1>4, <1>5 DEF Fetches, Pushes

\* No frame has moved.
LEMMA NothingMoved ==
    ASSUME LoopInv, program' = program, queue' = queue, arg' = arg, made' = made,
           \A t, i : IsProc(t, i) => Runs(t, i)' = Runs(t, i),
           \A t, i, k : InSlot(t, i, k) /\ ~Internal(In(t, i, k))
             => Fetched(t, i, k)' = Fetched(t, i, k),
           \A t, i, k : OutSlot(t, i, k) /\ ~Internal(Out(t, i, k))
             => Pushed(t, i, k)' = Pushed(t, i, k)
    PROVE  MadeRight' /\ ArgRight' /\ Queued'
<1> USE StaticStays
<1>1. MadeRight'
  BY DEF LoopInv, MadeRight, Frame
<1>2. ArgRight'
  <2>1. ASSUME NEW t, NEW i, NEW k, InSlot(t, i, k), ~Internal(In(t, i, k))
        PROVE  arg[In(t, i, k)] = Frame(Fetched(t, i, k))'
    <3>1. arg[In(t, i, k)] = Frame(Fetched(t, i, k))
      BY <2>1 DEF LoopInv, ArgRight
    <3>2. Fetched(t, i, k)' = Fetched(t, i, k)
      BY <2>1
    <3> QED
      BY ONLY <3>1, <3>2 DEF Frame
  <2>2. ASSUME NEW t, NEW i, NEW k, InSlot(t, i, k), Internal(In(t, i, k)),
               NEW s, NEW j, NEW m, OutSlot(s, j, m), Out(s, j, m) = In(t, i, k)
        PROVE  arg[In(t, i, k)] = Frame(Runs(s, j))'
    <3>1. IsProc(s, j)
      BY <2>2 DEF OutSlot
    <3>2. arg[In(t, i, k)] = Frame(Runs(s, j))
      BY <2>2 DEF LoopInv, ArgRight
    <3>3. Runs(s, j)' = Runs(s, j)
      BY <3>1
    <3> QED
      BY ONLY <3>2, <3>3 DEF Frame
  <2> QED
    BY <2>1, <2>2 DEF ArgRight
<1>3. Queued'
  <2>1. ASSUME NEW t, NEW i, NEW k, NEW s, NEW j, NEW m,
               InSlot(t, i, k), OutSlot(s, j, m), Out(s, j, m) = In(t, i, k),
               ~Internal(In(t, i, k))
        PROVE  Holds(queue[In(t, i, k)], Fetched(t, i, k)', Pushed(s, j, m)')
    <3>1. Holds(queue[In(t, i, k)], Fetched(t, i, k), Pushed(s, j, m))
      BY <2>1 DEF LoopInv, Queued
    <3> QED
      BY <2>1, <3>1
  <2> QED
    BY <2>1 DEF Queued, Holds
<1> QED
  BY <1>1, <1>2, <1>3

\* What is counted for a thread that stays where it is.
LEMMA CountsStay ==
    ASSUME NEW t, place'[t] = place[t], round'[t] = round[t]
    PROVE  /\ \A i : Runs(t, i)' = Runs(t, i)
           /\ \A i, k : Fetched(t, i, k)' = Fetched(t, i, k) /\ Pushed(t, i, k)' = Pushed(t, i, k)
BY DEF Runs, Fetched, Pushed

\* A thread that still opens its links has executed nothing.
LEMMA CountsOpening ==
    ASSUME NEW t, place[t].phase \in {"open", "wait"}, place'[t].phase \in {"open", "wait"},
           round'[t] = round[t]
    PROVE  /\ \A i : Runs(t, i)' = Runs(t, i)
           /\ \A i, k : Fetched(t, i, k)' = Fetched(t, i, k) /\ Pushed(t, i, k)' = Pushed(t, i, k)
BY DEF Runs, Fetched, Pushed

\* The ProcessLinks are opened.
LEMMA OpeningStep ==
    ASSUME LoopInv, NEW t \in Threads, OpenFirst(t) \/ OpenSecond(t) \/ Opened(t)
    PROVE  LoopInv'
<1>1. LoopTypes /\ program \in DOMAIN Programs
  BY DEF LoopInv, LoopTypes
<1>2. /\ place[t].phase \in {"open", "wait"} /\ program' = program
      /\ queue' = queue /\ arg' = arg /\ made' = made /\ round' = round
  BY DEF OpenFirst, OpenSecond, Opened, links
<1>3. PICK phase \in {"open", "wait"}, slot \in Nat \ {0} : Goto(t, phase, 1, slot)
  <2>1. Slot(t) \in Nat \ {0} /\ Slot(t) + 1 \in Nat \ {0}
    BY <1>1, PlaceIs DEF Slot
  <2> QED
    BY <2>1 DEF OpenFirst, OpenSecond, Opened
<1>4. /\ place'[t].phase = phase /\ place'[t].proc = 1
      /\ \A s \in Threads : s # t => place'[s] = place[s]
      /\ place' \in [Threads -> [phase : {"open", "wait", "fetch", "push", "done"},
                                 proc : Nat \ {0}, slot : Nat \ {0}]]
  BY <1>1, <1>3, Moved
<1>5. /\ opener' \in [OpenLinks -> Threads \cup {Nobody}]
      /\ attached' \subseteq {l \in OpenLinks : opener'[l] # Nobody}
  <2>1. /\ opener \in [OpenLinks -> Threads \cup {Nobody}]
        /\ attached \subseteq {l \in OpenLinks : opener[l] # Nobody}
        /\ t # Nobody
    BY <1>1, NetIs DEF LoopTypes, Nobody
  <2>2. ASSUME ~Past(Net.opens[t], Slot(t))
        PROVE  Opening(t) \in OpenLinks
    <3>1. Net.opens[t] \in Seq(Links)
      BY <1>1, NetIs DEF Typed, Links, Threads
    <3>2. Slot(t) \in 1..Len(Net.opens[t])
      BY <1>1, <2>2, <3>1, PlaceIs DEF Past, Slot
    <3>3. Opening(t) \in Range(Net.opens[t])
      BY <3>1, <3>2 DEF Opening, Range
    <3> QED
      BY <3>3 DEF OpenLinks
  <2>3. CASE OpenFirst(t)
    <3>1. opener' = [opener EXCEPT ![Opening(t)] = t] /\ attached' = attached
          /\ Opening(t) \in OpenLinks
      BY <2>2, <2>3 DEF OpenFirst
    <3> QED
      BY <2>1, <3>1
  <2>4. CASE OpenSecond(t)
    <3>1. opener' = opener /\ attached' = attached \cup {Opening(t)}
          /\ Opening(t) \in OpenLinks /\ opener[Opening(t)] # Nobody
      BY <2>2, <2>4 DEF OpenSecond
    <3> QED
      BY <2>1, <3>1
  <2>5. CASE Opened(t)
    BY <2>1, <2>5 DEF Opened, links
  <2> QED
    BY <2>3, <2>4, <2>5
<1>6. LoopTypes'
  <2>1. \A s \in Threads :
          /\ place'[s].proc <= Len(Net.block[s])
          /\ place'[s].phase # "done" => round[s] < Rounds
          /\ place'[s].phase \in {"open", "wait"} => place'[s].proc = 1 /\ round[s] = 0
    <3>1. Len(Net.block[t]) \in Nat \ {0}
      BY <1>1, NetIs
    <3>2. \A s \in Threads :
            /\ place[s].proc <= Len(Net.block[s])
            /\ place[s].phase # "done" => round[s] < Rounds
            /\ place[s].phase \in {"open", "wait"} => place[s].proc = 1 /\ round[s] = 0
      BY <1>1 DEF LoopTypes
    <3> QED
      BY <1>2, <1>4, <3>1, <3>2
  <2> QED
    BY <1>1, <1>2, <1>4, <1>5, <2>1, StaticStays DEF LoopTypes, Frames
<1>7. /\ \A s, i : IsProc(s, i) => Runs(s, i)' = Runs(s, i)
      /\ \A s, i, k : InSlot(s, i, k) \/ OutSlot(s, i, k) =>
           Fetched(s, i, k)' = Fetched(s, i, k) /\ Pushed(s, i, k)' = Pushed(s, i, k)
  <2>1. \A s \in Threads : /\ \A i : Runs(s, i)' = Runs(s, i)
                           /\ \A i, k : /\ Fetched(s, i, k)' = Fetched(s, i, k)
                                        /\ Pushed(s, i, k)' = Pushed(s, i, k)
    BY <1>2, <1>4, CountsStay, CountsOpening
  <2> QED
    BY <2>1 DEF IsProc, InSlot, OutSlot
<1>8. MadeRight' /\ ArgRight' /\ Queued'
  BY <1>2, <1>7, NothingMoved
<1> QED
  BY <1>6, <1>8 DEF LoopInv

\* When a loop over slots is past its end, it has done what there was to do.
LEMMA PastSlots ==
    ASSUME LoopTypes, NEW t \in Threads, NEW k
    PROVE  /\ Past(Pushes(t), Slot(t)) /\ OutSlot(t, place[t].proc, k)
                /\ ~Internal(Out(t, place[t].proc, k)) => k < place[t].slot
           /\ Past(Fetches(t), Slot(t)) /\ InSlot(t, place[t].proc, k)
                /\ ~Internal(In(t, place[t].proc, k)) => k < place[t].slot
<1>1. /\ place[t].slot \in Nat \ {0}
      /\ Fetches(t) = Net.inputs[Proc(t, place[t].proc)] /\ Len(Fetches(t)) \in Nat
      /\ Pushes(t) = Net.outputs[Proc(t, place[t].proc)] /\ Len(Pushes(t)) \in Nat
  BY PlaceIs
<1>2. ASSUME Past(Pushes(t), Slot(t)), OutSlot(t, place[t].proc, k),
             ~Internal(Out(t, place[t].proc, k))
      PROVE  k < place[t].slot
  <2>1. k \in 1..Len(Pushes(t)) /\ ~Internal(Pushes(t)[k])
    BY <1>1, <1>2 DEF OutSlot, Out
  <2>2. \A j \in place[t].slot..Len(Pushes(t)) : Internal(Pushes(t)[j])
    BY <1>2 DEF Past, Slot
  <2> QED
    BY <1>1, <2>1, <2>2
<1>3. ASSUME Past(Fetches(t), Slot(t)), InSlot(t, place[t].proc, k),
             ~Internal(In(t, place[t].proc, k))
      PROVE  k < place[t].slot
  <2>1. k \in 1..Len(Fetches(t)) /\ ~Internal(Fetches(t)[k])
    BY <1>1, <1>3 DEF InSlot, In
  <2>2. \A j \in place[t].slot..Len(Fetches(t)) : Internal(Fetches(t)[j])
    BY <1>3 DEF Past, Slot
  <2> QED
    BY <1>1, <2>1, <2>2
<1> QED
  BY <1>2, <1>3

\* A thread goes on to its loop, its next processor or its next round.
LEMMA GoingOnStep ==
    ASSUME LoopInv, NEW t \in Threads, StartLoop(t) \/ NextProcessor(t) \/ NextRound(t)
    PROVE  LoopInv'
<1>1. LoopTypes /\ program \in DOMAIN Programs
  BY DEF LoopInv, LoopTypes
<1>2. /\ program' = program /\ opener' = opener /\ attached' = attached
      /\ queue' = queue /\ arg' = arg /\ made' = made
  BY DEF StartLoop, NextProcessor, NextRound, links
<1>3. /\ place[t].proc \in 1..Len(Net.block[t]) /\ Len(Net.block[t]) \in Nat \ {0}
      /\ round[t] \in 0..Rounds /\ Rounds \in Nat \ {0} /\ place[t].slot \in Nat \ {0}
      /\ DOMAIN round = Threads
      /\ place[t].phase # "done" => round[t] < Rounds
      /\ place[t].phase = "open" => place[t].proc = 1 /\ round[t] = 0
  BY <1>1, PlaceIs, NetIs DEF LoopTypes
<1> DEFINE Counts ==
      /\ \A i : IsProc(t, i) => Runs(t, i)' = Runs(t, i)
      /\ \A i, k : InSlot(t, i, k) /\ ~Internal(In(t, i, k))
           => Fetched(t, i, k)' = Fetched(t, i, k)
      /\ \A i, k : OutSlot(t, i, k) /\ ~Internal(Out(t, i, k))
           => Pushed(t, i, k)' = Pushed(t, i, k)
           Fits ==
      /\ round'[t] \in 0..Rounds /\ place'[t].proc \in 1..Len(Net.block[t])
      /\ place'[t].phase \in {"open", "wait", "fetch", "push", "done"}
      /\ place'[t].slot \in Nat \ {0}
      /\ place'[t].phase # "done" => round'[t] < Rounds
      /\ place'[t].phase \in {"open", "wait"} => place'[t].proc = 1 /\ round'[t] = 0
           Others ==
      /\ \A s \in Threads : s # t => place'[s] = place[s] /\ round'[s] = round[s]
      /\ round' \in [Threads -> 0..Rounds]
      /\ place' \in [Threads -> [phase : {"open", "wait", "fetch", "push", "done"},
                                 proc : Nat \ {0}, slot : Nat \ {0}]]
<1>4. \A i : IsProc(t, i) => i \in 1..Len(Net.block[t])
  BY DEF IsProc
<1>5. \A i, k : InSlot(t, i, k) \/ OutSlot(t, i, k) => IsProc(t, i) /\ k \in Nat \ {0}
  BY <1>1, SlotIs DEF InSlot, OutSlot
<1>6. ASSUME StartLoop(t) PROVE Counts /\ Fits /\ Others
  <2>1. place[t].phase = "open" /\ Goto(t, "fetch", 1, 1) /\ round' = round
    BY <1>6 DEF StartLoop
  <2>2. place'[t].phase = "fetch" /\ place'[t].proc = 1 /\ place'[t].slot = 1 /\ Others
    BY <1>1, <2>1, Moved DEF LoopTypes
  <2>3. Counts
    BY <1>3, <1>4, <1>5, <2>1, <2>2 DEF Runs, Fetched, Pushed
  <2>4. Fits
    BY <1>3, <2>1, <2>2
  <2> QED
    BY <2>2, <2>3, <2>4
<1>7. ASSUME NextProcessor(t) PROVE Counts /\ Fits /\ Others
  <2>1. /\ place[t].phase = "push" /\ Goto(t, "fetch", place[t].proc + 1, 1)
        /\ round' = round
        /\ Past(Pushes(t), Slot(t)) /\ place[t].proc < Len(Net.block[t])
    BY <1>7 DEF NextProcessor
  <2>2. /\ place'[t].phase = "fetch" /\ place'[t].proc = place[t].proc + 1
        /\ place'[t].slot = 1
        /\ Others
    <3>1. place[t].proc + 1 \in Nat \ {0}
      BY <1>3
    <3>2. round' = round /\ round \in [Threads -> 0..Rounds]
      BY <1>1, <2>1 DEF LoopTypes
    <3> QED
      BY <1>1, <2>1, <3>1, <3>2, Moved
  <2>3. Counts
    <3>1. \A k : OutSlot(t, place[t].proc, k) /\ ~Internal(Out(t, place[t].proc, k))
                   => k < place[t].slot
      BY <1>1, <2>1, PastSlots
    <3> QED
      BY <1>3, <1>4, <1>5, <2>1, <2>2, <3>1 DEF Runs, Fetched, Pushed
  <2>4. Fits
    BY <1>3, <2>1, <2>2
  <2> QED
    BY <2>2, <2>3, <2>4
<1>8. ASSUME NextRound(t) PROVE Counts /\ Fits /\ Others
  <2>1. /\ place[t].phase = "push" /\ Past(Pushes(t), Slot(t))
        /\ place[t].proc = Len(Net.block[t])
        /\ round' = [round EXCEPT ![t] = @ + 1]
        /\ Goto(t, IF round'[t] = Rounds THEN "done" ELSE "fetch", 1, 1)
    BY <1>8 DEF NextRound
  <2>2. /\ place'[t].phase = (IF round'[t] = Rounds THEN "done" ELSE "fetch")
        /\ place'[t].proc = 1 /\ place'[t].slot = 1 /\ round'[t] = round[t] + 1 /\ Others
    <3>1. round'[t] = round[t] + 1 /\ round' \in [Threads -> 0..Rounds]
          /\ \A s \in Threads : s # t => round'[s] = round[s]
      BY <1>1, <1>3, <2>1 DEF LoopTypes
    <3> QED
      BY <1>1, <2>1, <3>1, Moved
  <2>3. Counts
    <3>1. \A k : OutSlot(t, place[t].proc, k) /\ ~Internal(Out(t, place[t].proc, k))
                   => k < place[t].slot
      BY <1>1, <2>1, PastSlots
    <3> QED
      BY <1>3, <1>4, <1>5, <2>1, <2>2, <3>1 DEF Runs, Fetched, Pushed
  <2>4. Fits
    BY <1>3, <2>1, <2>2
  <2> QED
    BY <2>2, <2>3, <2>4
<1>9. Counts /\ Fits /\ Others
  BY <1>6, <1>7, <1>8
<1> HIDE DEF Counts, Fits, Others
<1>10. LoopTypes'
  <2>1. \A s \in Threads :
          /\ place'[s].proc <= Len(Net.block[s])
          /\ place'[s].phase # "done" => round'[s] < Rounds
          /\ place'[s].phase \in {"open", "wait"} => place'[s].proc = 1 /\ round'[s] = 0
    <3>1. \A s \in Threads :
            /\ place[s].proc <= Len(Net.block[s])
            /\ place[s].phase # "done" => round[s] < Rounds
            /\ place[s].phase \in {"open", "wait"} => place[s].proc = 1 /\ round[s] = 0
      BY <1>1 DEF LoopTypes
    <3> QED
      BY <1>3, <1>9, <3>1 DEF Fits, Others
  <2>2. /\ opener \in [OpenLinks -> Threads \cup {Nobody}]
        /\ attached \subseteq {l \in OpenLinks : opener[l] # Nobody}
        /\ queue \in [Links -> Seq(Frames)]
        /\ \A l \in Links : Len(queue[l]) <= Net.capacity[l]
        /\ arg \in [Links -> Frames] /\ made \in [Processors -> Frames]
    BY <1>1 DEF LoopTypes
  <2>3. place' \in [Threads -> [phase : {"open", "wait", "fetch", "push", "done"},
                                proc : Nat \ {0}, slot : Nat \ {0}]]
        /\ round' \in [Threads -> 0..Rounds]
    BY <1>9 DEF Others
  <2>4. program' \in DOMAIN Programs
    BY <1>1, <1>2
  <2>5. /\ Net' = Net /\ Threads' = Threads /\ Links' = Links
        /\ Processors' = Processors /\ OpenLinks' = OpenLinks
    BY <1>2, StaticStays
  <2> QED
    BY ONLY <1>2, <2>1, <2>2, <2>3, <2>4, <2>5 DEF LoopTypes, Frames
<1>11. MadeRight' /\ ArgRight' /\ Queued'
  <2>1. \A s \in Threads : s # t =>
          /\ \A i : Runs(s, i)' = Runs(s, i)
          /\ \A i, k : Fetched(s, i, k)' = Fetched(s, i, k) /\ Pushed(s, i, k)' = Pushed(s, i, k)
    BY <1>9, CountsStay DEF Others
  <2>2. /\ \A s, i : IsProc(s, i) => Runs(s, i)' = Runs(s, i)
        /\ \A s, i, k : InSlot(s, i, k) /\ ~Internal(In(s, i, k))
             => Fetched(s, i, k)' = Fetched(s, i, k)
        /\ \A s, i, k : OutSlot(s, i, k) /\ ~Internal(Out(s, i, k))
             => Pushed(s, i, k)' = Pushed(s, i, k)
    BY <1>9, <2>1 DEF Counts, IsProc, InSlot, OutSlot
  <2> QED
    BY <1>2, <2>2, NothingMoved
<1> QED
  BY <1>10, <1>11 DEF LoopInv

\* How far the loops over the slots are.
LEMMA CountsAre ==
    ASSUME LoopTypes, NEW t, NEW i, IsProc(t, i)
    PROVE  /\ Runs(t, i) \in Nat /\ Runs(t, i) >= round[t]
           /\ \A k : Fetched(t, i, k) \in Nat /\ Pushed(t, i, k) \in Nat
<1>1. round[t] \in Nat
  BY PipelineAssumption DEF IsProc, LoopTypes
<1> QED
  BY <1>1 DEF Runs, Fetched, Pushed

\* The next external slot of a loop over slots.
LEMMA DueIs ==
    ASSUME LoopTypes, NEW t \in Threads
    PROVE  /\ \A k : Due(Fetches(t), Slot(t), k) =>
                /\ InSlot(t, place[t].proc, k) /\ Fetches(t)[k] = In(t, place[t].proc, k)
                /\ ~Internal(In(t, place[t].proc, k))
                /\ k \in Nat \ {0} /\ k >= place[t].slot
                /\ \A m : InSlot(t, place[t].proc, m) /\ ~Internal(In(t, place[t].proc, m))
                     /\ m >= place[t].slot => m >= k
           /\ \A k : Due(Pushes(t), Slot(t), k) =>
                /\ OutSlot(t, place[t].proc, k) /\ Pushes(t)[k] = Out(t, place[t].proc, k)
                /\ ~Internal(Out(t, place[t].proc, k))
                /\ k \in Nat \ {0} /\ k >= place[t].slot
                /\ \A m : OutSlot(t, place[t].proc, m) /\ ~Internal(Out(t, place[t].proc, m))
                     /\ m >= place[t].slot => m >= k
<1>1. /\ place[t].slot \in Nat \ {0} /\ IsProc(t, place[t].proc)
      /\ Fetches(t) = Net.inputs[Proc(t, place[t].proc)] /\ Len(Fetches(t)) \in Nat
      /\ Pushes(t) = Net.outputs[Proc(t, place[t].proc)] /\ Len(Pushes(t)) \in Nat
  BY PlaceIs
<1>2. ASSUME NEW k, Due(Fetches(t), Slot(t), k)
      PROVE  /\ InSlot(t, place[t].proc, k) /\ Fetches(t)[k] = In(t, place[t].proc, k)
             /\ ~Internal(In(t, place[t].proc, k))
             /\ k \in Nat \ {0} /\ k >= place[t].slot
             /\ \A m : InSlot(t, place[t].proc, m) /\ ~Internal(In(t, place[t].proc, m))
                  /\ m >= place[t].slot => m >= k
  <2>1. /\ k \in place[t].slot..Len(Fetches(t)) /\ ~Internal(Fetches(t)[k])
        /\ \A i \in place[t].slot..(k - 1) : Internal(Fetches(t)[i])
    BY <1>2 DEF Due, Slot
  <2>2. k \in 1..Len(Fetches(t)) /\ k >= place[t].slot
    BY <1>1, <2>1
  <2>3. ASSUME NEW m, InSlot(t, place[t].proc, m), ~Internal(In(t, place[t].proc, m)),
               m >= place[t].slot
        PROVE  m >= k
    <3>1. m \in 1..Len(Fetches(t)) /\ ~Internal(Fetches(t)[m])
      BY <1>1, <2>3 DEF InSlot, In
    <3> QED
      BY <1>1, <2>1, <2>2, <2>3, <3>1
  <2> QED
    BY <1>1, <2>1, <2>2, <2>3 DEF InSlot, In
<1>3. ASSUME NEW k, Due(Pushes(t), Slot(t), k)
      PROVE  /\ OutSlot(t, place[t].proc, k) /\ Pushes(t)[k] = Out(t, place[t].proc, k)
             /\ ~Internal(Out(t, place[t].proc, k))
             /\ k \in Nat \ {0} /\ k >= place[t].slot
             /\ \A m : OutSlot(t, place[t].proc, m) /\ ~Internal(Out(t, place[t].proc, m))
                  /\ m >= place[t].slot => m >= k
  <2>1. /\ k \in place[t].slot..Len(Pushes(t)) /\ ~Internal(Pushes(t)[k])
        /\ \A i \in place[t].slot..(k - 1) : Internal(Pushes(t)[i])
    BY <1>3 DEF Due, Slot
  <2>2. k \in 1..Len(Pushes(t)) /\ k >= place[t].slot
    BY <1>1, <2>1
  <2>3. ASSUME NEW m, OutSlot(t, place[t].proc, m), ~Internal(Out(t, place[t].proc, m)),
               m >= place[t].slot
        PROVE  m >= k
    <3>1. m \in 1..Len(Pushes(t)) /\ ~Internal(Pushes(t)[m])
      BY <1>1, <2>3 DEF OutSlot, Out
    <3> QED
      BY <1>1, <2>1, <2>2, <2>3, <3>1
  <2> QED
    BY <1>1, <2>1, <2>2, <2>3 DEF OutSlot, Out
<1> QED
  BY <1>2, <1>3

\* A frame leaves a link.
LEMMA TakenFrame ==
    ASSUME NEW q \in Seq(Frames), q # <<>>, NEW n \in Nat, NEW last \in Nat, Holds(q, n, last)
    PROVE  /\ Head(q) = {n + 1} /\ Head(q) \in Frames
           /\ Tail(q) \in Seq(Frames) /\ Len(Tail(q)) = Len(q) - 1
           /\ Holds(Tail(q), n + 1, last)
<1> USE DEF Holds
<1>1. /\ Len(q) \in Nat \ {0} /\ Head(q) = q[1] /\ Head(q) \in Frames
      /\ Tail(q) \in Seq(Frames) /\ Len(Tail(q)) = Len(q) - 1
      /\ \A x \in 1..Len(Tail(q)) : Tail(q)[x] = q[x + 1]
  OBVIOUS
<1>2. Len(Tail(q)) = last - (n + 1)
  BY <1>1
<1>3. ASSUME NEW x \in 1..Len(Tail(q)) PROVE Tail(q)[x] = {(n + 1) + x}
  <2>1. x + 1 \in 1..Len(q) /\ n + (x + 1) = (n + 1) + x
    BY <1>1
  <2>2. q[x + 1] = {n + (x + 1)}
    BY <2>1
  <2> QED
    BY <1>1, <2>1, <2>2
<1> QED
  BY <1>1, <1>2, <1>3

\* fetchArgs takes a frame from the next link.
LEMMA FetchStep ==
    ASSUME LoopInv, NEW t \in Threads, Fetch(t)
    PROVE  LoopInv'
<1>1. LoopTypes /\ program \in DOMAIN Programs
  BY DEF LoopInv, LoopTypes
<1>0. PICK p : p = place[t].proc
  OBVIOUS
<1>2. PICK k : /\ k \in 1..Len(Fetches(t)) /\ Due(Fetches(t), Slot(t), k)
               /\ queue[Fetches(t)[k]] # <<>>
               /\ arg' = [arg EXCEPT ![Fetches(t)[k]] = Head(queue[Fetches(t)[k]])]
               /\ queue' = [queue EXCEPT ![Fetches(t)[k]] = Tail(@)]
               /\ Goto(t, "fetch", p, k + 1)
  BY <1>0 DEF Fetch
<1>3. /\ place[t].phase = "fetch" /\ program' = program /\ opener' = opener
      /\ attached' = attached /\ round' = round /\ made' = made
  BY DEF Fetch
<1>l. PICK l : l = In(t, p, k)
  OBVIOUS
<1>4. /\ InSlot(t, p, k) /\ Fetches(t)[k] = l /\ ~Internal(l)
      /\ k \in Nat \ {0} /\ k >= place[t].slot
      /\ \A m : InSlot(t, p, m) /\ ~Internal(In(t, p, m)) /\ m >= place[t].slot => m >= k
  BY <1>0, <1>l, <1>1, <1>2, DueIs
<1>5. /\ p \in 1..Len(Net.block[t]) /\ p \in Nat \ {0} /\ place[t].slot \in Nat \ {0}
      /\ IsProc(t, p) /\ Len(Net.block[t]) \in Nat /\ round[t] \in Nat
  <2>1. p \in 1..Len(Net.block[t]) /\ IsProc(t, p) /\ place[t].slot \in Nat \ {0}
        /\ round[t] \in 0..Rounds /\ Rounds \in Nat
    BY <1>0, <1>1, PlaceIs
  <2>2. Len(Net.block[t]) \in Nat
    BY <1>1, NetIs
  <2> QED
    BY ONLY <2>1, <2>2
<1>6. /\ place'[t].phase = "fetch" /\ place'[t].proc = p /\ place'[t].slot = k + 1
      /\ \A s \in Threads : s # t => place'[s] = place[s]
      /\ place' \in [Threads -> [phase : {"open", "wait", "fetch", "push", "done"},
                                 proc : Nat \ {0}, slot : Nat \ {0}]]
  <2>1. k + 1 \in Nat \ {0}
    BY <1>4
  <2> QED
    BY <1>1, <1>2, <1>5, <2>1, Moved
<1>7. /\ queue' = [queue EXCEPT ![l] = Tail(queue[l])]
      /\ arg' = [arg EXCEPT ![l] = Head(queue[l])]
      /\ queue[l] # <<>> /\ l \in Links /\ queue[l] \in Seq(Frames)
  <2>1. l \in Links
    BY <1>l, <1>1, <1>4, SlotIs
  <2> QED
    BY <1>1, <1>2, <1>4, <2>1 DEF LoopTypes
<1>8. /\ \A s, i : IsProc(s, i) => Runs(s, i)' = Runs(s, i)
      /\ \A s, i, m : InSlot(s, i, m) /\ ~Internal(In(s, i, m)) =>
           Fetched(s, i, m)' = IF s = t /\ i = p /\ m = k THEN Fetched(s, i, m) + 1
                               ELSE Fetched(s, i, m)
      /\ \A s, i, m : OutSlot(s, i, m) => Pushed(s, i, m)' = Pushed(s, i, m)
  <2>1. \A s \in Threads : s # t =>
          /\ \A i : Runs(s, i)' = Runs(s, i)
          /\ \A i, m : Fetched(s, i, m)' = Fetched(s, i, m) /\ Pushed(s, i, m)' = Pushed(s, i, m)
    BY <1>3, <1>6, CountsStay
  <2>2. /\ \A i : Runs(t, i)' = Runs(t, i)
        /\ \A i, m : Pushed(t, i, m)' = Pushed(t, i, m)
        /\ \A i, m : i # p => Fetched(t, i, m)' = Fetched(t, i, m)
    BY <1>0, <1>3, <1>6 DEF Runs, Pushed, Fetched
  <2>3. ASSUME NEW m, InSlot(t, p, m), ~Internal(In(t, p, m))
        PROVE  Fetched(t, p, m)' = IF m = k THEN Fetched(t, p, m) + 1 ELSE Fetched(t, p, m)
    <3>1. m \in Nat \ {0}
      BY <1>1, <2>3, SlotIs
    <3>2. /\ Fetched(t, p, m)' = round[t] + IF m < k + 1 THEN 1 ELSE 0
          /\ Fetched(t, p, m) = round[t] + IF m < place[t].slot THEN 1 ELSE 0
      BY <1>0, <1>3, <1>5, <1>6 DEF Fetched
    <3>3. m >= place[t].slot => m >= k
      BY <1>4, <2>3
    <3> QED
      BY <1>4, <1>5, <3>1, <3>2, <3>3
  <2>4. \A s, i : IsProc(s, i) => Runs(s, i)' = Runs(s, i)
    BY ONLY <2>1, <2>2 DEF IsProc
  <2>5. \A s, i, m : OutSlot(s, i, m) => Pushed(s, i, m)' = Pushed(s, i, m)
    BY ONLY <2>1, <2>2 DEF IsProc, OutSlot
  <2>6. ASSUME NEW s, NEW i, NEW m, InSlot(s, i, m), ~Internal(In(s, i, m))
        PROVE  Fetched(s, i, m)' = IF s = t /\ i = p /\ m = k THEN Fetched(s, i, m) + 1
                                   ELSE Fetched(s, i, m)
    <3>1. s \in Threads
      BY <2>6 DEF InSlot, IsProc
    <3>2. CASE s # t
      BY ONLY <2>1, <3>1, <3>2
    <3>3. CASE s = t /\ i # p
      BY ONLY <2>2, <3>3
    <3>4. CASE s = t /\ i = p
      <4>1. InSlot(t, p, m) /\ ~Internal(In(t, p, m))
        BY ONLY <2>6, <3>4
      <4>2. Fetched(t, p, m)' = IF m = k THEN Fetched(t, p, m) + 1 ELSE Fetched(t, p, m)
        BY ONLY <2>3, <4>1
      <4> QED
        BY ONLY <3>4, <4>2
    <3> QED
      BY ONLY <3>2, <3>3, <3>4
  <2> QED
    BY ONLY <2>4, <2>5, <2>6
<1>9. PICK s, j, m : OutSlot(s, j, m) /\ Out(s, j, m) = l
  BY <1>l, <1>1, <1>4, SlotIs
<1>n. PICK n : n = Fetched(t, p, k)
  OBVIOUS
<1>10. n \in Nat /\ Pushed(s, j, m) \in Nat /\ Holds(queue[l], n, Pushed(s, j, m))
  <2>1. IsProc(s, j)
    BY <1>9 DEF OutSlot
  <2>2. n \in Nat /\ Pushed(s, j, m) \in Nat
    BY ONLY <1>n, <1>1, <1>5, <2>1, CountsAre
  <2>3. InSlot(t, p, k) /\ OutSlot(s, j, m) /\ Out(s, j, m) = In(t, p, k)
        /\ ~Internal(In(t, p, k))
    BY <1>l, <1>4, <1>9
  <2>4. Queued
    BY DEF LoopInv
  <2>5. Holds(queue[In(t, p, k)], Fetched(t, p, k), Pushed(s, j, m))
    BY ONLY <2>3, <2>4 DEF Queued
  <2> QED
    BY ONLY <1>l, <1>n, <2>2, <2>5
<1>11. /\ Head(queue[l]) = {n + 1} /\ Head(queue[l]) \in Frames
       /\ Tail(queue[l]) \in Seq(Frames) /\ Len(Tail(queue[l])) = Len(queue[l]) - 1
       /\ Holds(Tail(queue[l]), n + 1, Pushed(s, j, m))
  BY ONLY <1>7, <1>10, TakenFrame
<1>12. LoopTypes'
  <2>1. /\ queue' \in [Links -> Seq(Frames)] /\ arg' \in [Links -> Frames]
    BY <1>1, <1>7, <1>11 DEF LoopTypes
  <2>2. \A c \in Links : Len(queue'[c]) <= Net.capacity[c]
    <3>1. \A c \in Links : Len(queue[c]) <= Net.capacity[c] /\ Net.capacity[c] \in Nat
      BY <1>1, NetIs DEF LoopTypes
    <3>2. queue \in [Links -> Seq(Frames)]
      BY <1>1 DEF LoopTypes
    <3>3. Len(queue'[l]) <= Len(queue[l]) /\ Len(queue'[l]) \in Nat /\ Len(queue[l]) \in Nat
      BY <1>7, <1>10, <1>11, <3>2
    <3>4. \A c \in Links : c # l => queue'[c] = queue[c]
      BY <1>7, <3>2
    <3> QED
      BY <1>7, <3>1, <3>3, <3>4
  <2>3. \A c \in Threads :
          /\ place'[c].proc <= Len(Net.block[c])
          /\ place'[c].phase # "done" => round[c] < Rounds
          /\ place'[c].phase \in {"open", "wait"} => place'[c].proc = 1 /\ round[c] = 0
    <3>1. \A c \in Threads :
            /\ place[c].proc <= Len(Net.block[c])
            /\ place[c].phase # "done" => round[c] < Rounds
            /\ place[c].phase \in {"open", "wait"} => place[c].proc = 1 /\ round[c] = 0
      BY <1>1 DEF LoopTypes
    <3> QED
      BY <1>0, <1>3, <1>6, <3>1
  <2> QED
    BY <1>1, <1>3, <1>6, <2>1, <2>2, <2>3, StaticStays DEF LoopTypes, Frames
<1>13. MadeRight'
  BY <1>3, <1>8, StaticStays DEF LoopInv, MadeRight, Frame
<1>14. \A c : c # l => arg'[c] = arg[c] /\ queue'[c] = queue[c]
  BY <1>7
<1>15. arg'[l] = {n + 1} /\ queue'[l] = Tail(queue[l])
  BY <1>1, <1>7, <1>11 DEF LoopTypes
<1>16. \A a, b, c : InSlot(a, b, c) /\ In(a, b, c) = l => a = t /\ b = p /\ c = k
  BY <1>l, <1>1, <1>4, SlotIs
<1>17. \A a, b, c : OutSlot(a, b, c) /\ Out(a, b, c) = l => a = s /\ b = j /\ c = m
  BY <1>1, <1>9, SlotIs
<1>19. ArgRight'
  <2>1. ASSUME NEW a, NEW b, NEW c, InSlot(a, b, c), ~Internal(In(a, b, c))
        PROVE  arg'[In(a, b, c)] = Frame(Fetched(a, b, c)')
    <3>1. CASE In(a, b, c) = l
      <4>1. Fetched(a, b, c)' = n + 1
        BY <1>n, <1>8, <1>16, <2>1, <3>1
      <4> QED
        <5>1. n + 1 # 0
          BY ONLY <1>10
        <5> QED
          BY ONLY <1>15, <3>1, <4>1, <5>1 DEF Frame
    <3>2. CASE In(a, b, c) # l
      <4>1. Fetched(a, b, c)' = Fetched(a, b, c)
        BY <1>l, <1>8, <2>1, <3>2
      <4>2. arg[In(a, b, c)] = Frame(Fetched(a, b, c))
        BY <2>1 DEF LoopInv, ArgRight
      <4> QED
        BY <1>14, <3>2, <4>1, <4>2
    <3> QED
      BY <3>1, <3>2
  <2>2. ASSUME NEW a, NEW b, NEW c, InSlot(a, b, c), Internal(In(a, b, c)),
               NEW d, NEW e, NEW f, OutSlot(d, e, f), Out(d, e, f) = In(a, b, c)
        PROVE  arg'[In(a, b, c)] = Frame(Runs(d, e)')
    <3>1. arg[In(a, b, c)] = Frame(Runs(d, e))
      BY <2>2 DEF LoopInv, ArgRight
    <3>2. Runs(d, e)' = Runs(d, e)
      BY <1>8, <2>2 DEF OutSlot
    <3>3. In(a, b, c) # l
      BY <1>4, <2>2
    <3> QED
      BY <1>14, <3>1, <3>2, <3>3
  <2> QED
    BY <1>3, <2>1, <2>2, StaticStays DEF ArgRight, Frame
<1>20. Queued'
  <2>1. ASSUME NEW a, NEW b, NEW c, NEW d, NEW e, NEW f,
               InSlot(a, b, c), OutSlot(d, e, f), Out(d, e, f) = In(a, b, c),
               ~Internal(In(a, b, c))
        PROVE  Holds(queue'[In(a, b, c)], Fetched(a, b, c)', Pushed(d, e, f)')
    <3>1. Pushed(d, e, f)' = Pushed(d, e, f)
      BY <1>8, <2>1
    <3>2. CASE In(a, b, c) = l
      <4>1. Fetched(a, b, c)' = n + 1
        BY <1>n, <1>8, <1>16, <2>1, <3>2
      <4>2. Pushed(d, e, f) = Pushed(s, j, m)
        BY <1>17, <2>1, <3>2
      <4> QED
        BY <1>11, <1>15, <3>1, <3>2, <4>1, <4>2
    <3>3. CASE In(a, b, c) # l
      <4>1. Fetched(a, b, c)' = Fetched(a, b, c)
        BY <1>l, <1>8, <2>1, <3>3
      <4>2. Holds(queue[In(a, b, c)], Fetched(a, b, c), Pushed(d, e, f))
        <5>1. Queued
          BY DEF LoopInv
        <5> QED
          BY ONLY <2>1, <5>1 DEF Queued
      <4> QED
        BY ONLY <1>14, <3>1, <3>3, <4>1, <4>2
    <3> QED
      BY <3>2, <3>3
  <2> QED
    BY <1>3, <2>1, StaticStays DEF Queued, Holds
<1> QED
  BY <1>12, <1>13, <1>19, <1>20 DEF LoopInv

\* A frame comes into a link.
LEMMA PutFrame ==
    ASSUME NEW q \in Seq(Frames), NEW n \in Nat, NEW last \in Nat, Holds(q, n, last),
           NEW f \in Frames, f = {last + 1}
    PROVE  Holds(Append(q, f), n, last + 1)
<1> USE DEF Holds
<1>1. /\ Len(q) \in Nat /\ Len(Append(q, f)) = Len(q) + 1
      /\ \A x \in 1..(Len(q) + 1) : Append(q, f)[x] = IF x = Len(q) + 1 THEN f ELSE q[x]
  OBVIOUS
<1>2. Len(Append(q, f)) = (last + 1) - n
  BY <1>1
<1>3. ASSUME NEW x \in 1..(Len(q) + 1) PROVE Append(q, f)[x] = {n + x}
  <2>1. CASE x = Len(q) + 1
    <3>1. n + x = last + 1
      BY <1>1, <2>1
    <3> QED
      BY <1>1, <2>1, <3>1
  <2>2. CASE x # Len(q) + 1
    <3>1. x \in 1..Len(q)
      BY <1>1, <2>2
    <3> QED
      BY <1>1, <2>2, <3>1
  <2> QED
    BY <2>1, <2>2
<1> QED
  BY <1>1, <1>2, <1>3

\* pushArgs puts a frame into the next link.
LEMMA PushStep ==
    ASSUME LoopInv, NEW t \in Threads, Push(t)
    PROVE  LoopInv'
<1>1. LoopTypes /\ program \in DOMAIN Programs
  BY DEF LoopInv, LoopTypes
<1>0. PICK p : p = place[t].proc
  OBVIOUS
<1>2. PICK k : /\ k \in 1..Len(Pushes(t)) /\ Due(Pushes(t), Slot(t), k)
               /\ Room(Pushes(t)[k])
               /\ queue' = [queue EXCEPT ![Pushes(t)[k]] = Append(@, made[Current(t)])]
               /\ Goto(t, "push", p, k + 1)
  BY <1>0 DEF Push
<1>3. /\ place[t].phase = "push" /\ program' = program /\ opener' = opener
      /\ attached' = attached /\ round' = round /\ made' = made /\ arg' = arg
  BY DEF Push
<1>l. PICK l : l = Out(t, p, k)
  OBVIOUS
<1>f. PICK f : f = made[Current(t)]
  OBVIOUS
<1>4. /\ OutSlot(t, p, k) /\ Pushes(t)[k] = l /\ ~Internal(l)
      /\ k \in Nat \ {0} /\ k >= place[t].slot
      /\ \A m : OutSlot(t, p, m) /\ ~Internal(Out(t, p, m)) /\ m >= place[t].slot => m >= k
  BY <1>0, <1>l, <1>1, <1>2, DueIs
<1>5. /\ p \in 1..Len(Net.block[t]) /\ p \in Nat \ {0} /\ place[t].slot \in Nat \ {0}
      /\ IsProc(t, p) /\ Len(Net.block[t]) \in Nat /\ round[t] \in Nat
  <2>1. p \in 1..Len(Net.block[t]) /\ IsProc(t, p) /\ place[t].slot \in Nat \ {0}
        /\ round[t] \in 0..Rounds /\ Rounds \in Nat
    BY <1>0, <1>1, PlaceIs
  <2>2. Len(Net.block[t]) \in Nat
    BY <1>1, NetIs
  <2> QED
    BY ONLY <2>1, <2>2
<1>6. /\ place'[t].phase = "push" /\ place'[t].proc = p /\ place'[t].slot = k + 1
      /\ \A s \in Threads : s # t => place'[s] = place[s]
      /\ place' \in [Threads -> [phase : {"open", "wait", "fetch", "push", "done"},
                                 proc : Nat \ {0}, slot : Nat \ {0}]]
  <2>1. k + 1 \in Nat \ {0}
    BY <1>4
  <2> QED
    BY <1>1, <1>2, <1>5, <2>1, Moved
<1>7. /\ queue' = [queue EXCEPT ![l] = Append(queue[l], f)]
      /\ l \in Links /\ queue[l] \in Seq(Frames) /\ Len(queue[l]) < Net.capacity[l]
  <2>1. l \in Links
    BY <1>l, <1>1, <1>4, SlotIs
  <2> QED
    BY <1>f, <1>1, <1>2, <1>4, <2>1 DEF LoopTypes, Room
<1>8. f \in Frames /\ f = {round[t] + 1}
  <2>1. Current(t) = Proc(t, p) /\ Current(t) \in Processors
    BY <1>0, <1>1, PlaceIs
  <2>2. f \in Frames
    BY <1>f, <1>1, <2>1 DEF LoopTypes
  <2>3. f = Frame(Runs(t, p))
    BY <1>f, <1>5, <2>1 DEF LoopInv, MadeRight
  <2>4. Runs(t, p) = round[t] + 1 /\ round[t] + 1 # 0
    BY <1>0, <1>3, <1>5 DEF Runs
  <2> QED
    BY ONLY <2>2, <2>3, <2>4 DEF Frame
<1>9. /\ \A s, i : IsProc(s, i) => Runs(s, i)' = Runs(s, i)
      /\ \A s, i, m : InSlot(s, i, m) => Fetched(s, i, m)' = Fetched(s, i, m)
      /\ \A s, i, m : OutSlot(s, i, m) /\ ~Internal(Out(s, i, m)) =>
           Pushed(s, i, m)' = IF s = t /\ i = p /\ m = k THEN Pushed(s, i, m) + 1
                              ELSE Pushed(s, i, m)
      /\ Pushed(t, p, k) = round[t]
  <2>1. \A s \in Threads : s # t =>
          /\ \A i : Runs(s, i)' = Runs(s, i)
          /\ \A i, m : Fetched(s, i, m)' = Fetched(s, i, m) /\ Pushed(s, i, m)' = Pushed(s, i, m)
    BY <1>3, <1>6, CountsStay
  <2>2. /\ \A i : Runs(t, i)' = Runs(t, i)
        /\ \A i, m : Fetched(t, i, m)' = Fetched(t, i, m)
        /\ \A i, m : i # p => Pushed(t, i, m)' = Pushed(t, i, m)
    BY <1>0, <1>3, <1>6 DEF Runs, Pushed, Fetched
  <2>3. ASSUME NEW m, OutSlot(t, p, m), ~Internal(Out(t, p, m))
        PROVE  /\ Pushed(t, p, m)' = IF m = k THEN Pushed(t, p, m) + 1 ELSE Pushed(t, p, m)
               /\ m = k => Pushed(t, p, m) = round[t]
    <3>1. m \in Nat \ {0}
      BY <1>1, <2>3, SlotIs
    <3>2. /\ Pushed(t, p, m)' = round[t] + IF m < k + 1 THEN 1 ELSE 0
          /\ Pushed(t, p, m) = round[t] + IF m < place[t].slot THEN 1 ELSE 0
      BY <1>0, <1>3, <1>5, <1>6 DEF Pushed
    <3>3. m >= place[t].slot => m >= k
      BY <1>4, <2>3
    <3> QED
      BY <1>4, <1>5, <3>1, <3>2, <3>3
  <2>4. \A s, i : IsProc(s, i) => Runs(s, i)' = Runs(s, i)
    BY ONLY <2>1, <2>2 DEF IsProc
  <2>5. \A s, i, m : InSlot(s, i, m) => Fetched(s, i, m)' = Fetched(s, i, m)
    BY ONLY <2>1, <2>2 DEF IsProc, InSlot
  <2>6. ASSUME NEW s, NEW i, NEW m, OutSlot(s, i, m), ~Internal(Out(s, i, m))
        PROVE  Pushed(s, i, m)' = IF s = t /\ i = p /\ m = k THEN Pushed(s, i, m) + 1
                                  ELSE Pushed(s, i, m)
    <3>1. s \in Threads
      BY <2>6 DEF OutSlot, IsProc
    <3>2. CASE s # t
      BY ONLY <2>1, <3>1, <3>2
    <3>3. CASE s = t /\ i # p
      BY ONLY <2>2, <3>3
    <3>4. CASE s = t /\ i = p
      <4>1. OutSlot(t, p, m) /\ ~Internal(Out(t, p, m))
        BY ONLY <2>6, <3>4
      <4>2. Pushed(t, p, m)' = IF m = k THEN Pushed(t, p, m) + 1 ELSE Pushed(t, p, m)
        BY ONLY <2>3, <4>1
      <4> QED
        BY ONLY <3>4, <4>2
    <3> QED
      BY ONLY <3>2, <3>3, <3>4
  <2>7. Pushed(t, p, k) = round[t]
    BY <1>l, <1>4, <2>3
  <2> QED
    BY ONLY <2>4, <2>5, <2>6, <2>7
<1>10. LoopTypes'
  <2>1. queue' \in [Links -> Seq(Frames)]
    <3>1. Append(queue[l], f) \in Seq(Frames)
      BY <1>7, <1>8
    <3> QED
      BY <1>1, <1>7, <3>1 DEF LoopTypes
  <2>2. \A c \in Links : Len(queue'[c]) <= Net.capacity[c]
    <3>1. \A c \in Links : Len(queue[c]) <= Net.capacity[c] /\ Net.capacity[c] \in Nat
      BY <1>1, NetIs DEF LoopTypes
    <3>2. queue \in [Links -> Seq(Frames)]
      BY <1>1 DEF LoopTypes
    <3>3. Len(queue'[l]) = Len(queue[l]) + 1 /\ Len(queue[l]) \in Nat
      BY <1>7, <1>8, <3>2
    <3>4. \A c \in Links : c # l => queue'[c] = queue[c]
      BY <1>7, <3>2
    <3> QED
      BY <1>7, <3>1, <3>3, <3>4
  <2>3. \A c \in Threads :
          /\ place'[c].proc <= Len(Net.block[c])
          /\ place'[c].phase # "done" => round[c] < Rounds
          /\ place'[c].phase \in {"open", "wait"} => place'[c].proc = 1 /\ round[c] = 0
    <3>1. \A c \in Threads :
            /\ place[c].proc <= Len(Net.block[c])
            /\ place[c].phase # "done" => round[c] < Rounds
            /\ place[c].phase \in {"open", "wait"} => place[c].proc = 1 /\ round[c] = 0
      BY <1>1 DEF LoopTypes
    <3> QED
      BY <1>0, <1>3, <1>6, <3>1
  <2> QED
    BY <1>1, <1>3, <1>6, <2>1, <2>2, <2>3, StaticStays DEF LoopTypes, Frames
<1>11. MadeRight'
  BY <1>3, <1>9, StaticStays DEF LoopInv, MadeRight, Frame
<1>12. ArgRight'
  <2>1. ASSUME NEW a, NEW b, NEW c, InSlot(a, b, c), ~Internal(In(a, b, c))
        PROVE  arg[In(a, b, c)] = Frame(Fetched(a, b, c)')
    <3>1. arg[In(a, b, c)] = Frame(Fetched(a, b, c))
      BY <2>1 DEF LoopInv, ArgRight
    <3>2. Fetched(a, b, c)' = Fetched(a, b, c)
      BY <1>9, <2>1
    <3> QED
      BY ONLY <3>1, <3>2
  <2>2. ASSUME NEW a, NEW b, NEW c, InSlot(a, b, c), Internal(In(a, b, c)),
               NEW d, NEW e, NEW g, OutSlot(d, e, g), Out(d, e, g) = In(a, b, c)
        PROVE  arg[In(a, b, c)] = Frame(Runs(d, e)')
    <3>1. arg[In(a, b, c)] = Frame(Runs(d, e))
      BY <2>2 DEF LoopInv, ArgRight
    <3>2. Runs(d, e)' = Runs(d, e)
      BY <1>9, <2>2 DEF OutSlot
    <3> QED
      BY ONLY <3>1, <3>2
  <2> QED
    BY <1>3, <2>1, <2>2, StaticStays DEF ArgRight, Frame
<1>13. \A a, b, c : OutSlot(a, b, c) /\ Out(a, b, c) = l => a = t /\ b = p /\ c = k
  BY <1>l, <1>1, <1>4, SlotIs
<1>14. queue'[l] = Append(queue[l], f) /\ \A c : c # l => queue'[c] = queue[c]
  BY <1>1, <1>7 DEF LoopTypes
<1>15. Queued'
  <2>1. ASSUME NEW a, NEW b, NEW c, NEW d, NEW e, NEW g,
               InSlot(a, b, c), OutSlot(d, e, g), Out(d, e, g) = In(a, b, c),
               ~Internal(In(a, b, c))
        PROVE  Holds(queue'[In(a, b, c)], Fetched(a, b, c)', Pushed(d, e, g)')
    <3>1. Fetched(a, b, c)' = Fetched(a, b, c)
      BY <1>9, <2>1
    <3>2. Holds(queue[In(a, b, c)], Fetched(a, b, c), Pushed(d, e, g))
      <4>1. Queued
        BY DEF LoopInv
      <4> QED
        BY ONLY <2>1, <4>1 DEF Queued
    <3>3. CASE In(a, b, c) = l
      <4>1. d = t /\ e = p /\ g = k
        BY <1>13, <2>1, <3>3
      <4>2. Pushed(d, e, g) = round[t] /\ Pushed(d, e, g)' = round[t] + 1
        BY <1>9, <2>1, <4>1
      <4>3. Fetched(a, b, c) \in Nat
        BY <1>1, <2>1, CountsAre DEF InSlot
      <4>4. Holds(Append(queue[l], f), Fetched(a, b, c), round[t] + 1)
        BY ONLY <1>5, <1>7, <1>8, <3>2, <3>3, <4>2, <4>3, PutFrame
      <4> QED
        BY ONLY <1>14, <3>1, <3>3, <4>2, <4>4
    <3>4. CASE In(a, b, c) # l
      <4>1. Pushed(d, e, g)' = Pushed(d, e, g)
        BY <1>l, <1>9, <2>1, <3>4
      <4> QED
        BY ONLY <1>14, <3>1, <3>2, <3>4, <4>1
    <3> QED
      BY <3>3, <3>4
  <2> QED
    BY <1>3, <2>1, StaticStays DEF Queued, Holds
<1> QED
  BY <1>10, <1>11, <1>12, <1>15 DEF LoopInv

\* When all its arguments are fetched, a processor has the frames of one run in
\* all its slots, and computes from them the frame of that run.
LEMMA AtRunIs ==
    ASSUME LoopInv, NEW t \in Threads, AtRun(t)
    PROVE  /\ \A k : InSlot(t, place[t].proc, k) =>
                arg[In(t, place[t].proc, k)] = {round[t] + 1}
           /\ Computed(t) = {round[t] + 1}
           /\ {round[t] + 1} \in Frames
<1>1. LoopTypes /\ program \in DOMAIN Programs /\ ArgRight
  BY DEF LoopInv, LoopTypes
<1>0. PICK p : p = place[t].proc
  OBVIOUS
<1>2. place[t].phase = "fetch" /\ Past(Fetches(t), Slot(t))
  BY DEF AtRun
<1>3. /\ IsProc(t, p) /\ p \in Nat \ {0} /\ Current(t) = Proc(t, p)
      /\ Net.inputs[Proc(t, p)] \in Seq(Links)
  BY <1>0, <1>1, PlaceIs
<1>4. round[t] \in Nat /\ round[t] + 1 \in 1..Rounds
  <2>1. round[t] \in 0..Rounds /\ Rounds \in Nat
    BY <1>1, PlaceIs
  <2>2. round[t] < Rounds
    BY <1>1, <1>2 DEF LoopTypes
  <2> QED
    BY <2>1, <2>2
<1>5. Frame(round[t] + 1) = {round[t] + 1}
  BY <1>4 DEF Frame
<1>6. ASSUME NEW k, InSlot(t, p, k)
      PROVE  arg[In(t, p, k)] = {round[t] + 1}
  <2>1. CASE ~Internal(In(t, p, k))
    <3>1. k < place[t].slot
      BY <1>0, <1>1, <1>2, <1>6, <2>1, PastSlots
    <3>2. Fetched(t, p, k) = round[t] + 1
      BY <1>0, <1>2, <3>1 DEF Fetched
    <3>3. arg[In(t, p, k)] = Frame(Fetched(t, p, k))
      BY <1>1, <1>6, <2>1 DEF ArgRight
    <3> QED
      BY ONLY <1>5, <3>2, <3>3
  <2>2. CASE Internal(In(t, p, k))
    <3>1. PICK s, j, m : OutSlot(s, j, m) /\ Out(s, j, m) = In(t, p, k)
      BY <1>1, <1>6, SlotIs
    <3>2. s = t /\ j < p
      BY <1>1, <1>6, <2>2, <3>1, SlotIs
    <3>3. arg[In(t, p, k)] = Frame(Runs(s, j))
      BY ONLY <1>1, <1>6, <2>2, <3>1 DEF ArgRight
    <3>4. Runs(s, j) = round[t] + 1
      BY <1>0, <1>2, <3>2 DEF Runs
    <3> QED
      BY ONLY <1>5, <3>3, <3>4
  <2> QED
    BY <2>1, <2>2
<1>7. Computed(t) = {round[t] + 1}
  <2>1. CASE Net.inputs[Proc(t, p)] = <<>>
    BY <1>3, <2>1 DEF Computed
  <2>2. CASE Net.inputs[Proc(t, p)] # <<>>
    <3>1. \A k \in 1..Len(Net.inputs[Proc(t, p)]) :
            arg[Net.inputs[Proc(t, p)][k]] = {round[t] + 1}
      BY <1>3, <1>6 DEF InSlot, In
    <3>2. 1 \in 1..Len(Net.inputs[Proc(t, p)])
      BY <1>3, <2>2
    <3>3. Computed(t) = UNION {arg[Net.inputs[Proc(t, p)][k]] : k \in 1..Len(Net.inputs[Proc(t, p)])}
      BY <1>3, <2>2 DEF Computed
    <3> QED
      BY ONLY <3>1, <3>2, <3>3
  <2> QED
    BY <2>1, <2>2
<1> QED
  BY <1>0, <1>4, <1>6, <1>7 DEF Frames

\* run() computes the processor's next frame.
LEMMA RunStep ==
    ASSUME LoopInv, NEW t \in Threads, Run(t)
    PROVE  LoopInv'
<1>1. LoopTypes /\ program \in DOMAIN Programs
  BY DEF LoopInv, LoopTypes
<1>0. PICK p : p = place[t].proc
  OBVIOUS
<1>f. PICK f : f = {round[t] + 1}
  OBVIOUS
<1>2. /\ AtRun(t) /\ place[t].phase = "fetch" /\ Past(Fetches(t), Slot(t))
      /\ program' = program /\ opener' = opener /\ attached' = attached
      /\ round' = round /\ queue' = queue
      /\ Goto(t, "push", p, 1)
  BY <1>0 DEF Run, AtRun
<1>3. /\ IsProc(t, p) /\ p \in Nat \ {0} /\ Current(t) = Proc(t, p)
      /\ Proc(t, p) \in Processors /\ round[t] \in Nat
      /\ Net.outputs[Proc(t, p)] \in Seq(Links) /\ p \in 1..Len(Net.block[t])
  <2>1. round[t] \in 0..Rounds /\ Rounds \in Nat
    BY <1>1, PlaceIs
  <2>2. round[t] \in Nat
    BY <2>1
  <2>3. /\ IsProc(t, p) /\ p \in Nat \ {0} /\ Current(t) = Proc(t, p)
        /\ Proc(t, p) \in Processors /\ p \in 1..Len(Net.block[t])
        /\ Net.outputs[Proc(t, p)] \in Seq(Links)
    BY <1>0, <1>1, PlaceIs
  <2> QED
    BY ONLY <2>2, <2>3
<1>4. /\ f \in Frames /\ made' = [made EXCEPT ![Proc(t, p)] = f]
      /\ arg' = [l \in Links |->
                   IF Internal(l) /\ l \in Range(Net.outputs[Proc(t, p)]) THEN f ELSE arg[l]]
  BY <1>f, <1>2, <1>3, AtRunIs DEF Run
<1>5. /\ place'[t].phase = "push" /\ place'[t].proc = p /\ place'[t].slot = 1
      /\ \A s \in Threads : s # t => place'[s] = place[s]
      /\ place' \in [Threads -> [phase : {"open", "wait", "fetch", "push", "done"},
                                 proc : Nat \ {0}, slot : Nat \ {0}]]
  BY <1>1, <1>2, <1>3, Moved
<1>6. /\ \A s, i : IsProc(s, i) =>
           Runs(s, i)' = IF s = t /\ i = p THEN round[t] + 1 ELSE Runs(s, i)
      /\ \A s, i, k : InSlot(s, i, k) /\ ~Internal(In(s, i, k)) =>
           Fetched(s, i, k)' = Fetched(s, i, k)
      /\ \A s, i, k : OutSlot(s, i, k) => Pushed(s, i, k)' = Pushed(s, i, k)
  <2>1. \A s \in Threads : s # t =>
          /\ \A i : Runs(s, i)' = Runs(s, i)
          /\ \A i, m : Fetched(s, i, m)' = Fetched(s, i, m) /\ Pushed(s, i, m)' = Pushed(s, i, m)
    BY <1>2, <1>5, CountsStay
  <2>2. /\ \A i : i # p => Runs(t, i)' = Runs(t, i)
        /\ Runs(t, p)' = round[t] + 1
        /\ \A i, m : i # p => Fetched(t, i, m)' = Fetched(t, i, m)
        /\ \A i, m : i # p => Pushed(t, i, m)' = Pushed(t, i, m)
    BY <1>0, <1>2, <1>3, <1>5 DEF Runs, Pushed, Fetched
  <2>3. ASSUME NEW k, InSlot(t, p, k), ~Internal(In(t, p, k))
        PROVE  Fetched(t, p, k)' = Fetched(t, p, k)
    <3>1. k < place[t].slot
      BY <1>0, <1>1, <1>2, <2>3, PastSlots
    <3> QED
      BY <1>0, <1>2, <1>3, <1>5, <3>1 DEF Fetched
  <2>4. ASSUME NEW k, OutSlot(t, p, k)
        PROVE  Pushed(t, p, k)' = Pushed(t, p, k)
    <3>1. k \in Nat \ {0}
      BY <1>1, <2>4, SlotIs
    <3> QED
      BY <1>0, <1>2, <1>3, <1>5, <3>1 DEF Pushed
  <2>5. ASSUME NEW s, NEW i, IsProc(s, i)
        PROVE  Runs(s, i)' = IF s = t /\ i = p THEN round[t] + 1 ELSE Runs(s, i)
    BY ONLY <2>1, <2>2, <2>5 DEF IsProc
  <2>6. ASSUME NEW s, NEW i, NEW k, InSlot(s, i, k), ~Internal(In(s, i, k))
        PROVE  Fetched(s, i, k)' = Fetched(s, i, k)
    <3>1. s \in Threads
      BY <2>6 DEF InSlot, IsProc
    <3>2. CASE s # t
      BY ONLY <2>1, <3>1, <3>2
    <3>3. CASE s = t /\ i # p
      BY ONLY <2>2, <3>3
    <3>4. CASE s = t /\ i = p
      BY ONLY <2>3, <2>6, <3>4
    <3> QED
      BY ONLY <3>2, <3>3, <3>4
  <2>7. ASSUME NEW s, NEW i, NEW k, OutSlot(s, i, k)
        PROVE  Pushed(s, i, k)' = Pushed(s, i, k)
    <3>1. s \in Threads
      BY <2>7 DEF OutSlot, IsProc
    <3>2. CASE s # t
      BY ONLY <2>1, <3>1, <3>2
    <3>3. CASE s = t /\ i # p
      BY ONLY <2>2, <3>3
    <3>4. CASE s = t /\ i = p
      BY ONLY <2>4, <2>7, <3>4
    <3> QED
      BY ONLY <3>2, <3>3, <3>4
  <2> QED
    BY ONLY <2>5, <2>6, <2>7
<1>7. LoopTypes'
  <2>1. made' \in [Processors -> Frames] /\ arg' \in [Links -> Frames]
    BY <1>1, <1>4 DEF LoopTypes
  <2>2. \A c \in Threads :
          /\ place'[c].proc <= Len(Net.block[c])
          /\ place'[c].phase # "done" => round[c] < Rounds
          /\ place'[c].phase \in {"open", "wait"} => place'[c].proc = 1 /\ round[c] = 0
    <3>1. \A c \in Threads :
            /\ place[c].proc <= Len(Net.block[c])
            /\ place[c].phase # "done" => round[c] < Rounds
            /\ place[c].phase \in {"open", "wait"} => place[c].proc = 1 /\ round[c] = 0
      BY <1>1 DEF LoopTypes
    <3> QED
      BY <1>0, <1>2, <1>5, <3>1
  <2> QED
    BY <1>1, <1>2, <1>5, <2>1, <2>2, StaticStays DEF LoopTypes, Frames
<1>8. Frame(round[t] + 1) = f
  BY <1>f, <1>3 DEF Frame
<1>9. MadeRight'
  <2>1. ASSUME NEW s, NEW i, IsProc(s, i)
        PROVE  made'[Proc(s, i)] = Frame(Runs(s, i)')
    <3>1. made[Proc(s, i)] = Frame(Runs(s, i)) /\ made \in [Processors -> Frames]
      BY <1>1, <2>1 DEF LoopInv, MadeRight, LoopTypes
    <3>2. Proc(s, i) \in Processors /\ (Proc(s, i) = Proc(t, p) <=> s = t /\ i = p)
      BY <1>1, <1>3, <2>1, ProcIs
    <3>3. Runs(s, i)' = IF s = t /\ i = p THEN round[t] + 1 ELSE Runs(s, i)
      BY <1>6, <2>1
    <3>4. made'[Proc(s, i)] = IF s = t /\ i = p THEN f ELSE made[Proc(s, i)]
      BY ONLY <1>4, <3>1, <3>2
    <3> QED
      BY ONLY <1>8, <3>1, <3>3, <3>4
  <2> QED
    BY <1>2, <2>1, StaticStays DEF MadeRight, Frame
<1>10. ArgRight'
  <2>1. ASSUME NEW a, NEW b, NEW c, InSlot(a, b, c), ~Internal(In(a, b, c))
        PROVE  arg'[In(a, b, c)] = Frame(Fetched(a, b, c)')
    <3>1. arg[In(a, b, c)] = Frame(Fetched(a, b, c))
      BY <2>1 DEF LoopInv, ArgRight
    <3>2. Fetched(a, b, c)' = Fetched(a, b, c)
      BY <1>6, <2>1
    <3>3. In(a, b, c) \in Links
      BY <1>1, <2>1, SlotIs
    <3>4. arg'[In(a, b, c)] = arg[In(a, b, c)]
      BY ONLY <1>4, <2>1, <3>3
    <3> QED
      BY ONLY <3>1, <3>2, <3>4
  <2>2. ASSUME NEW a, NEW b, NEW c, InSlot(a, b, c), Internal(In(a, b, c)),
               NEW d, NEW e, NEW g, OutSlot(d, e, g), Out(d, e, g) = In(a, b, c)
        PROVE  arg'[In(a, b, c)] = Frame(Runs(d, e)')
    <3>1. arg[In(a, b, c)] = Frame(Runs(d, e))
      BY <2>2 DEF LoopInv, ArgRight
    <3>2. In(a, b, c) \in Links /\ IsProc(d, e)
      BY <1>1, <2>2, SlotIs DEF OutSlot
    <3>3. Runs(d, e)' = IF d = t /\ e = p THEN round[t] + 1 ELSE Runs(d, e)
      BY <1>6, <3>2
    <3>4. In(a, b, c) \in Range(Net.outputs[Proc(t, p)]) <=> d = t /\ e = p
      <4>1. ASSUME In(a, b, c) \in Range(Net.outputs[Proc(t, p)])
            PROVE  d = t /\ e = p
        <5>1. PICK m \in 1..Len(Net.outputs[Proc(t, p)]) : Net.outputs[Proc(t, p)][m] = In(a, b, c)
          BY ONLY <1>3, <4>1 DEF Range
        <5>2. OutSlot(t, p, m) /\ Out(t, p, m) = In(a, b, c)
          BY <1>3, <5>1 DEF OutSlot, Out
        <5> QED
          BY <1>1, <2>2, <5>2, SlotIs
      <4>2. ASSUME d = t, e = p
            PROVE  In(a, b, c) \in Range(Net.outputs[Proc(t, p)])
        <5>1. g \in 1..Len(Net.outputs[Proc(t, p)])
              /\ Net.outputs[Proc(t, p)][g] = In(a, b, c)
          BY <2>2, <4>2 DEF OutSlot, Out
        <5> QED
          BY ONLY <1>3, <5>1 DEF Range
      <4> QED
        BY <4>1, <4>2
    <3>5. arg'[In(a, b, c)] = IF d = t /\ e = p THEN f ELSE arg[In(a, b, c)]
      BY ONLY <1>4, <2>2, <3>2, <3>4
    <3> QED
      BY ONLY <1>8, <3>1, <3>3, <3>5
  <2> QED
    BY <1>2, <2>1, <2>2, StaticStays DEF ArgRight, Frame
<1>11. Queued'
  <2>1. ASSUME NEW a, NEW b, NEW c, NEW d, NEW e, NEW g,
               InSlot(a, b, c), OutSlot(d, e, g), Out(d, e, g) = In(a, b, c),
               ~Internal(In(a, b, c))
        PROVE  Holds(queue[In(a, b, c)], Fetched(a, b, c)', Pushed(d, e, g)')
    <3>1. Fetched(a, b, c)' = Fetched(a, b, c) /\ Pushed(d, e, g)' = Pushed(d, e, g)
      BY <1>6, <2>1
    <3>2. Holds(queue[In(a, b, c)], Fetched(a, b, c), Pushed(d, e, g))
      <4>1. Queued
        BY DEF LoopInv
      <4> QED
        BY ONLY <2>1, <4>1 DEF Queued
    <3> QED
      BY ONLY <3>1, <3>2
  <2> QED
    BY <1>2, <2>1, StaticStays DEF Queued, Holds
<1> QED
  BY <1>7, <1>9, <1>10, <1>11 DEF LoopInv

\* The loops start with nothing fetched, made or pushed.
LEMMA LoopStart == LoopInit => LoopInv
<1> SUFFICES ASSUME LoopInit PROVE LoopInv
  OBVIOUS
<1>1. program \in DOMAIN Programs /\ Rounds \in Nat \ {0}
  BY PipelineAssumption DEF LoopInit
<1>2. /\ \A t \in Threads : place[t].phase = "open" /\ place[t].proc = 1 /\ place[t].slot = 1
                            /\ round[t] = 0
      /\ \A t, i : IsProc(t, i) => Runs(t, i) = 0
      /\ \A t, i, k : InSlot(t, i, k) => Fetched(t, i, k) = 0
      /\ \A t, i, k : OutSlot(t, i, k) => Pushed(t, i, k) = 0
  <2>1. \A t \in Threads : place[t].phase = "open" /\ place[t].proc = 1 /\ place[t].slot = 1
                           /\ round[t] = 0
    BY DEF LoopInit, Place
  <2>2. \A t \in Threads : \A i : Runs(t, i) = 0
    BY <2>1 DEF Runs
  <2>3. \A t \in Threads : \A i, k : Fetched(t, i, k) = 0 /\ Pushed(t, i, k) = 0
    BY <2>1 DEF Fetched, Pushed
  <2> QED
    BY ONLY <2>1, <2>2, <2>3 DEF IsProc, InSlot, OutSlot
<1>3. \A l \in Links : queue[l] = <<>> /\ arg[l] = {}
  BY DEF LoopInit
<1>4. \A p \in Processors : made[p] = {}
  BY DEF LoopInit
<1>5. LoopTypes
  <2>1. place \in [Threads -> [phase : {"open", "wait", "fetch", "push", "done"},
                               proc : Nat \ {0}, slot : Nat \ {0}]]
    BY DEF LoopInit, Place
  <2>2. queue \in [Links -> Seq(Frames)] /\ arg \in [Links -> Frames]
        /\ made \in [Processors -> Frames]
    BY DEF LoopInit, Frames
  <2>3. \A l \in Links : Len(queue[l]) <= Net.capacity[l]
    BY <1>1, <1>3, NetIs
  <2>4. \A t \in Threads : place[t].proc <= Len(Net.block[t])
    BY <1>1, <1>2, NetIs
  <2>5. round \in [Threads -> 0..Rounds] /\ \A t \in Threads : round[t] = 0 /\ 0 < Rounds
    BY <1>1 DEF LoopInit
  <2>6. opener \in [OpenLinks -> Threads \cup {Nobody}] /\ attached = {}
    BY DEF LoopInit
  <2> QED
    BY <1>1, <1>2, <2>1, <2>2, <2>3, <2>4, <2>5, <2>6 DEF LoopTypes
<1>6. MadeRight
  BY <1>1, <1>2, <1>4, ProcIs DEF MadeRight, Frame
<1>7. ArgRight
  <2>1. \A t, i, k : InSlot(t, i, k) => arg[In(t, i, k)] = {}
    BY <1>1, <1>3, SlotIs
  <2>2. \A s, j, m : OutSlot(s, j, m) => Runs(s, j) = 0
    BY <1>2 DEF OutSlot
  <2>3. \A t, i, k : InSlot(t, i, k) => Fetched(t, i, k) = 0
    BY <1>2
  <2>4. Frame(0) = {}
    BY DEF Frame
  <2>5. ASSUME NEW t, NEW i, NEW k, InSlot(t, i, k)
        PROVE  /\ arg[In(t, i, k)] = Frame(Fetched(t, i, k))
               /\ \A s, j, m : OutSlot(s, j, m) => arg[In(t, i, k)] = Frame(Runs(s, j))
    BY ONLY <2>1, <2>2, <2>3, <2>4, <2>5
  <2> QED
    BY ONLY <2>5 DEF ArgRight
<1>8. Queued
  <2>1. \A t, i, k : InSlot(t, i, k) => queue[In(t, i, k)] = <<>>
    BY <1>1, <1>3, SlotIs
  <2>2. Holds(<<>>, 0, 0)
    BY DEF Holds
  <2> QED
    BY <1>2, <2>1, <2>2 DEF Queued
<1> QED
  BY <1>5, <1>6, <1>7, <1>8 DEF LoopInv

\* A thread's step, in its loop or before.
LEMMA LoopStep ==
    ASSUME LoopInv, NEW t \in Threads, Step(t)
    PROVE  LoopInv'
BY OpeningStep, GoingOnStep, FetchStep, RunStep, PushStep DEF Step

\* A step of another kind.
LEMMA LoopKept ==
    ASSUME LoopInv, UNCHANGED loopVars
    PROVE  LoopInv'
<1>1. /\ program' = program /\ opener' = opener /\ attached' = attached /\ place' = place
      /\ round' = round /\ queue' = queue /\ arg' = arg /\ made' = made
  BY DEF loopVars, links
<1>2. LoopTypes'
  BY <1>1, StaticStays DEF LoopInv, LoopTypes, Frames
<1>3. /\ \A t, i : Runs(t, i)' = Runs(t, i)
      /\ \A t, i, k : Fetched(t, i, k)' = Fetched(t, i, k) /\ Pushed(t, i, k)' = Pushed(t, i, k)
  BY <1>1, CountsStay
<1>4. MadeRight' /\ ArgRight' /\ Queued'
  BY <1>1, <1>3, NothingMoved
<1> QED
  BY <1>2, <1>4 DEF LoopInv

\* LoopInv contains the types of the loops, and that frames are aligned.
LEMMA LoopImplies == LoopInv => LoopTypeOK /\ Aligned
<1> SUFFICES ASSUME LoopInv PROVE LoopTypeOK /\ Aligned
  OBVIOUS
<1>1. LoopTypes /\ program \in DOMAIN Programs /\ MadeRight /\ ArgRight
  BY DEF LoopInv, LoopTypes
<1>2. LoopTypeOK
  <2>1. \A t \in Threads : place[t].proc \in 1..Len(Net.block[t])
    BY <1>1, PlaceIs
  <2> QED
    BY <1>1, <2>1 DEF LoopTypes, LoopTypeOK
<1>3. ASSUME NEW t \in Threads, NEW i \in 1..Len(Net.block[t])
      PROVE  /\ made[Net.block[t][i]] = Frame(Runs(t, i))
             /\ place[t].phase = "push" /\ place[t].proc = i =>
                  \A k \in 1..Len(Net.inputs[Net.block[t][i]]) :
                    arg[Net.inputs[Net.block[t][i]][k]] = Frame(Runs(t, i))
  <2>1. IsProc(t, i) /\ Proc(t, i) = Net.block[t][i]
    BY DEF IsProc, Proc
  <2>2. made[Net.block[t][i]] = Frame(Runs(t, i))
    BY <1>1, <2>1 DEF MadeRight
  <2>3. ASSUME place[t].phase = "push", place[t].proc = i,
               NEW k \in 1..Len(Net.inputs[Net.block[t][i]])
        PROVE  arg[Net.inputs[Net.block[t][i]][k]] = Frame(Runs(t, i))
    <3>1. InSlot(t, i, k) /\ In(t, i, k) = Net.inputs[Net.block[t][i]][k]
      BY <2>1 DEF InSlot, In
    <3>2. CASE ~Internal(In(t, i, k))
      <4>1. arg[In(t, i, k)] = Frame(Fetched(t, i, k))
        BY <1>1, <3>1, <3>2 DEF ArgRight
      <4>2. Fetched(t, i, k) = Runs(t, i)
        BY <2>3 DEF Fetched, Runs
      <4> QED
        BY ONLY <3>1, <4>1, <4>2
    <3>3. CASE Internal(In(t, i, k))
      <4>1. PICK s, j, m : OutSlot(s, j, m) /\ Out(s, j, m) = In(t, i, k)
        <5>1. In(t, i, k) \in Links
          BY <1>1, <3>1, SlotIs
        <5> QED
          BY <1>1, <5>1, SlotIs
      <4>2. s = t /\ j < i
        BY <1>1, <3>1, <3>3, <4>1, SlotIs
      <4>3. arg[In(t, i, k)] = Frame(Runs(s, j))
        BY ONLY <1>1, <3>1, <3>3, <4>1 DEF ArgRight
      <4>4. Runs(s, j) = Runs(t, i)
        BY <2>3, <4>2 DEF Runs
      <4> QED
        BY ONLY <3>1, <4>3, <4>4
    <3> QED
      BY <3>2, <3>3
  <2> QED
    BY <2>2, <2>3
<1> QED
  BY <1>2, <1>3 DEF Aligned, Frame

----------------------------------------------------------------------------
\* The main thread is one of the program's, and so are the links' makers.
LEMMA MainIs ==
    ASSUME program \in DOMAIN Programs
    PROVE  /\ Main \in Threads
           /\ Net.maker \in [Links -> Threads]
           /\ Net.glThreads => GLThreads = Threads \ {Main}
           /\ ~Net.glThreads => GLThreads = {}
<1>1. Main \in Threads
  BY NetIs DEF Main
<1>2. Net.maker \in [Links -> Threads]
  BY NetIs DEF Typed, Links, Threads
<1> QED
  BY <1>1, <1>2 DEF GLThreads

\* When the program's barrier releases its threads, all of them wait there.
LEMMA AllWait ==
    ASSUME program \in DOMAIN Programs, LifeInv, Release
    PROVE  waiting = Threads
<1>1. Net.glThreads /\ Cardinality(waiting) = Cardinality(GLThreads) + 1
      /\ waiting \subseteq Threads
  BY DEF Release, BarrierCount, LifeInv
<1>2. GLThreads = Threads \ {Main} /\ Main \in Threads
  BY <1>1, MainIs
<1>3. IsFiniteSet(Threads)
  <2>1. Threads = 1..Len(Net.block) /\ 1 \in Int /\ Len(Net.block) \in Int
    BY NetIs
  <2> QED
    BY ONLY <2>1, FS_Interval
<1>4. Cardinality(Threads) \in Nat /\ Cardinality(GLThreads) = Cardinality(Threads) - 1
  <2>1. Cardinality(Threads) \in Nat
    BY <1>3, FS_CardinalityType
  <2>2. Cardinality(Threads \ {Main}) = Cardinality(Threads) - 1
    BY <1>2, <1>3, FS_RemoveElement
  <2> QED
    BY <1>2, <2>1, <2>2
<1>5. Cardinality(waiting) = Cardinality(Threads)
  BY <1>1, <1>4
<1> QED
  BY <1>1, <1>3, <1>5, FS_Subset

\* The barrier's step.
LEMMA ReleaseStep ==
    ASSUME program \in DOMAIN Programs, LifeInv, Release
    PROVE  LifeInv'
<1>1. /\ Net.glThreads /\ waiting' = {} /\ linked' = linked /\ program' = program
      /\ waiting = Threads
      /\ stage' = [t \in Threads |->
                     IF t \notin waiting THEN stage[t]
                     ELSE CASE stage[t] = "set_up" -> "link"
                            [] stage[t] = "link"   -> "loop"
                            [] stage[t] = "loop"   -> "unlink"
                            [] stage[t] = "unlink" -> "leave"]
  BY AllWait DEF Release, loopVars
<1>2. Main \in Threads /\ Net.maker \in [Links -> Threads]
  BY MainIs
<1>3. /\ \A t \in Threads : stage[t] \in {"set_up", "link", "loop", "unlink"}
      /\ Starting \/ Linking \/ Looping \/ Unlinking \/ Leaving
  BY <1>1 DEF LifeInv
<1>4. ASSUME NEW from, NEW to, \A t \in Threads : stage[t] = from,
             <<from, to>> \in {<<"set_up", "link">>, <<"link", "loop">>,
                               <<"loop", "unlink">>, <<"unlink", "leave">>}
      PROVE  stage' = [t \in Threads |-> to]
  BY ONLY <1>1, <1>4
<1>5. CASE Starting
  <2>1. \A t \in Threads : stage[t] = "set_up"
    BY <1>3, <1>5 DEF Starting
  <2>2. stage' = [t \in Threads |-> "link"]
    BY <1>4, <2>1
  <2>3. linked' = {l \in Links : Net.maker[l] \in waiting'}
    BY <1>1, <1>5 DEF Starting
  <2> QED
    BY <1>1, <1>2, <2>2, <2>3, StaticStays DEF LifeInv, Linking, Stages
<1>6. CASE Linking
  <2>1. stage' = [t \in Threads |-> "loop"]
    BY <1>4, <1>6 DEF Linking
  <2>2. linked' = {l \in Links : stage'[Net.maker[l]] # "dead"}
    BY <1>1, <1>2, <1>6, <2>1 DEF Linking
  <2> QED
    BY <1>1, <1>2, <2>1, <2>2, StaticStays DEF LifeInv, Looping, Stages
<1>7. CASE Looping
  <2>1. \A t \in Threads : stage[t] = "loop"
    BY <1>3, <1>7 DEF Looping
  <2>2. stage' = [t \in Threads |-> "unlink"]
    BY <1>4, <2>1
  <2>3. linked' = {l \in Links : ~(Net.maker[l] = Main /\ Main \in waiting')}
    BY <1>1, <1>2, <1>7, <2>1 DEF Looping
  <2> QED
    BY <1>1, <1>2, <2>2, <2>3, StaticStays DEF LifeInv, Unlinking, Stages, Main
<1>8. CASE Unlinking
  <2>1. stage' = [t \in Threads |-> "leave"]
    BY <1>4, <1>8 DEF Unlinking
  <2>2. linked' = {l \in Links : Net.maker[l] # Main /\ stage'[Net.maker[l]] # "ended"}
    BY <1>1, <1>2, <1>8, <2>1 DEF Unlinking
  <2> QED
    BY <1>1, <1>2, <2>1, <2>2, StaticStays DEF LifeInv, Leaving, Stages, Main
<1>9. CASE Leaving
  BY <1>2, <1>3, <1>9 DEF Leaving
<1> QED
  BY <1>3, <1>5, <1>6, <1>7, <1>8, <1>9

\* What the stage of one thread says of all.
LEMMA StageIs ==
    ASSUME program \in DOMAIN Programs, LifeInv, NEW t \in Threads
    PROVE  /\ stage[t] \in {"unborn", "binding", "stillborn", "set_up"} =>
                Net.glThreads /\ Starting
           /\ stage[t] = "link" => Net.glThreads /\ Linking
           /\ stage[t] = "loop" /\ Net.glThreads => Looping
           /\ stage[t] = "unlink" => Net.glThreads /\ Unlinking
           /\ stage[t] \in {"leave", "ended"} => Net.glThreads /\ Leaving
<1>1. CASE ~Net.glThreads
  BY <1>1 DEF LifeInv
<1>2. CASE Net.glThreads
  <2>1. Starting \/ Linking \/ Looping \/ Unlinking \/ Leaving
    BY <1>2 DEF LifeInv
  <2> QED
    BY <1>2, <2>1 DEF Starting, Linking, Looping, Unlinking, Leaving
<1> QED
  BY <1>1, <1>2

\* A GLThread's construction, its failure and its end, and the end of the
\* program.
LEMMA ThreadStep ==
    ASSUME program \in DOMAIN Programs, LifeInv, NEW t \in Threads,
           Spawn(t) \/ Bind(t) \/ Fail(t) \/ Leave(t) \/ (t = Main /\ Join)
    PROVE  LifeInv'
<1>1. /\ waiting' = waiting /\ program' = program
      /\ stage \in [Threads -> Stages] /\ waiting \subseteq Threads
      /\ \A s \in waiting : stage[s] \in {"set_up", "link", "loop", "unlink"}
  BY DEF Spawn, Bind, Fail, Leave, Join, loopVars, LifeInv
<1>2. /\ Main \in Threads /\ Net.maker \in [Links -> Threads]
      /\ Net.glThreads => GLThreads = Threads \ {Main}
      /\ ~Net.glThreads => GLThreads = {}
  BY MainIs
<1>3. Net.glThreads => stage[Main] \notin {"unborn", "binding", "stillborn", "dead"}
  BY DEF LifeInv
<1>4. CASE Spawn(t) \/ Bind(t)
  <2>1. PICK s \in {"binding", "set_up"} :
          /\ stage' = [stage EXCEPT ![t] = s] /\ linked' = linked
          /\ stage[t] \in {"unborn", "binding"}
    BY <1>4 DEF Spawn, Bind, Enter
  <2>2. Net.glThreads /\ Starting
    BY <2>1, StageIs
  <2>3. t # Main
    BY <1>3, <2>1, <2>2
  <2>4. Starting'
    BY <1>1, <2>1, <2>2, StaticStays DEF Starting
  <2> QED
    BY <1>1, <1>2, <1>3, <2>1, <2>2, <2>3, <2>4, StaticStays DEF LifeInv, Stages, Main
<1>5. CASE Fail(t)
  <2>1. PICK s \in {"stillborn", "dead"} :
          /\ stage' = [stage EXCEPT ![t] = s] /\ linked' = linked \ MadeBy(t)
          /\ s = "stillborn" <=> stage[t] = "binding"
          /\ stage[t] \in {"binding", "set_up", "loop"} /\ (stage[t] # "binding" => t \notin waiting)
    BY <1>5 DEF Fail, Enter, At
  <2>2. Net.glThreads /\ t # Main
    BY <1>2, <1>5 DEF Fail
  <2>3. t \notin waiting
    BY <1>1, <2>1
  <2>4. Starting' \/ Looping'
    <3>1. CASE stage[t] \in {"binding", "set_up"}
      <4>1. Starting
        BY <3>1, StageIs
      <4> QED
        BY <1>1, <2>1, <4>1, StaticStays DEF Starting
    <3>2. CASE stage[t] = "loop"
      <4>1. Looping
        BY <2>2, <3>2, StageIs
      <4>2. s = "dead" /\ \A r \in Threads : stage'[r] = IF r = t THEN "dead" ELSE stage[r]
        BY <1>1, <2>1, <3>2
      <4>3. linked' = {l \in Links : stage'[Net.maker[l]] # "dead"}
        BY <1>2, <2>1, <4>1, <4>2 DEF Looping, MadeBy
      <4> QED
        BY <1>1, <4>1, <4>2, <4>3, StaticStays DEF Looping
    <3> QED
      BY <2>1, <3>1, <3>2
  <2> QED
    BY <1>1, <1>2, <1>3, <2>1, <2>2, <2>3, <2>4, StaticStays DEF LifeInv, Stages, Main
<1>6. CASE Leave(t)
  <2>1. /\ stage' = [stage EXCEPT ![t] = "ended"] /\ linked' = linked \ MadeBy(t)
        /\ stage[t] = "leave" /\ t \notin waiting /\ Net.glThreads /\ t # Main
    BY <1>2, <1>6 DEF Leave, Enter, At
  <2>2. Leaving
    BY <2>1, StageIs
  <2>3. \A r \in Threads : stage'[r] = IF r = t THEN "ended" ELSE stage[r]
    BY <1>1, <2>1
  <2>4. linked' = {l \in Links : Net.maker[l] # Main /\ stage'[Net.maker[l]] # "ended"}
    BY <1>2, <2>1, <2>2, <2>3 DEF Leaving, MadeBy
  <2>5. Leaving'
    BY <1>1, <2>2, <2>3, <2>4, StaticStays DEF Leaving, Main
  <2> QED
    BY <1>1, <1>2, <1>3, <2>1, <2>5, StaticStays DEF LifeInv, Stages, Main
<1>7. CASE t = Main /\ Join
  <2>1. /\ stage' = [stage EXCEPT ![Main] = "ended"] /\ linked' = linked
        /\ stage[Main] = "leave" /\ Main \notin waiting
    BY <1>7 DEF Join, Enter, At
  <2>2. Leaving /\ Net.glThreads
    BY <1>2, <2>1, StageIs
  <2>3. \A r \in Threads : stage'[r] = IF r = Main THEN "ended" ELSE stage[r]
    BY <1>1, <2>1
  <2>4. linked' = {l \in Links : Net.maker[l] # Main /\ stage'[Net.maker[l]] # "ended"}
    BY <1>2, <2>1, <2>2, <2>3 DEF Leaving
  <2>5. Leaving'
    BY <1>1, <2>2, <2>3, <2>4, StaticStays DEF Leaving, Main
  <2> QED
    BY <1>1, <1>2, <2>1, <2>2, <2>5, StaticStays DEF LifeInv, Stages, Main
<1> QED
  BY <1>4, <1>5, <1>6, <1>7

\* A thread comes to the program's barrier.
LEMMA WaitStep ==
    ASSUME program \in DOMAIN Programs, LifeInv, NEW t \in Threads,
           SetUp(t) \/ MakeLinks(t) \/ LeaveLoop(t) \/ Unlink(t)
    PROVE  LifeInv'
<1>1. /\ waiting' = waiting \cup {t} /\ stage' = stage /\ program' = program
      /\ stage[t] \in {"set_up", "link", "loop", "unlink"} /\ t \notin waiting
      /\ stage \in [Threads -> Stages] /\ waiting \subseteq Threads
      /\ \A s \in waiting : stage[s] \in {"set_up", "link", "loop", "unlink"}
  BY DEF SetUp, MakeLinks, LeaveLoop, Unlink, Wait, At, loopVars, LifeInv
<1>2. Main \in Threads /\ Net.maker \in [Links -> Threads]
  BY MainIs
<1>3. /\ Net.glThreads => stage[Main] \notin {"unborn", "binding", "stillborn", "dead"}
      /\ Threads' = Threads /\ Links' = Links /\ Net' = Net /\ Main' = Main
  <2>1. Net.glThreads => stage[Main] \notin {"unborn", "binding", "stillborn", "dead"}
    BY DEF LifeInv
  <2>2. Main' = Main
    BY DEF Main
  <2> QED
    BY <1>1, <2>1, <2>2, StaticStays
<1>4. Net.glThreads /\ (Starting' \/ Linking' \/ Looping' \/ Unlinking')
  <2>1. CASE SetUp(t)
    <3>1. Starting /\ Net.glThreads /\ linked' = linked
      BY <2>1, StageIs DEF SetUp, At
    <3> QED
      BY <1>1, <1>3, <3>1 DEF Starting
  <2>2. CASE MakeLinks(t)
    <3>1. Linking /\ Net.glThreads /\ linked' = linked \cup MadeBy(t)
      BY <2>2, StageIs DEF MakeLinks, At
    <3>2. linked' = {l \in Links : Net.maker[l] \in waiting'}
      BY <1>1, <1>2, <3>1 DEF Linking, MadeBy
    <3> QED
      BY <1>1, <1>3, <3>1, <3>2 DEF Linking
  <2>3. CASE LeaveLoop(t)
    <3>1. Looping /\ Net.glThreads /\ linked' = linked
      BY <2>3, StageIs DEF LeaveLoop, At
    <3> QED
      BY <1>1, <1>3, <3>1 DEF Looping
  <2>4. CASE Unlink(t)
    <3>1. Unlinking /\ Net.glThreads
          /\ linked' = IF t = Main THEN linked \ MadeBy(t) ELSE linked
      BY <2>4, StageIs DEF Unlink, At
    <3>2. linked' = {l \in Links : ~(Net.maker[l] = Main /\ Main \in waiting')}
      BY <1>1, <1>2, <3>1 DEF Unlinking, MadeBy
    <3> QED
      BY <1>1, <1>3, <3>1, <3>2 DEF Unlinking
  <2> QED
    BY <2>1, <2>2, <2>3, <2>4
<1> QED
  BY <1>1, <1>2, <1>3, <1>4 DEF LifeInv, Stages

\* Nothing changes in the threads' lives.
LEMMA LifeKept ==
    ASSUME LifeInv, program' = program, UNCHANGED life
    PROVE  LifeInv'
<1>1. stage' = stage /\ waiting' = waiting /\ linked' = linked
  BY DEF life
<1> QED
  BY <1>1, StaticStays DEF LifeInv, Starting, Linking, Looping, Unlinking, Leaving, Main, Stages

----------------------------------------------------------------------------
\* A program stays the one it is.
LEMMA ProgramStays == [Next]_vars => program' = program
BY DEF Next, vars, loopVars, Release, Proceed, Fail, Spawn, Bind, SetUp, MakeLinks,
       Loop, LeaveLoop, Unlink, Leave, Join, Step, OpenFirst, OpenSecond, Opened,
       StartLoop, Fetch, Run, Push, NextProcessor, NextRound

\* IInv holds in every initial state ...
LEMMA Initially == Init => IInv
<1> SUFFICES ASSUME Init PROVE IInv
  OBVIOUS
<1>1. LoopInit /\ program \in DOMAIN Programs
  BY DEF Init, LoopInit
<1>2. LoopInv
  BY <1>1, LoopStart
<1>3. /\ Main \in Threads
      /\ Net.glThreads => GLThreads = Threads \ {Main}
      /\ ~Net.glThreads => GLThreads = {}
  BY <1>1, MainIs
<1>4. LifeInv
  <2>1. /\ waiting = {}
        /\ stage = [t \in Threads |-> IF t \in GLThreads THEN "unborn"
                                      ELSE IF Net.glThreads THEN "set_up" ELSE "loop"]
        /\ linked = IF Net.glThreads THEN {} ELSE Links
    BY DEF Init
  <2> QED
    BY <1>3, <2>1 DEF LifeInv, Starting, Stages
<1> QED
  BY <1>2, <1>4 DEF IInv

\* ... and every step preserves it.
LEMMA Kept == IInv /\ [Next]_vars => IInv'
<1> SUFFICES ASSUME LoopInv, LifeInv, [Next]_vars PROVE IInv'
  BY DEF IInv
<1>1. program \in DOMAIN Programs
  BY DEF LoopInv, LoopTypes
<1>2. CASE UNCHANGED vars
  <2>1. UNCHANGED loopVars /\ UNCHANGED life /\ program' = program
    BY <1>2 DEF vars, loopVars
  <2> QED
    BY <2>1, LoopKept, LifeKept DEF IInv
<1>3. CASE Release
  <2>1. UNCHANGED loopVars
    BY <1>3 DEF Release
  <2> QED
    BY <1>1, <1>3, <2>1, LoopKept, ReleaseStep DEF IInv
<1>4. ASSUME NEW t \in Threads, Proceed(t) \/ Fail(t)
      PROVE  IInv'
  <2>1. CASE Spawn(t) \/ Bind(t) \/ Fail(t) \/ Leave(t) \/ (t = Main /\ Join)
    <3>1. UNCHANGED loopVars
      BY <2>1 DEF Spawn, Bind, Fail, Leave, Join
    <3> QED
      BY <1>1, <2>1, <3>1, LoopKept, ThreadStep DEF IInv
  <2>2. CASE SetUp(t) \/ MakeLinks(t) \/ LeaveLoop(t) \/ Unlink(t)
    <3>1. UNCHANGED loopVars
      BY <2>2 DEF SetUp, MakeLinks, LeaveLoop, Unlink
    <3> QED
      BY <1>1, <2>2, <3>1, LoopKept, WaitStep DEF IInv
  <2>3. CASE Loop(t)
    <3>1. Step(t) /\ UNCHANGED life
      BY <2>3 DEF Loop
    <3>2. program' = program
      BY ProgramStays
    <3> QED
      BY <3>1, <3>2, LoopStep, LifeKept DEF IInv
  <2> QED
    BY <1>4, <2>1, <2>2, <2>3 DEF Proceed
<1> QED
  BY <1>2, <1>3, <1>4 DEF Next

\* The inductive invariant: where every loop is, the frames every slot, argument
\* and link holds there, the stages the threads are in together, and the links
\* that exist in these.
THEOREM Invariant == Spec => []IInv
BY Initially, Kept, PTL DEF Spec

\* Every variable has its type, no link holds more frames than it has room for,
\* and no ProcessLink is attached to that nobody has created: ThreadBlock,
\* Processor, LinkBlock and GLThread in any of the programs.
THEOREM TypeCorrect == Spec => []TypeOK
<1>1. IInv => TypeOK
  <2> SUFFICES ASSUME LoopInv, LifeInv PROVE TypeOK
    BY DEF IInv
  <2>1. LoopTypeOK
    BY LoopImplies
  <2>2. linked \subseteq Links
    BY DEF LifeInv, Starting, Linking, Looping, Unlinking, Leaving
  <2> QED
    BY <2>1, <2>2 DEF TypeOK, LifeInv, Stages
<1> QED
  BY <1>1, Invariant, PTL

\* Whatever the threads, the links' capacities and the paths between processors:
\* in its n-th run a processor has the n-th frame of every source in all its
\* input slots (fetchArgs, run and pushArgs of any network of processors).
THEOREM Alignment == Spec => []Aligned
<1>1. IInv => Aligned
  BY LoopImplies DEF IInv
<1> QED
  BY <1>1, Invariant, PTL

\* The threads at the ends of a link.
LEMMA EndIs ==
    ASSUME program \in DOMAIN Programs, NEW l \in Links, NEW t \in Ends(l)
    PROVE  /\ t \in Threads
           /\ Net.glThreads /\ Net.maker[l] # Main => t = Net.maker[l]
<1>1. PICK i \in 1..Len(Net.block[t]) :
        l \in Range(Net.inputs[Proc(t, i)]) \cup Range(Net.outputs[Proc(t, i)])
  BY DEF Ends, EndsOf, Net, Links, Proc
<1>2. t \in Threads
  BY DEF Ends, EndsOf, Net, Links, Threads
<1>3. IsProc(t, i) /\ Net.inputs[Proc(t, i)] \in Seq(Links)
      /\ Net.outputs[Proc(t, i)] \in Seq(Links)
  <2>1. IsProc(t, i)
    BY <1>2 DEF IsProc
  <2> QED
    BY <2>1, NetIs, ProcIs
<1>4. PICK s, j, m : OutSlot(s, j, m) /\ Out(s, j, m) = l
  BY SlotIs
<1>5. PICK r, h, k : InSlot(r, h, k) /\ In(r, h, k) = l
  BY SlotIs
<1>6. t = s \/ t = r
  <2>1. CASE l \in Range(Net.inputs[Proc(t, i)])
    <3>1. PICK n \in 1..Len(Net.inputs[Proc(t, i)]) : Net.inputs[Proc(t, i)][n] = l
      BY <1>3, <2>1 DEF Range
    <3>2. InSlot(t, i, n) /\ In(t, i, n) = l
      BY <1>3, <3>1 DEF InSlot, In
    <3> QED
      BY <1>5, <3>2, SlotIs
  <2>2. CASE l \in Range(Net.outputs[Proc(t, i)])
    <3>1. PICK n \in 1..Len(Net.outputs[Proc(t, i)]) : Net.outputs[Proc(t, i)][n] = l
      BY <1>3, <2>2 DEF Range
    <3>2. OutSlot(t, i, n) /\ Out(t, i, n) = l
      BY <1>3, <3>1 DEF OutSlot, Out
    <3> QED
      BY <1>4, <3>2, SlotIs
  <2> QED
    BY <1>1, <2>1, <2>2
<1>7. Net.glThreads => Net.maker[l] = 1 \/ (Net.maker[l] = s /\ s = r)
  <2>1. /\ s \in DOMAIN Net.block /\ r \in DOMAIN Net.block
        /\ j \in 1..Len(Net.block[s]) /\ h \in 1..Len(Net.block[r])
    BY <1>4, <1>5 DEF InSlot, OutSlot, IsProc, Threads
  <2>2. l \in Range(Net.outputs[Net.block[s][j]]) \cap Range(Net.inputs[Net.block[r][h]])
    <3>1. /\ Net.outputs[Net.block[s][j]] \in Seq(Links)
          /\ Net.inputs[Net.block[r][h]] \in Seq(Links)
      BY <1>4, <1>5, NetIs, ProcIs DEF InSlot, OutSlot, Proc
    <3> QED
      BY <1>4, <1>5, <3>1 DEF InSlot, OutSlot, In, Out, Proc, Range
  <2>3. Local(Net)
    BY NetIs
  <2> QED
    BY ONLY <2>1, <2>2, <2>3 DEF Local
<1> QED
  BY <1>2, <1>6, <1>7 DEF Main

\* No slot refers to a link that is gone, and no link to a slot that is gone,
\* whatever fails and when: the scopes of LinkBlock and of the GLThreads' own
\* links, and the program's barrier between them.
THEOREM NothingDangles == Spec => NoDangling
<1>1. IInv => \A l \in Links : (\E t \in Ends(l) : At(t, "loop")) => l \in linked
  <2> SUFFICES ASSUME LoopInv, LifeInv, NEW l \in Links, NEW t \in Ends(l), At(t, "loop")
               PROVE  l \in linked
    BY DEF IInv
  <2>1. program \in DOMAIN Programs /\ t \in Threads /\ stage[t] = "loop"
    <3>1. program \in DOMAIN Programs
      BY DEF LoopInv, LoopTypes
    <3> QED
      BY <3>1, EndIs DEF At
  <2>2. CASE ~Net.glThreads
    BY <2>2 DEF LifeInv
  <2>3. CASE Net.glThreads
    <3>1. Looping /\ stage[Main] # "dead"
      BY <2>1, <2>3, StageIs DEF LifeInv
    <3>2. stage[Net.maker[l]] # "dead"
      BY <2>1, <2>3, <3>1, EndIs
    <3> QED
      BY <3>1, <3>2 DEF Looping
  <2> QED
    BY <2>2, <2>3
<1>2. IInv /\ [Next]_vars =>
        [\A l \in Links : (l \in linked) # (l \in linked') => \A t \in Ends(l) : Alive(t)]_vars
  <2> SUFFICES ASSUME LoopInv, LifeInv, Next, NEW l \in Links, (l \in linked) # (l \in linked'),
                      NEW e \in Ends(l)
               PROVE  Alive(e)
    BY DEF IInv
  <2>1. program \in DOMAIN Programs
    BY DEF LoopInv, LoopTypes
  <2>2. e \in Threads
    BY <2>1, EndIs
  <2>3. PICK t \in Threads : MakeLinks(t) \/ Unlink(t) \/ Leave(t) \/ Fail(t)
    <3>1. linked' # linked
      OBVIOUS
    <3> QED
      BY <3>1 DEF Next, Release, Proceed, Spawn, Bind, SetUp, Loop, LeaveLoop, Join, life
  <2>4. CASE MakeLinks(t) \/ Unlink(t)
    <3>1. stage[t] \in {"link", "unlink"}
      BY <2>4 DEF MakeLinks, Unlink, At
    <3>2. Linking \/ Unlinking
      BY <2>1, <3>1, StageIs
    <3> QED
      BY <2>2, <3>2 DEF Linking, Unlinking, Alive
  <2>5. CASE Leave(t) \/ Fail(t)
    <3>1. /\ l \in linked /\ Net.maker[l] = t /\ t \in GLThreads
          /\ stage[t] \in {"leave", "binding", "set_up", "loop"}
      BY <2>5 DEF Leave, Fail, MadeBy, At
    <3>2. Net.glThreads /\ t # Main
      BY <2>1, <3>1, MainIs
    <3>3. e = t
      BY <2>1, <3>1, <3>2, EndIs
    <3>4. stage[t] \notin {"binding", "set_up"}
      BY <2>1, <3>1, StageIs DEF Starting
    <3> QED
      BY <3>1, <3>3, <3>4 DEF Alive
  <2> QED
    BY <2>3, <2>4, <2>5
<1>3. Spec => [](\A l \in Links : (\E t \in Ends(l) : At(t, "loop")) => l \in linked)
  BY <1>1, Invariant, PTL
<1>4. Spec => [][\A l \in Links : (l \in linked) # (l \in linked')
                                    => \A t \in Ends(l) : Alive(t)]_vars
  BY <1>2, Invariant, PTL DEF Spec
<1> QED
  BY <1>3, <1>4 DEF NoDangling

\* A GLThread that has failed stays failed, and the program with it never comes
\* to its end: the others wait at a barrier, or the main thread at the failed
\* thread's initBarrier.
THEOREM FailureIsFinal == Spec => [](Failed => []~Done)
<1>1. IInv /\ Failed => ~Done
  <2> SUFFICES ASSUME LoopInv, LifeInv, NEW t \in Threads, stage[t] \in {"stillborn", "dead"}
               PROVE  ~Done
    BY DEF IInv, Failed
  <2> QED
    BY DEF LifeInv, Done
<1>2. IInv /\ Failed /\ [Next]_vars => Failed'
  <2> SUFFICES ASSUME LoopInv, LifeInv, [Next]_vars,
                      NEW t \in Threads, stage[t] \in {"stillborn", "dead"}
               PROVE  t \in Threads' /\ stage'[t] \in {"stillborn", "dead"}
    BY DEF IInv, Failed
  <2>1. stage \in [Threads -> Stages] /\ t \notin waiting
    BY DEF LifeInv
  <2>2. program' = program
    BY ProgramStays
  <2>3. Release \/ stage' = stage \/ \E s \in Threads, g \in Stages :
          s # t /\ stage' = [stage EXCEPT ![s] = g]
    <3>1. CASE \E s \in Threads : Spawn(s)
      BY <3>1 DEF Spawn, Enter, Stages
    <3>2. CASE \E s \in Threads : Bind(s)
      BY <3>2 DEF Bind, Enter, Stages
    <3>3. CASE \E s \in Threads : Fail(s)
      BY <3>3 DEF Fail, At, Enter, Stages
    <3>4. CASE \E s \in Threads : Leave(s)
      BY <3>4 DEF Leave, At, Enter, Stages
    <3>5. CASE Join
      <4>1. Main \in Threads
        BY MainIs DEF LoopInv, LoopTypes
      <4> QED
        BY <3>5, <4>1 DEF Join, At, Enter, Stages
    <3>6. CASE UNCHANGED vars \/ Release \/
               \E s \in Threads : SetUp(s) \/ MakeLinks(s) \/ Loop(s) \/ LeaveLoop(s) \/ Unlink(s)
      BY <3>6 DEF vars, life, SetUp, MakeLinks, Loop, LeaveLoop, Unlink
    <3> QED
      BY <3>1, <3>2, <3>3, <3>4, <3>5, <3>6 DEF Next, Proceed
  <2>4. stage'[t] \in {"stillborn", "dead"}
    <3>1. CASE Release
      BY <2>1, <3>1 DEF Release
    <3>2. CASE stage' = stage
      BY <3>2
    <3>3. CASE \E s \in Threads, g \in Stages :
                 s # t /\ stage' = [stage EXCEPT ![s] = g]
      BY <2>1, <3>3
    <3> QED
      BY <2>3, <3>1, <3>2, <3>3
  <2> QED
    BY <2>2, <2>4, StaticStays
<1> QED
  BY <1>1, <1>2, Invariant, PTL DEF Spec

----------------------------------------------------------------------------
(* Programs whose processes open their ProcessLinks in contradictory       *)
(* orders.                                                                 *)

\* A thread has come past links that are attached.
Reached ==
    \A t \in Threads : \A j \in 1..Len(Net.opens[t]) :
        (place[t].phase \in {"open", "wait"} => j < place[t].slot)
          => Net.opens[t][j] \in attached

\* A link that has one end has it in a thread that waits for the other.
Awaited ==
    \A l \in OpenLinks : \A t \in Threads :
        opener[l] = t /\ l \notin attached =>
            /\ place[t].phase = "wait"
            /\ place[t].slot \in 1..Len(Net.opens[t])
            /\ Net.opens[t][place[t].slot] = l

\* Every process has opened its links in ascending order.
Ascending(rank) ==
    \A t \in Threads : \A j, k \in 1..Len(Net.opens[t]) :
        j < k /\ Net.opens[t][k] \in attached =>
            /\ Net.opens[t][j] \in attached
            /\ rank[Net.opens[t][j]] < rank[Net.opens[t][k]]

Ranked ==
    /\ IsFiniteSet(attached)
    /\ \E rank \in [attached -> 1..Cardinality(attached)] : Ascending(rank)

OrderInv == Reached /\ Awaited /\ Ranked

\* t has a slot with the link.
HasIn(t, l) == \E i, m : InSlot(t, i, m) /\ In(t, i, m) = l
HasOut(t, l) == \E i, m : OutSlot(t, i, m) /\ Out(t, i, m) = l

LEMMA OneEach ==
    ASSUME program \in DOMAIN Programs, NEW l, NEW s, NEW t
    PROVE  (HasIn(s, l) /\ HasIn(t, l)) \/ (HasOut(s, l) /\ HasOut(t, l)) => s = t
<1>1. ASSUME HasIn(s, l), HasIn(t, l) PROVE s = t
  <2>1. PICK i, m : InSlot(s, i, m) /\ In(s, i, m) = l
    BY <1>1 DEF HasIn
  <2>2. PICK j, n : InSlot(t, j, n) /\ In(t, j, n) = l
    BY <1>1 DEF HasIn
  <2> QED
    BY <2>1, <2>2, SlotIs
<1>2. ASSUME HasOut(s, l), HasOut(t, l) PROVE s = t
  <2>1. PICK i, m : OutSlot(s, i, m) /\ Out(s, i, m) = l
    BY <1>2 DEF HasOut
  <2>2. PICK j, n : OutSlot(t, j, n) /\ Out(t, j, n) = l
    BY <1>2 DEF HasOut
  <2> QED
    BY <2>1, <2>2, SlotIs
<1> QED
  BY <1>1, <1>2

LEMMA InRange ==
    ASSUME NEW S, NEW s \in Seq(S), NEW e, e \in Range(s)
    PROVE  \E m \in 1..Len(s) : s[m] = e
BY DEF Range

\* What a process opens.
LEMMA OpensAre ==
    ASSUME program \in DOMAIN Programs, NEW t \in Threads
    PROVE  /\ DOMAIN Net.opens = Threads /\ Net.opens[t] \in Seq(Links)
           /\ \A j, k \in 1..Len(Net.opens[t]) : Net.opens[t][j] = Net.opens[t][k] => j = k
           /\ \A k \in 1..Len(Net.opens[t]) :
                /\ Net.opens[t][k] \in OpenLinks /\ Net.opens[t][k] \in Links
                /\ ~Internal(Net.opens[t][k])
                /\ HasIn(t, Net.opens[t][k]) \/ HasOut(t, Net.opens[t][k])
<1>1. Typed(Net) /\ Paired(Net) /\ t \in DOMAIN Net.block
  BY PipelineAssumption DEF Net, Threads
<1>2. DOMAIN Net.opens = Threads /\ Net.opens[t] \in Seq(Links)
  BY <1>1 DEF Typed, Threads, Links
<1>3. /\ \A j, k \in 1..Len(Net.opens[t]) : Net.opens[t][j] = Net.opens[t][k] => j = k
      /\ \A l \in Range(Net.opens[t]) :
           /\ Net.capacity[l] > 0
           /\ \E p \in Range(Net.block[t]) :
                l \in Range(Net.inputs[p]) \cup Range(Net.outputs[p])
  BY <1>1, <1>2 DEF Paired
<1>4. ASSUME NEW k \in 1..Len(Net.opens[t])
      PROVE  /\ Net.opens[t][k] \in OpenLinks /\ Net.opens[t][k] \in Links
             /\ ~Internal(Net.opens[t][k])
             /\ HasIn(t, Net.opens[t][k]) \/ HasOut(t, Net.opens[t][k])
  <2> PICK l : l = Net.opens[t][k]
    OBVIOUS
  <2>1. l \in Range(Net.opens[t]) /\ l \in Links
    BY <1>2 DEF Range
  <2>2. l \in OpenLinks
    BY <2>1 DEF OpenLinks
  <2>3. ~Internal(l)
    BY <1>3, <2>1 DEF Internal
  <2>4. PICK p \in Range(Net.block[t]) : l \in Range(Net.inputs[p]) \cup Range(Net.outputs[p])
    BY <1>3, <2>1
  <2>5. PICK i \in 1..Len(Net.block[t]) : Net.block[t][i] = p
    BY <2>4, NetIs DEF Range
  <2>6. IsProc(t, i) /\ Proc(t, i) = p /\ p \in Processors
    BY <2>5, ProcIs DEF IsProc, Proc
  <2>7. Net.inputs[p] \in Seq(Links) /\ Net.outputs[p] \in Seq(Links)
    BY <2>6, NetIs
  <2>8. CASE l \in Range(Net.inputs[p])
    <3>1. PICK m \in 1..Len(Net.inputs[p]) : Net.inputs[p][m] = l
      BY ONLY <2>7, <2>8, InRange
    <3>2. HasIn(t, l)
      BY <2>6, <3>1 DEF HasIn, InSlot, In
    <3> QED
      BY <2>1, <2>2, <2>3, <3>2
  <2>9. CASE l \in Range(Net.outputs[p])
    <3>1. PICK m \in 1..Len(Net.outputs[p]) : Net.outputs[p][m] = l
      BY ONLY <2>7, <2>9, InRange
    <3>2. HasOut(t, l)
      BY <2>6, <3>1 DEF HasOut, OutSlot, Out
    <3> QED
      BY <2>1, <2>2, <2>3, <3>2
  <2> QED
    BY <2>4, <2>8, <2>9
<1> QED
  BY <1>2, <1>3, <1>4

\* At most two processes open a link.
OpensIt(t, l) == \E k \in 1..Len(Net.opens[t]) : Net.opens[t][k] = l

LEMMA TwoEnds ==
    ASSUME program \in DOMAIN Programs, NEW l,
           NEW s \in Threads, NEW t \in Threads, NEW u \in Threads, s # t,
           OpensIt(s, l), OpensIt(t, l), OpensIt(u, l)
    PROVE  u = s \/ u = t
<1>1. \A x \in Threads : OpensIt(x, l) => HasIn(x, l) \/ HasOut(x, l)
  BY OpensAre DEF OpensIt
<1>2. \A x, y : (HasIn(x, l) /\ HasIn(y, l)) \/ (HasOut(x, l) /\ HasOut(y, l)) => x = y
  BY OneEach
<1> QED
  BY <1>1, <1>2

\* Where a thread that opens its links is among them.
LEMMA OpeningIs ==
    ASSUME LoopTypes, NEW t \in Threads, ~Past(Net.opens[t], Slot(t))
    PROVE  /\ place[t].slot \in 1..Len(Net.opens[t])
           /\ Opening(t) = Net.opens[t][place[t].slot] /\ Opening(t) \in OpenLinks
<1>1. program \in DOMAIN Programs /\ place[t].slot \in Nat \ {0}
  BY PlaceIs DEF LoopTypes
<1>2. place[t].slot \in 1..Len(Net.opens[t])
  BY <1>1, OpensAre DEF Past, Slot
<1> QED
  BY <1>1, <1>2, OpensAre DEF Opening, Slot

\* Nothing has been opened.
LEMMA OrderStart == LoopInit => OrderInv
<1> SUFFICES ASSUME LoopInit PROVE OrderInv
  OBVIOUS
<1>1. program \in DOMAIN Programs /\ attached = {}
      /\ opener = [l \in OpenLinks |-> Nobody]
      /\ place = [t \in Threads |-> Place("open", 1, 1)]
  BY DEF LoopInit
<1>2. Reached
  BY <1>1 DEF Reached, Place
<1>3. Awaited
  BY <1>1, NetIs DEF Awaited, Nobody
<1>4. Ranked
  <2>1. IsFiniteSet({}) /\ Cardinality({}) = 0
    BY FS_EmptySet
  <2>2. [x \in {} |-> x] \in [{} -> 1..0]
    OBVIOUS
  <2> QED
    BY <1>1, <2>1, <2>2 DEF Ranked, Ascending
<1> QED
  BY <1>2, <1>3, <1>4 DEF OrderInv

\* One more link in the order.
Extendible(A, l, rank) ==
    /\ IsFiniteSet(A \cup {l})
    /\ \E new \in [A \cup {l} -> 1..Cardinality(A \cup {l})] :
         \A m \in A : new[m] = rank[m] /\ new[m] < new[l]

LEMMA RankNext ==
    ASSUME NEW A, IsFiniteSet(A), NEW l, l \notin A, NEW rank \in [A -> 1..Cardinality(A)]
    PROVE  Extendible(A, l, rank)
<1>1. IsFiniteSet(A \cup {l}) /\ Cardinality(A \cup {l}) = Cardinality(A) + 1
  BY FS_AddElement
<1>2. Cardinality(A) \in Nat
  BY FS_CardinalityType
<1>3. PICK c : c = Cardinality(A)
  OBVIOUS
<1>4. [m \in A \cup {l} |-> IF m = l THEN c + 1 ELSE rank[m]] \in [A \cup {l} -> 1..(c + 1)]
  BY ONLY <1>2, <1>3, rank \in [A -> 1..Cardinality(A)]
<1>5. PICK new \in [A \cup {l} -> 1..(c + 1)] :
        new = [m \in A \cup {l} |-> IF m = l THEN c + 1 ELSE rank[m]]
  BY ONLY <1>4
<1>6. \A m \in A : new[m] = rank[m] /\ new[m] < new[l]
  BY ONLY <1>2, <1>3, <1>5, l \notin A, rank \in [A -> 1..Cardinality(A)]
<1> QED
  BY ONLY <1>1, <1>3, <1>5, <1>6 DEF Extendible

\* The second end of a link arrives: both have opened what comes before it.
LEMMA BothReached ==
    ASSUME LoopTypes, Reached, Awaited, NEW t \in Threads, OpenSecond(t),
           Opening(t) \notin attached,
           NEW u \in Threads, NEW j \in 1..Len(Net.opens[u]), NEW k \in 1..Len(Net.opens[u]),
           j < k, Net.opens[u][k] = Opening(t)
    PROVE  Net.opens[u][j] \in attached
<1>1. program \in DOMAIN Programs /\ opener \in [OpenLinks -> Threads \cup {Nobody}]
  BY DEF LoopTypes
<1>2. PICK l : l = Opening(t)
  OBVIOUS
<1>3. place[t].phase = "open" /\ opener[l] # Nobody /\ ~Past(Net.opens[t], Slot(t))
  BY <1>2 DEF OpenSecond
<1>4. l \in OpenLinks /\ place[t].slot \in 1..Len(Net.opens[t])
      /\ Net.opens[t][place[t].slot] = l
  BY <1>2, <1>3, OpeningIs
<1>5. PICK s \in Threads : opener[l] = s
  BY ONLY <1>1, <1>3, <1>4
<1>6. place[s].phase = "wait" /\ place[s].slot \in 1..Len(Net.opens[s])
      /\ Net.opens[s][place[s].slot] = l
  BY <1>2, <1>4, <1>5 DEF Awaited
<1>7. s # t
  BY ONLY <1>3, <1>6
<1>8. u = s \/ u = t
  <2>1. OpensIt(s, l)
    BY ONLY <1>6 DEF OpensIt
  <2>2. OpensIt(t, l)
    BY ONLY <1>4 DEF OpensIt
  <2>3. OpensIt(u, l)
    BY <1>2 DEF OpensIt
  <2> QED
    BY <1>1, <1>7, <2>1, <2>2, <2>3, TwoEnds
<1>9. place[u].slot \in 1..Len(Net.opens[u]) /\ Net.opens[u][place[u].slot] = l
  BY ONLY <1>4, <1>6, <1>8
<1>10. k = place[u].slot
  BY <1>1, <1>2, <1>9, OpensAre
<1> QED
  BY <1>10 DEF Reached

\* The link becomes the next one in the order.
LEMMA SecondStep ==
    ASSUME LoopTypes, OrderInv, NEW t \in Threads, OpenSecond(t), Opening(t) \notin attached
    PROVE  Ranked'
<1>1. Reached /\ Awaited /\ IsFiniteSet(attached)
  BY DEF OrderInv, Ranked
<1>2. PICK rank \in [attached -> 1..Cardinality(attached)] : Ascending(rank)
  BY DEF OrderInv, Ranked
<1>3. PICK l : l = Opening(t)
  OBVIOUS
<1>4. program' = program /\ attached' = attached \cup {l} /\ l \notin attached
  BY <1>3 DEF OpenSecond
<1>5. Extendible(attached, l, rank)
  BY <1>1, <1>2, <1>4, RankNext
<1>6. PICK new \in [attached' -> 1..Cardinality(attached')] :
        \A m \in attached : new[m] = rank[m] /\ new[m] < new[l]
  BY ONLY <1>4, <1>5 DEF Extendible
<1>7. ASSUME NEW u \in Threads, NEW j \in 1..Len(Net.opens[u]), NEW k \in 1..Len(Net.opens[u]),
             j < k, Net.opens[u][k] \in attached'
      PROVE  Net.opens[u][j] \in attached' /\ new[Net.opens[u][j]] < new[Net.opens[u][k]]
  <2>1. CASE Net.opens[u][k] = l
    <3>1. Net.opens[u][j] \in attached
      BY <1>1, <1>3, <1>4, <1>7, <2>1, BothReached
    <3> QED
      BY ONLY <1>4, <1>6, <2>1, <3>1
  <2>2. CASE Net.opens[u][k] # l
    <3>1. Net.opens[u][k] \in attached
      BY ONLY <1>4, <1>7, <2>2
    <3>2. Net.opens[u][j] \in attached /\ rank[Net.opens[u][j]] < rank[Net.opens[u][k]]
      BY <1>2, <1>7, <3>1 DEF Ascending
    <3> QED
      BY ONLY <1>4, <1>6, <3>1, <3>2
  <2> QED
    BY ONLY <2>1, <2>2
<1>8. Ascending(new)'
  BY <1>4, <1>7, StaticStays DEF Ascending
<1> QED
  BY ONLY <1>4, <1>5, <1>6, <1>8 DEF Ranked, Extendible

\* A step that attaches nothing.
LEMMA OrderStays ==
    ASSUME Ranked, program' = program, attached' = attached
    PROVE  Ranked'
BY StaticStays DEF Ranked, Ascending

\* A thread opens its links.
LEMMA OpeningKeepsOrder ==
    ASSUME LoopTypes, OrderInv, NEW t \in Threads, OpenFirst(t) \/ OpenSecond(t) \/ Opened(t)
    PROVE  OrderInv'
<1>1. /\ program \in DOMAIN Programs /\ Ranked /\ Reached /\ Awaited
      /\ opener \in [OpenLinks -> Threads \cup {Nobody}]
  BY DEF LoopTypes, OrderInv
<1>2. program' = program /\ attached \subseteq attached'
  BY DEF OpenFirst, OpenSecond, Opened, links
<1>3. Ranked'
  <2>1. CASE attached' = attached
    BY <1>1, <1>2, <2>1, OrderStays
  <2>2. CASE attached' # attached
    <3>1. OpenSecond(t) /\ Opening(t) \notin attached
      BY <2>2 DEF OpenFirst, OpenSecond, Opened, links
    <3> QED
      BY <3>1, SecondStep
  <2> QED
    BY ONLY <2>1, <2>2
<1>4. PICK phase \in {"open", "wait"}, slot \in Nat \ {0} : Goto(t, phase, 1, slot)
  <2>1. Slot(t) \in Nat \ {0} /\ Slot(t) + 1 \in Nat \ {0}
    BY PlaceIs DEF Slot
  <2> QED
    BY <2>1 DEF OpenFirst, OpenSecond, Opened
<1>5. /\ place'[t].phase = phase /\ place'[t].slot = slot
      /\ \A s \in Threads : s # t => place'[s] = place[s]
  BY <1>4, Moved
<1>6. /\ place[t].phase \in {"open", "wait"}
      /\ slot = place[t].slot \/ (slot = place[t].slot + 1 /\ Opening(t) \in attached')
  BY <1>4, <1>5, Moved DEF OpenFirst, OpenSecond, Opened, Slot, links
<1>7. Reached'
  <2>1. ASSUME NEW s \in Threads, NEW j \in 1..Len(Net.opens[s]),
               place'[s].phase \in {"open", "wait"} => j < place'[s].slot
        PROVE  Net.opens[s][j] \in attached'
    <3>1. CASE s # t
      BY <1>1, <1>2, <1>5, <2>1, <3>1 DEF Reached
    <3>2. CASE s = t /\ j < place[t].slot
      BY <1>1, <1>2, <2>1, <3>2 DEF Reached
    <3>3. CASE s = t /\ ~(j < place[t].slot)
      <4>1. j < slot /\ j \in Nat /\ place[t].slot \in Nat
        BY <1>5, <2>1, <3>3, PlaceIs
      <4>2. j = place[t].slot /\ Opening(t) \in attached'
        BY <1>6, <3>3, <4>1
      <4> QED
        BY <3>3, <4>2 DEF Opening, Slot
    <3> QED
      BY <3>1, <3>2, <3>3
  <2> QED
    BY <1>2, <2>1, StaticStays DEF Reached
<1>8. Awaited'
  <2>1. ASSUME NEW l \in OpenLinks, NEW s \in Threads, opener'[l] = s, l \notin attached'
        PROVE  /\ place'[s].phase = "wait" /\ place'[s].slot \in 1..Len(Net.opens[s])
               /\ Net.opens[s][place'[s].slot] = l
    <3>1. l \notin attached
      BY <1>2, <2>1
    <3>2. opener[l] = s =>
            /\ place[s].phase = "wait" /\ place[s].slot \in 1..Len(Net.opens[s])
            /\ Net.opens[s][place[s].slot] = l
      BY <1>1, <3>1 DEF Awaited
    <3>3. CASE OpenFirst(t)
      <4>1. /\ opener' = [opener EXCEPT ![Opening(t)] = t] /\ Goto(t, "wait", 1, Slot(t))
            /\ place[t].phase = "open" /\ Opening(t) \in OpenLinks
            /\ place[t].slot \in 1..Len(Net.opens[t])
            /\ Opening(t) = Net.opens[t][place[t].slot]
        BY <3>3, OpeningIs DEF OpenFirst
      <4>2. place'[t].phase = "wait" /\ place'[t].slot = place[t].slot
        BY <4>1, Moved DEF Slot
      <4>3. CASE l = Opening(t)
        <5>1. s = t
          BY <1>1, <2>1, <4>1, <4>3
        <5> QED
          BY <4>1, <4>2, <4>3, <5>1
      <4>4. CASE l # Opening(t)
        <5>1. opener[l] = s
          BY <1>1, <2>1, <4>1, <4>4
        <5>2. s # t
          BY <3>2, <4>1, <5>1
        <5> QED
          BY <1>5, <3>2, <5>1, <5>2
      <4> QED
        BY <4>3, <4>4
    <3>4. CASE OpenSecond(t)
      <4>1. opener[l] = s /\ place[t].phase = "open"
        BY <2>1, <3>4 DEF OpenSecond
      <4>2. s # t
        BY <3>2, <4>1
      <4> QED
        BY <1>5, <3>2, <4>1, <4>2
    <3>5. CASE Opened(t)
      <4>1. opener[l] = s /\ Opening(t) \in attached
        BY <2>1, <3>5 DEF Opened, links
      <4>2. s # t
        BY <3>1, <3>2, <4>1 DEF Opening, Slot
      <4> QED
        BY <1>5, <3>2, <4>1, <4>2
    <3> QED
      BY <3>3, <3>4, <3>5
  <2> QED
    BY <1>2, <2>1, StaticStays DEF Awaited
<1> QED
  BY <1>3, <1>7, <1>8 DEF OrderInv

\* A thread that has opened its links.
LEMMA LoopingKeepsOrder ==
    ASSUME LoopTypes, OrderInv, NEW t \in Threads,
           StartLoop(t) \/ Fetch(t) \/ Run(t) \/ Push(t) \/ NextProcessor(t) \/ NextRound(t)
    PROVE  OrderInv'
<1>1. program \in DOMAIN Programs /\ Ranked /\ Reached /\ Awaited
  BY DEF LoopTypes, OrderInv
<1>2. program' = program /\ attached' = attached /\ opener' = opener
  BY DEF StartLoop, Fetch, Run, Push, NextProcessor, NextRound, links
<1>3. place[t].phase # "wait"
  BY DEF StartLoop, Fetch, Run, AtRun, Push, NextProcessor, NextRound
<1>4. PICK phase \in {"fetch", "push", "done"} : \E proc, slot : Goto(t, phase, proc, slot)
  <2>1. CASE NextRound(t)
    BY <2>1 DEF NextRound
  <2>2. CASE ~NextRound(t)
    BY <2>2 DEF StartLoop, Fetch, Run, Push, NextProcessor
  <2> QED
    BY <2>1, <2>2
<1>5. /\ place'[t].phase = phase
      /\ \A s \in Threads : s # t => place'[s] = place[s]
  BY <1>4, Moved
<1>6. ASSUME NEW j \in 1..Len(Net.opens[t])
      PROVE  Net.opens[t][j] \in attached
  <2>1. CASE StartLoop(t)
    <3>1. \A k \in place[t].slot..Len(Net.opens[t]) : Internal(Net.opens[t][k])
      BY <2>1 DEF StartLoop, Past, Slot
    <3>2. ~Internal(Net.opens[t][j])
      BY <1>1, OpensAre
    <3>3. j < place[t].slot
      BY <3>1, <3>2, PlaceIs
    <3> QED
      BY <1>1, <3>3 DEF Reached
  <2>2. CASE place[t].phase \in {"fetch", "push"}
    BY <1>1, <2>2 DEF Reached
  <2> QED
    BY <2>1, <2>2 DEF Fetch, Run, AtRun, Push, NextProcessor, NextRound
<1>7. Reached'
  <2>1. ASSUME NEW s \in Threads, NEW j \in 1..Len(Net.opens[s]),
               place'[s].phase \in {"open", "wait"} => j < place'[s].slot
        PROVE  Net.opens[s][j] \in attached
    BY <1>1, <1>5, <1>6, <2>1 DEF Reached
  <2> QED
    BY <1>2, <2>1, StaticStays DEF Reached
<1>8. Awaited'
  <2>1. ASSUME NEW l \in OpenLinks, NEW s \in Threads, opener[l] = s, l \notin attached
        PROVE  /\ place'[s].phase = "wait" /\ place'[s].slot \in 1..Len(Net.opens[s])
               /\ Net.opens[s][place'[s].slot] = l
    <3>1. /\ place[s].phase = "wait" /\ place[s].slot \in 1..Len(Net.opens[s])
          /\ Net.opens[s][place[s].slot] = l
      BY <1>1, <2>1 DEF Awaited
    <3>2. s # t
      BY <1>3, <3>1
    <3> QED
      BY <1>5, <3>1, <3>2
  <2> QED
    BY <1>2, <2>1, StaticStays DEF Awaited
<1> QED
  BY <1>1, <1>2, <1>7, <1>8, OrderStays DEF OrderInv

\* Other steps open nothing.
LEMMA OrderRests ==
    ASSUME OrderInv, UNCHANGED loopVars
    PROVE  OrderInv'
<1>1. program' = program /\ attached' = attached /\ opener' = opener /\ place' = place
  BY DEF loopVars, links
<1> QED
  BY <1>1, StaticStays, OrderStays DEF OrderInv, Reached, Awaited

LEMMA OrderKept == LoopInv /\ OrderInv /\ [Next]_vars => OrderInv'
<1> SUFFICES ASSUME LoopInv, OrderInv, [Next]_vars PROVE OrderInv'
  OBVIOUS
<1>1. LoopTypes
  BY DEF LoopInv
<1>2. CASE UNCHANGED loopVars
  BY <1>2, OrderRests
<1>3. CASE \E t \in Threads : Step(t)
  BY <1>1, <1>3, OpeningKeepsOrder, LoopingKeepsOrder DEF Step
<1> QED
  BY <1>2, <1>3
  DEF Next, Proceed, vars, Release, Spawn, Bind, SetUp, MakeLinks, Loop, LeaveLoop, Unlink,
      Leave, Join, Fail

\* Threads that are past the barrier behind the loop have come to its end.
Ran ==
    \A t \in Threads :
        stage[t] \in {"unlink", "leave", "ended"} \/ (stage[t] = "loop" /\ t \in waiting)
          => place[t].phase = "done"

LEMMA RanKept == IInv /\ Ran /\ [Next]_vars => Ran'
<1> SUFFICES ASSUME LoopInv, LifeInv, Ran, [Next]_vars PROVE Ran'
  BY DEF IInv
<1>1. program' = program /\ Threads' = Threads
  BY ProgramStays, StaticStays
<1>2. /\ LoopTypes /\ Main \in Threads
      /\ stage \in [Threads -> Stages] /\ waiting \subseteq Threads
      /\ \A t \in waiting : stage[t] \in {"set_up", "link", "loop", "unlink"}
  BY MainIs DEF LifeInv, LoopInv, LoopTypes
<1>3. CASE Release
  <2>1. place' = place /\ waiting' = {}
    BY <1>3 DEF Release, loopVars
  <2>2. ASSUME NEW t \in Threads, stage'[t] \in {"unlink", "leave", "ended"}
        PROVE  place[t].phase = "done"
    <3>1. CASE t \notin waiting
      BY <1>2, <1>3, <2>2, <3>1 DEF Release, Ran
    <3>2. CASE t \in waiting
      <4>1. stage[t] \in {"loop", "unlink"}
        BY <1>2, <1>3, <2>2, <3>2 DEF Release
      <4> QED
        BY <3>2, <4>1 DEF Ran
    <3> QED
      BY <3>1, <3>2
  <2> QED
    BY <1>1, <2>1, <2>2 DEF Ran
<1>4. ASSUME NEW t \in Threads, Loop(t)
      PROVE  Ran'
  <2>1. stage' = stage /\ waiting' = waiting /\ stage[t] = "loop" /\ t \notin waiting /\ Step(t)
    BY <1>4 DEF Loop, At, life
  <2>2. PICK phase, proc, slot : Goto(t, phase, proc, slot)
    <3>1. CASE Fetch(t) \/ Push(t)
      BY <3>1 DEF Fetch, Push
    <3>2. CASE OpenFirst(t) \/ OpenSecond(t) \/ Opened(t) \/ StartLoop(t) \/ Run(t)
      BY <3>2 DEF OpenFirst, OpenSecond, Opened, StartLoop, Run
    <3>3. CASE NextProcessor(t) \/ NextRound(t)
      BY <3>3 DEF NextProcessor, NextRound
    <3> QED
      BY <2>1, <3>1, <3>2, <3>3 DEF Step
  <2>3. \A s \in Threads : s # t => place'[s] = place[s]
    BY <1>2, <2>2, Moved
  <2> QED
    BY <1>1, <2>1, <2>3 DEF Ran
<1>5. ASSUME NEW t \in Threads, LeaveLoop(t)
      PROVE  Ran'
  BY <1>1, <1>5 DEF LeaveLoop, At, Wait, loopVars, Ran
<1>6. ASSUME NEW t \in Threads,
             Spawn(t) \/ Bind(t) \/ SetUp(t) \/ MakeLinks(t) \/ Unlink(t) \/ Leave(t) \/ Fail(t)
      PROVE  Ran'
  <2>1. place' = place
    BY <1>6 DEF Spawn, Bind, SetUp, MakeLinks, Unlink, Leave, Fail, loopVars
  <2>2. \/ waiting' = waiting /\ \E g \in {"binding", "set_up", "stillborn", "dead"} :
             stage' = [stage EXCEPT ![t] = g]
        \/ waiting' = waiting /\ stage[t] = "leave" /\ stage' = [stage EXCEPT ![t] = "ended"]
        \/ waiting' = waiting \cup {t} /\ stage' = stage /\ stage[t] # "loop"
    BY <1>6 DEF Spawn, Bind, SetUp, MakeLinks, Unlink, Leave, Fail, At, Enter, Wait
  <2> QED
    BY <1>1, <1>2, <2>1, <2>2 DEF Ran
<1>7. CASE Join
  BY <1>1, <1>2, <1>7 DEF Join, At, Enter, loopVars, Ran
<1>8. CASE UNCHANGED vars
  BY <1>1, <1>8 DEF vars, life, loopVars, Ran
<1> QED
  BY <1>3, <1>4, <1>5, <1>6, <1>7, <1>8 DEF Next, Proceed

\* Processes that open their ProcessLinks in contradictory orders, as those of
\* deadlock.cpp do, never come to their end, whatever else the program is: if
\* they did, the order in which the links found their second ends would be an
\* order in which all of them open theirs (ProcessLink::openResources).
THEOREM DisorderNeverEnds == Spec => (~Orderable => []~Done)
<1>1. Init => OrderInv /\ Ran
  <2> SUFFICES ASSUME Init PROVE OrderInv /\ Ran
    OBVIOUS
  <2>1. OrderInv
    BY OrderStart DEF Init
  <2> QED
    BY <2>1 DEF Init, Ran
<1>2. LoopInv /\ LifeInv /\ OrderInv /\ Ran /\ Done => Orderable
  <2> SUFFICES ASSUME LoopInv, LifeInv, OrderInv, Ran, Done PROVE Orderable
    OBVIOUS
  <2>1. program \in DOMAIN Programs /\ attached \subseteq OpenLinks
    BY DEF LoopInv, LoopTypes
  <2>2. \A t \in Threads : place[t].phase = "done"
    BY DEF Done, Ran
  <2>3. \A t \in Threads : \A k \in 1..Len(Net.opens[t]) : Net.opens[t][k] \in attached
    BY <2>2 DEF OrderInv, Reached
  <2>4. OpenLinks \subseteq attached
    <3> SUFFICES ASSUME NEW t \in Threads, NEW l \in Range(Net.opens[t]) PROVE l \in attached
      BY DEF OpenLinks
    <3>1. PICK k \in 1..Len(Net.opens[t]) : Net.opens[t][k] = l
      BY <2>1, OpensAre DEF Range
    <3> QED
      BY <2>3, <3>1
  <2>5. attached = OpenLinks
    BY <2>1, <2>4
  <2>6. PICK rank \in [OpenLinks -> 1..Cardinality(OpenLinks)] : Ascending(rank)
    BY <2>5 DEF OrderInv, Ranked
  <2>7. DOMAIN Net.opens = Threads
    BY <2>1, NetIs DEF Typed, Threads
  <2>8. \A t \in Threads : \A j, k \in 1..Len(Net.opens[t]) :
          j < k => rank[Net.opens[t][j]] < rank[Net.opens[t][k]]
    BY <2>3, <2>6 DEF Ascending
  <2>9. OpenLinks = UNION {Range(Programs[program].opens[t]) : t \in DOMAIN Programs[program].opens}
    BY <2>7 DEF OpenLinks, Net
  <2> QED
    BY <2>1, <2>6, <2>7, <2>8, <2>9 DEF Orderable, OrderablePrograms, Net
<1>3. IInv /\ OrderInv /\ Ran /\ [Next]_vars => OrderInv' /\ Ran'
  BY OrderKept, RanKept DEF IInv
<1>4. IInv /\ OrderInv /\ Ran /\ Done => Orderable
  BY <1>2 DEF IInv
<1>5. ~Orderable /\ [Next]_vars => ~Orderable'
  BY ProgramStays DEF Orderable
<1> QED
  BY <1>1, <1>3, <1>4, <1>5, Invariant, PTL DEF Spec

----------------------------------------------------------------------------
(* Each link of a program, as it is used there, is a BoundedQueue: what    *)
(* ThreadedLink, ProcessLink and SocketLink are shown to implement.        *)

\* Any program, and any of its links but the InternalSingleLinks.
CONSTANTS TheProgram, TheLink

\* A frame's number; 0 for none.
Number(f) == IF f = {} THEN 0 ELSE CHOOSE n \in f : TRUE

TheQueue == [x \in 1..Len(queue[TheLink]) |-> Number(queue[TheLink][x])]
TheHeld == Number(arg[TheLink])
ThePushed == TheHeld + Len(queue[TheLink])

Link == INSTANCE BoundedQueue WITH
    Capacity <- Programs[TheProgram].capacity[TheLink],
    NumFrames <- Rounds,
    queue <- TheQueue,
    pushed <- ThePushed,
    held <- TheHeld

TheLinkAssumption ==
    /\ TheProgram \in DOMAIN Programs
    /\ TheLink \in DOMAIN Programs[TheProgram].capacity
    /\ Programs[TheProgram].capacity[TheLink] # 0

TheLinkCounts ==
    /\ TheHeld \in Nat /\ Len(queue[TheLink]) \in Nat
    /\ ThePushed = TheHeld + Len(queue[TheLink])
    /\ queue[TheLink] \in Seq(Frames)
    /\ \A x \in 1..Len(queue[TheLink]) : queue[TheLink][x] = {TheHeld + x}
    /\ TheQueue = [x \in 1..Len(queue[TheLink]) |-> TheHeld + x]
    /\ TheLink \in Links /\ ~Internal(TheLink)

\* What an external link holds and what its input slot refers to.
LEMMA LinkHolds ==
    ASSUME LoopInv, NEW l \in Links, ~Internal(l)
    PROVE  /\ \E n, last \in Nat : arg[l] = Frame(n) /\ Holds(queue[l], n, last)
           /\ queue[l] \in Seq(Frames) /\ Len(queue[l]) <= Net.capacity[l]
           /\ Net.capacity[l] \in Nat
<1>1. LoopTypes /\ program \in DOMAIN Programs
  BY DEF LoopInv, LoopTypes
<1>2. PICK t, i, k : InSlot(t, i, k) /\ In(t, i, k) = l
  BY <1>1, SlotIs
<1>3. PICK s, j, m : OutSlot(s, j, m) /\ Out(s, j, m) = l
  BY <1>1, SlotIs
<1>4. arg[l] = Frame(Fetched(t, i, k))
  BY <1>2 DEF LoopInv, ArgRight
<1>5. Holds(queue[l], Fetched(t, i, k), Pushed(s, j, m))
  <2>1. Queued
    BY DEF LoopInv
  <2>2. Holds(queue[In(t, i, k)], Fetched(t, i, k), Pushed(s, j, m))
    <3>1. InSlot(t, i, k) /\ OutSlot(s, j, m) /\ Out(s, j, m) = In(t, i, k)
          /\ ~Internal(In(t, i, k))
      BY <1>2, <1>3
    <3> QED
      BY ONLY <2>1, <3>1 DEF Queued
  <2> QED
    BY ONLY <1>2, <2>2
<1>6. Fetched(t, i, k) \in Nat /\ Pushed(s, j, m) \in Nat
  BY <1>1, <1>2, <1>3, CountsAre DEF InSlot, OutSlot
<1>7. queue[l] \in Seq(Frames) /\ Len(queue[l]) <= Net.capacity[l]
      /\ Net.capacity[l] \in Nat
  BY <1>1, NetIs DEF LoopTypes
<1> QED
  BY <1>4, <1>5, <1>6, <1>7

\* The numbers of frames.
LEMMA NumberIs == /\ \A n \in Nat : Number(Frame(n)) = n
                  /\ \A n : Number({n}) = n
<1>1. ASSUME NEW n PROVE Number({n}) = n
  <2>1. \A x \in {n} : x = n
    OBVIOUS
  <2>2. (CHOOSE x \in {n} : TRUE) \in {n}
    OBVIOUS
  <2> QED
    BY <2>1, <2>2 DEF Number
<1>2. ASSUME NEW n \in Nat PROVE Number(Frame(n)) = n
  <2>1. CASE n = 0
    BY <2>1 DEF Frame, Number
  <2>2. CASE n # 0
    BY <1>1, <2>2 DEF Frame
  <2> QED
    BY <2>1, <2>2
<1> QED
  BY <1>1, <1>2

\* The queue of numbers.
LEMMA TheLinkIs == LoopInv /\ program = TheProgram /\ TheLinkAssumption => TheLinkCounts
<1> SUFFICES ASSUME LoopInv, program = TheProgram, TheLinkAssumption PROVE TheLinkCounts
  OBVIOUS
<1>1. TheLink \in Links /\ ~Internal(TheLink)
  BY DEF TheLinkAssumption, Links, Internal, Net
<1>2. PICK n \in Nat, last \in Nat : arg[TheLink] = Frame(n)
      /\ Holds(queue[TheLink], n, last)
  BY <1>1, LinkHolds
<1>3. queue[TheLink] \in Seq(Frames)
  BY <1>1, LinkHolds
<1>4. TheHeld = n /\ Len(queue[TheLink]) \in Nat
  BY <1>2, <1>3, NumberIs DEF TheHeld
<1>5. \A x \in 1..Len(queue[TheLink]) : queue[TheLink][x] = {n + x}
  BY <1>2 DEF Holds
<1>6. \A x \in 1..Len(queue[TheLink]) : Number(queue[TheLink][x]) = n + x
  BY <1>5, NumberIs
<1> QED
  BY <1>1, <1>2, <1>3, <1>4, <1>5, <1>6 DEF TheQueue, ThePushed, TheLinkCounts

\* A push to the link is a push to the queue of numbers.
LEMMA PushMaps ==
    ASSUME TheLinkCounts, TheLinkCounts', NEW f \in Frames, queue'[TheLink] = Append(queue[TheLink], f),
           arg'[TheLink] = arg[TheLink],
           Len(queue[TheLink]) < Programs[TheProgram].capacity[TheLink]
    PROVE  Link!Push
<1>1. /\ TheHeld \in Nat /\ Len(queue[TheLink]) \in Nat
      /\ ThePushed = TheHeld + Len(queue[TheLink])
      /\ queue[TheLink] \in Seq(Frames)
      /\ TheQueue = [x \in 1..Len(queue[TheLink]) |-> TheHeld + x]
  BY DEF TheLinkCounts
<1>2. /\ TheQueue' = [x \in 1..Len(queue'[TheLink]) |-> TheHeld' + x]
      /\ ThePushed' = TheHeld' + Len(queue'[TheLink])
      /\ TheHeld' \in Nat /\ Len(queue'[TheLink]) \in Nat
      /\ \A x \in 1..Len(queue'[TheLink]) : queue'[TheLink][x] = {TheHeld' + x}
  BY DEF TheLinkCounts
<1>3. TheHeld' = TheHeld
  BY DEF TheHeld, Number
<1>4. /\ Len(queue'[TheLink]) = Len(queue[TheLink]) + 1
      /\ queue'[TheLink][Len(queue[TheLink]) + 1] = f
  BY <1>1
<1>5. f = {ThePushed + 1}
  <2>1. Len(queue[TheLink]) + 1 \in 1..Len(queue'[TheLink])
        /\ TheHeld + (Len(queue[TheLink]) + 1) = ThePushed + 1
    BY <1>1, <1>4
  <2> QED
    BY <1>2, <1>3, <1>4, <2>1
<1>6. ThePushed < Rounds
  <2>1. ThePushed + 1 \in 1..Rounds /\ Rounds \in Nat /\ ThePushed \in Nat
    BY <1>1, <1>5, PipelineAssumption DEF Frames
  <2> QED
    BY <2>1
<1>7. Len(TheQueue) = Len(queue[TheLink])
  BY <1>1
<1>8. ThePushed' = ThePushed + 1 /\ ThePushed + 1 \in Nat
  BY <1>1, <1>2, <1>3, <1>4
<1>9. TheQueue' = Append(TheQueue, ThePushed + 1)
  <2>0. ASSUME NEW n \in Nat, NEW c \in Nat PROVE [x \in 1..c |-> n + x] \in Seq(Nat)
    OBVIOUS
  <2>1. TheQueue \in Seq(Nat) /\ TheQueue' \in Seq(Nat)
    BY ONLY <1>1, <1>2, <2>0
  <2>2. Append(TheQueue, ThePushed + 1) \in Seq(Nat)
        /\ Len(Append(TheQueue, ThePushed + 1)) = Len(TheQueue) + 1
    BY <1>8, <2>1
  <2>3. Len(TheQueue') = Len(TheQueue) + 1
    BY <1>2, <1>4, <1>7
  <2>4. ASSUME NEW x \in 1..(Len(TheQueue) + 1)
        PROVE  TheQueue'[x] = Append(TheQueue, ThePushed + 1)[x]
    <3>1. TheQueue'[x] = TheHeld + x
      BY <1>2, <1>3, <1>4, <1>7
    <3>2. CASE x = Len(TheQueue) + 1
      <4>1. Append(TheQueue, ThePushed + 1)[x] = ThePushed + 1
        BY <1>8, <2>1, <3>2
      <4>2. ThePushed + 1 = TheHeld + x
        BY <1>1, <1>7, <3>2
      <4> QED
        BY <3>1, <4>1, <4>2
    <3>3. CASE x # Len(TheQueue) + 1
      <4>1. x \in 1..Len(TheQueue)
        BY <1>1, <1>7, <3>3
      <4>2. Append(TheQueue, ThePushed + 1)[x] = TheQueue[x]
        BY <1>8, <2>1, <4>1
      <4>3. TheQueue[x] = TheHeld + x
        BY <1>1, <1>7, <4>1
      <4> QED
        BY <3>1, <4>2, <4>3
    <3> QED
      BY <3>2, <3>3
  <2> QED
    BY ONLY <2>1, <2>2, <2>3, <2>4, SeqEqual
<1> QED
  BY <1>3, <1>6, <1>7, <1>8, <1>9 DEF Link!Push

\* A fetch from the link is a fetch from the queue of numbers.
LEMMA FetchMaps ==
    ASSUME TheLinkCounts, TheLinkCounts', queue[TheLink] # <<>>, queue'[TheLink] = Tail(queue[TheLink]),
           arg'[TheLink] = Head(queue[TheLink])
    PROVE  Link!Fetch
<1>1. /\ TheHeld \in Nat /\ Len(queue[TheLink]) \in Nat
      /\ ThePushed = TheHeld + Len(queue[TheLink])
      /\ queue[TheLink] \in Seq(Frames)
      /\ \A x \in 1..Len(queue[TheLink]) : queue[TheLink][x] = {TheHeld + x}
      /\ TheQueue = [x \in 1..Len(queue[TheLink]) |-> TheHeld + x]
  BY DEF TheLinkCounts
<1>2. /\ TheQueue' = [x \in 1..Len(queue'[TheLink]) |-> TheHeld' + x]
      /\ ThePushed' = TheHeld' + Len(queue'[TheLink])
  BY DEF TheLinkCounts
<1>3. Len(queue[TheLink]) \in Nat \ {0} /\ Len(queue'[TheLink]) = Len(queue[TheLink]) - 1
  BY <1>1
<1>4. TheHeld' = TheHeld + 1
  <2>1. arg'[TheLink] = {TheHeld + 1}
    BY <1>1, <1>3
  <2> QED
    BY <2>1, NumberIs DEF TheHeld
<1>5. ThePushed' = ThePushed
  <2>1. /\ TheHeld \in Nat /\ Len(queue[TheLink]) \in Nat
        /\ ThePushed = TheHeld + Len(queue[TheLink])
        /\ ThePushed' = (TheHeld + 1) + (Len(queue[TheLink]) - 1)
    BY <1>1, <1>2, <1>3, <1>4
  <2>2. ASSUME NEW a \in Nat, NEW b \in Nat PROVE (a + 1) + (b - 1) = a + b
    OBVIOUS
  <2>3. (TheHeld + 1) + (Len(queue[TheLink]) - 1) = TheHeld + Len(queue[TheLink])
    BY ONLY <2>1, <2>2
  <2> QED
    BY ONLY <2>1, <2>3
<1>6. TheQueue \in Seq(Nat) /\ Len(TheQueue) = Len(queue[TheLink])
  BY <1>1
<1>7. TheQueue # <<>> /\ Head(TheQueue) = TheHeld + 1
  BY <1>1, <1>3, <1>6
<1>8. TheQueue' = Tail(TheQueue)
  <2>1. TheQueue' \in Seq(Nat) /\ Len(TheQueue') = Len(TheQueue) - 1
    BY <1>1, <1>2, <1>3, <1>4, <1>6
  <2>2. /\ Tail(TheQueue) \in Seq(Nat) /\ Len(Tail(TheQueue)) = Len(TheQueue) - 1
        /\ \A x \in 1..(Len(TheQueue) - 1) : Tail(TheQueue)[x] = TheQueue[x + 1]
    BY <1>6, <1>7
  <2>3. ASSUME NEW x \in 1..(Len(TheQueue) - 1)
        PROVE  TheQueue'[x] = Tail(TheQueue)[x]
    <3>1. x \in 1..Len(queue'[TheLink]) /\ x + 1 \in 1..Len(queue[TheLink]) /\ x \in Nat
      BY <1>3, <1>6
    <3>2. TheQueue'[x] = TheHeld' + x /\ TheQueue[x + 1] = TheHeld + (x + 1)
      BY <1>1, <1>2, <3>1
    <3>3. (TheHeld + 1) + x = TheHeld + (x + 1)
      BY <1>1, <3>1
    <3> QED
      BY <1>4, <2>2, <3>2, <3>3
  <2> QED
    BY ONLY <2>1, <2>2, <2>3, SeqEqual
<1> QED
  BY <1>4, <1>5, <1>7, <1>8 DEF Link!Fetch

\* Every step of the program is a step of the queue, or none.
LEMMA LinkStep ==
    ASSUME LoopInv, program = TheProgram, TheLinkCounts, TheLinkCounts', [Next]_vars
    PROVE  [Link!Next]_(Link!vars)
<1>1. /\ TheLink \in Links /\ ~Internal(TheLink) /\ LoopTypes
      /\ queue \in [Links -> Seq(Frames)] /\ DOMAIN arg = Links
      /\ made \in [Processors -> Frames]
  BY DEF TheLinkCounts, LoopInv, LoopTypes
<1>2. CASE queue'[TheLink] = queue[TheLink] /\ arg'[TheLink] = arg[TheLink]
  <2>1. TheHeld' = TheHeld /\ TheQueue' = TheQueue
    BY <1>2 DEF TheHeld, TheQueue, Number
  <2>2. ThePushed' = ThePushed
    BY <1>2, <2>1 DEF ThePushed
  <2> QED
    BY <1>2, <2>1, <2>2 DEF Link!vars
<1>3. CASE UNCHANGED loopVars
  BY <1>2, <1>3 DEF loopVars, links
<1>4. ASSUME NEW t \in Threads, Step(t)
      PROVE  [Link!Next]_(Link!vars)
  <2>1. CASE Fetch(t)
    <3>1. PICK k : /\ queue[Fetches(t)[k]] # <<>>
                   /\ arg' = [arg EXCEPT ![Fetches(t)[k]] = Head(queue[Fetches(t)[k]])]
                   /\ queue' = [queue EXCEPT ![Fetches(t)[k]] = Tail(@)]
      BY <2>1 DEF Fetch
    <3>2. CASE Fetches(t)[k] = TheLink
      <4>1. queue[TheLink] # <<>> /\ queue'[TheLink] = Tail(queue[TheLink])
            /\ arg'[TheLink] = Head(queue[TheLink])
        BY ONLY <1>1, <3>1, <3>2
      <4> QED
        BY <4>1, FetchMaps DEF Link!Next
    <3>3. CASE Fetches(t)[k] # TheLink
      <4>1. queue'[TheLink] = queue[TheLink] /\ arg'[TheLink] = arg[TheLink]
        BY ONLY <1>1, <3>1, <3>3
      <4> QED
        BY <1>2, <4>1
    <3> QED
      BY <3>2, <3>3
  <2>2. CASE Push(t)
    <3>1. PICK k : /\ Room(Pushes(t)[k])
                   /\ queue' = [queue EXCEPT ![Pushes(t)[k]] = Append(@, made[Current(t)])]
      BY <2>2 DEF Push
    <3>2. arg' = arg
      BY <2>2 DEF Push
    <3>3. CASE Pushes(t)[k] = TheLink
      <4>1. queue'[TheLink] = Append(queue[TheLink], made[Current(t)])
        BY ONLY <1>1, <3>1, <3>3
      <4>2. made[Current(t)] \in Frames
        BY <1>1, PlaceIs
      <4>3. Len(queue[TheLink]) < Programs[TheProgram].capacity[TheLink]
        BY <3>1, <3>3 DEF Room, Net
      <4> QED
        BY <3>2, <4>1, <4>2, <4>3, PushMaps DEF Link!Next
    <3>4. CASE Pushes(t)[k] # TheLink
      <4>1. queue'[TheLink] = queue[TheLink]
        BY ONLY <1>1, <3>1, <3>4
      <4> QED
        BY <1>2, <3>2, <4>1
    <3> QED
      BY <3>3, <3>4
  <2>3. CASE Run(t)
    BY <1>1, <1>2, <2>3 DEF Run
  <2>4. CASE OpenFirst(t) \/ OpenSecond(t) \/ Opened(t) \/ StartLoop(t)
             \/ NextProcessor(t) \/ NextRound(t)
    BY <1>2, <2>4 DEF OpenFirst, OpenSecond, Opened, StartLoop, NextProcessor, NextRound, links
  <2> QED
    BY <1>4, <2>1, <2>2, <2>3, <2>4 DEF Step
<1>5. UNCHANGED loopVars \/ \E t \in Threads : Step(t)
  BY DEF Next, vars, Release, Proceed, Fail, Spawn, Bind, SetUp, MakeLinks, Loop, LeaveLoop,
         Unlink, Leave, Join
<1> QED
  BY <1>3, <1>4, <1>5

\* The links' modules and the loops fit together: whatever the program, each of
\* its links takes frames only when there is room, gives them only when there
\* are any, and so is one of the bounded queues that ThreadedLink, ProcessLink
\* and SocketLink implement (Link::push, Link::fetch).
THEOREM LinksAreBoundedQueues ==
    ASSUME TheLinkAssumption
    PROVE  Spec /\ program = TheProgram => Link!Spec
<1>1. Init /\ program = TheProgram => Link!Init
  <2> SUFFICES ASSUME LoopInit, program = TheProgram PROVE Link!Init
    BY DEF Init
  <2>1. TheLink \in Links
    BY DEF TheLinkAssumption, Links, Net
  <2>2. queue[TheLink] = <<>> /\ arg[TheLink] = {}
    BY <2>1 DEF LoopInit
  <2>3. TheHeld = 0 /\ TheQueue = <<>> /\ ThePushed = 0
    BY <2>2 DEF TheHeld, TheQueue, ThePushed, Number
  <2> QED
    BY <2>3 DEF Link!Init
<1>2. LoopInv /\ program = TheProgram => TheLinkCounts
  BY TheLinkIs
<1>3. program = TheProgram /\ [Next]_vars => (program = TheProgram)'
  BY ProgramStays
<1>4. LoopInv /\ program = TheProgram /\ TheLinkCounts /\ TheLinkCounts' /\ [Next]_vars
        => [Link!Next]_(Link!vars)
  BY LinkStep
<1>5. Spec => []LoopInv
  <2>1. IInv => LoopInv
    BY DEF IInv
  <2> QED
    BY <2>1, Invariant, PTL
<1> QED
  BY <1>1, <1>2, <1>3, <1>4, <1>5, PTL DEF Spec, Link!Spec
============================================================================
