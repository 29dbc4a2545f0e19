------------------------------ MODULE Program -------------------------------
(***************************************************************************)
(* The life of a program around its processing loops.                      *)
(*                                                                         *)
(* A program of GLThreads (the sort-first, sort-last and shadow tests):    *)
(* the main thread constructs the GLThreads one after the other, waiting   *)
(* at each one's initBarrier until the new thread has bound its context.   *)
(* Then all threads go through the stages below, which the program's own   *)
(* barrier separates:                                                      *)
(*                                                                         *)
(*   set_up   every thread constructs its processors                       *)
(*   link     the main thread makes the ThreadedLinks to the threads'      *)
(*            processors, each thread its InternalSingleLinks              *)
(*   loop     every thread executes its block, round after round           *)
(*   unlink   the main thread's LinkBlock goes out of scope                *)
(*   leave    the other threads destroy what is theirs; main joins them    *)
(*                                                                         *)
(* An exception in a GLThread is caught and printed, and the thread ends   *)
(* there.  One in the main thread ends the whole process: it is left out.  *)
(*                                                                         *)
(* A program of processes has the loop only.                               *)
(***************************************************************************)
EXTENDS Pipeline

CONSTANTS
    MaxThreads  \* no program has more threads

VARIABLES
    stage,    \* the stage of each thread
    waiting,  \* the threads that wait at the program's barrier
    linked    \* the links that exist

life == <<stage, waiting, linked>>
vars == <<loopVars, life>>

Main == 1
GLThreads == IF Net.glThreads THEN Threads \ {Main} ELSE {}

MadeBy(t) == {l \in Links : Net.maker[l] = t}

Init ==
    /\ LoopInit
    /\ stage = [t \in Threads |-> IF t \in GLThreads THEN "unborn"
                                  ELSE IF Net.glThreads THEN "set_up" ELSE "loop"]
    /\ waiting = {}
    /\ linked = IF Net.glThreads THEN {} ELSE Links

Enter(t, s) == stage' = [stage EXCEPT ![t] = s]

\* t has done the work of its stage.
Wait(t) == waiting' = waiting \cup {t}

At(t, s) == stage[t] = s /\ t \notin waiting

----------------------------------------------------------------------------
(* GLThread *)

\* The thread of the next GLThread is there: its constructor, in the main
\* thread, waits at initBarrier.
InConstructor(t) == stage[t] \in {"binding", "stillborn"}

\* All GLThreads are constructed.
Constructed == \A t \in GLThreads : stage[t] # "unborn" /\ ~InConstructor(t)

\* The main thread constructs one GLThread after the other.
Spawn(t) ==
    /\ t \in GLThreads
    /\ stage[t] = "unborn"
    /\ \A s \in GLThreads : s < t => stage[s] # "unborn"
    /\ \A s \in GLThreads : ~InConstructor(s)
    /\ Enter(t, "binding")
    /\ UNCHANGED <<loopVars, waiting, linked>>

\* The thread has its context and its ThreadBlock, and comes to initBarrier,
\* where the main thread waits for it.
Bind(t) ==
    /\ stage[t] = "binding"
    /\ Enter(t, "set_up")
    /\ UNCHANGED <<loopVars, waiting, linked>>

\* The context binding, a processor's constructor or run() throws.  Unwinding
\* destroys the thread's links and its processors.
Fail(t) ==
    /\ t \in GLThreads
    /\ \/ stage[t] = "binding"
       \/ At(t, "set_up")
       \/ At(t, "loop") /\ AtRun(t)
    /\ Enter(t, IF stage[t] = "binding" THEN "stillborn" ELSE "dead")
    /\ linked' = linked \ MadeBy(t)
    /\ UNCHANGED <<loopVars, waiting>>

----------------------------------------------------------------------------
(* The program *)

\* (fault) The barrier is made for the threads without the main thread.
BarrierCountShort == Cardinality(GLThreads)

\* posixpp::PThreadBarrier barrier(3), for two GLThreads.
BarrierCount == Cardinality(GLThreads) + 1

\* The last thread to come releases them all.
Release ==
    /\ Net.glThreads
    /\ Cardinality(waiting) = BarrierCount
    /\ stage' = [t \in Threads |->
                   IF t \notin waiting THEN stage[t]
                   ELSE CASE stage[t] = "set_up" -> "link"
                          [] stage[t] = "link"   -> "loop"
                          [] stage[t] = "loop"   -> "unlink"
                          [] stage[t] = "unlink" -> "leave"]
    /\ waiting' = {}
    /\ UNCHANGED <<loopVars, linked>>

SetUp(t) ==
    /\ At(t, "set_up")
    /\ t = Main => Constructed
    /\ Wait(t)
    /\ UNCHANGED <<loopVars, stage, linked>>

MakeLinks(t) ==
    /\ At(t, "link")
    /\ linked' = linked \cup MadeBy(t)
    /\ Wait(t)
    /\ UNCHANGED <<loopVars, stage>>

Loop(t) ==
    /\ At(t, "loop")
    /\ Step(t)
    /\ UNCHANGED life

LeaveLoop(t) ==
    /\ Net.glThreads
    /\ At(t, "loop")
    /\ place[t].phase = "done"
    /\ Wait(t)
    /\ UNCHANGED <<loopVars, stage, linked>>

\* The main thread's links are in a scope of their own, which ends here; the
\* other threads' scope ends after the barrier.
Unlink(t) ==
    /\ At(t, "unlink")
    /\ linked' = IF t = Main THEN linked \ MadeBy(t) ELSE linked
    /\ Wait(t)
    /\ UNCHANGED <<loopVars, stage>>

\* A GLThread returns: its links, then its ThreadBlock, are destroyed.
Leave(t) ==
    /\ t \in GLThreads
    /\ At(t, "leave")
    /\ linked' = linked \ MadeBy(t)
    /\ Enter(t, "ended")
    /\ UNCHANGED <<loopVars, waiting>>

\* The main thread joins the others, one by one, and returns.
Join ==
    /\ At(Main, "leave")
    /\ \A t \in GLThreads : stage[t] \in {"ended", "dead", "stillborn"}
    /\ Enter(Main, "ended")
    /\ UNCHANGED <<loopVars, waiting, linked>>

\* What t does as long as nothing fails.
Proceed(t) ==
    \/ Spawn(t) \/ Bind(t) \/ SetUp(t) \/ MakeLinks(t) \/ Loop(t)
    \/ LeaveLoop(t) \/ Unlink(t) \/ Leave(t)
    \/ t = Main /\ Join

Next == Release \/ \E t \in Threads : Proceed(t) \/ Fail(t)

Spec == Init /\ [][Next]_vars

\* Every thread runs whenever it can.
FairSpec ==
    /\ Spec
    /\ WF_vars(Release)
    /\ \A t \in 1..MaxThreads : WF_vars(t \in Threads /\ Proceed(t))

----------------------------------------------------------------------------
(* Properties. *)

TypeOK ==
    /\ LoopTypeOK
    /\ stage \in [Threads -> {"unborn", "binding", "stillborn", "set_up", "link",
                               "loop", "unlink", "leave", "ended", "dead"}]
    /\ waiting \subseteq Threads
    /\ linked \subseteq Links

\* The threads whose processors a link's two slots belong to.
EndsOf ==
    [n \in DOMAIN Programs |-> [l \in DOMAIN Programs[n].capacity |->
        {t \in DOMAIN Programs[n].block : \E i \in 1..Len(Programs[n].block[t]) :
            LET p == Programs[n].block[t][i]
            IN  l \in Range(Programs[n].inputs[p]) \cup Range(Programs[n].outputs[p])}]]

Ends(l) == EndsOf[program][l]

\* The processors of t exist.
Alive(t) ==
    \/ stage[t] \in {"link", "loop", "unlink", "leave"}
    \/ stage[t] = "set_up" /\ t \in waiting

\* No slot refers to a link that is gone and no link to a slot that is gone:
\* a thread in its loop has the links of all its processors' slots, whoever
\* makes them, and a link is constructed and destroyed, which writes to the
\* slots at both its ends, only while the processors at both ends exist.
NoDangling ==
    /\ [](\A l \in Links : (\E t \in Ends(l) : At(t, "loop")) => l \in linked)
    /\ [][\A l \in Links : (l \in linked) # (l \in linked')
                              => \A t \in Ends(l) : Alive(t)]_vars

Done == IF Net.glThreads THEN \A t \in Threads : stage[t] = "ended"
        ELSE \A t \in Threads : place[t].phase = "done"

Failed == \E t \in Threads : stage[t] \in {"stillborn", "dead"}

\* The program comes to its end if and only if the ProcessLinks are opened in
\* consistent orders and no GLThread fails.  Once the links are there nobody
\* waits for ever: neither a processor that fetches its inputs one by one nor
\* one that pushes its outputs one by one.  But when a GLThread has ended with
\* an exception, whenever that was, the others wait for it for ever.
AllDone ==
    /\ Orderable => <>(Done \/ Failed)
    /\ ~Orderable => []~Done
    /\ [](Failed => []~Done)
=============================================================================
