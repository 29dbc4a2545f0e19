--------------------------- MODULE BoundedQueue ---------------------------
(***************************************************************************)
(* What every link of GLStreamer promises to the two processors it joins:  *)
(* a first-in-first-out queue of frames with a bounded capacity.  Frames   *)
(* are numbered 1, 2, ... in the order in which the producing processor    *)
(* computes them; 0 stands for the argument an input slot refers to before *)
(* its first fetch.                                                        *)
(*                                                                         *)
(* The module is the abstract specification that ThreadedLink, SocketLink  *)
(* and ProcessLink are shown to implement.                                 *)
(***************************************************************************)
EXTENDS Integers, Sequences

CONSTANTS
    Capacity,   \* the number of frames the link can hold
    NumFrames   \* the number of frames the producer sends (bounds a run)

VARIABLES
    queue,   \* the frames pushed and not yet fetched, oldest first
    pushed,  \* the number of frames pushed so far
    held     \* the frame the consumer's slot refers to

vars == <<queue, pushed, held>>

Init == queue = <<>> /\ pushed = 0 /\ held = 0

\* Link::push: the next frame enters the queue, when there is room.
Push ==
    /\ pushed < NumFrames
    /\ Len(queue) < Capacity
    /\ queue' = Append(queue, pushed + 1)
    /\ pushed' = pushed + 1
    /\ UNCHANGED held

\* Link::fetch: the oldest frame becomes the one the consumer refers to.
Fetch ==
    /\ queue # <<>>
    /\ held' = Head(queue)
    /\ queue' = Tail(queue)
    /\ UNCHANGED pushed

Next == Push \/ Fetch

Spec == Init /\ [][Next]_vars

FairSpec == Spec /\ WF_vars(Push) /\ WF_vars(Fetch)

----------------------------------------------------------------------------

TypeOK ==
    /\ queue \in Seq(1..NumFrames)
    /\ Len(queue) <= Capacity
    /\ pushed \in 0..NumFrames
    /\ held \in 0..NumFrames

\* The queue holds exactly the frames between the consumer's and the
\* producer's, in order: none is lost, repeated or overtaken.
Consecutive ==
    /\ pushed = held + Len(queue)
    /\ \A k \in 1..Len(queue) : queue[k] = held + k
============================================================================
