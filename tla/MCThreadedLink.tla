-------------------------- MODULE MCThreadedLink --------------------------
(***************************************************************************)
(* Model checking of ThreadedLink.  Four buffers are the fewest with which *)
(* the ring holds two frames at once, so that the notification thresholds  *)
(* (3 and queueSize - 1) differ from "not empty" and "not full"; seven     *)
(* frames, the loop count of the repository's tests, take both indices     *)
(* almost twice round the ring.                                            *)
(***************************************************************************)
EXTENDS ThreadedLink
============================================================================
