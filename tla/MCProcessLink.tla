--------------------------- MODULE MCProcessLink ---------------------------
(***************************************************************************)
(* Model checking of ProcessLink.  The queue sizes of the repository's     *)
(* tests are 2 and 3 and their loops have 5 rounds, so that each end goes  *)
(* round the ring more than twice.  Two kills let an owner die between     *)
(* announcing the link and being found, and one of the two ends that       *)
(* compete for what it left die in turn.                                   *)
(***************************************************************************)
EXTENDS ProcessLink
============================================================================
