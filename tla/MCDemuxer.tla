----------------------------- MODULE MCDemuxer -----------------------------
(***************************************************************************)
(* Model checking of Demuxer: two links are the fewest that share the      *)
(* demuxer's lock, three connections the fewest with which one waits       *)
(* behind two for the same link.  Every assignment of links and kinds of   *)
(* header to the connections is an initial state.                          *)
(***************************************************************************)
EXTENDS Demuxer
============================================================================
