--------------------------- MODULE MCSocketLink ---------------------------
(***************************************************************************)
(* Model checking of SocketLink, with all four kinds of peer.  Rings of    *)
(* different sizes fill up at different times; seven frames are more than  *)
(* both hold together and go round each of them at least twice.            *)
(***************************************************************************)
EXTENDS SocketLink
============================================================================
