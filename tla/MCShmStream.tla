---------------------------- MODULE MCShmStream ----------------------------
(***************************************************************************)
(* Model checking of ShmStream.  As in the program, initialSize is one     *)
(* page, so that the length word already reaches into the second one; a    *)
(* frame may need two doublings; the third frame finds both mappings and   *)
(* an object that has been enlarged and cut down before.                   *)
(***************************************************************************)
EXTENDS ShmStream
============================================================================
