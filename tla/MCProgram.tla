----------------------------- MODULE MCProgram ------------------------------
(***************************************************************************)
(* Model checking of Program with programs of the repository's tests.  In  *)
(* three rounds the queues of two frames in case2 become full and their    *)
(* producers wait.                                                         *)
(***************************************************************************)
EXTENDS Program, SamplePrograms
=============================================================================
