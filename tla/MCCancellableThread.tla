------------------------ MODULE MCCancellableThread ------------------------
(***************************************************************************)
(* Model checking of CancellableThread with two cancellers, so that the    *)
(* second meets the first at the mark and at the mutexes.                  *)
(***************************************************************************)
EXTENDS CancellableThread
============================================================================
