----------------------------- MODULE MCFileQueue ----------------------------
(* Model checking of FileQueue.  The runs check liveness, under which      *)
(* TLC's symmetry reduction is unsound: none is defined.                   *)
EXTENDS FileQueue
=============================================================================
