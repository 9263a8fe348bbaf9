---------------------------- MODULE MCRedisQueue ----------------------------
(* Model checking of RedisQueue.  The runs check liveness, under which     *)
(* TLC's symmetry reduction is unsound: none is defined.                   *)
EXTENDS RedisQueue
=============================================================================
