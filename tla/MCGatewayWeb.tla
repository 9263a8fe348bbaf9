---------------------------- MODULE MCGatewayWeb ----------------------------
(* Model checking of GatewayWeb.                                           *)
EXTENDS GatewayWeb, TLC

Symmetry == Permutations(Sockets) \cup Permutations(Sessions)
            \cup Permutations(Posts) \cup Permutations(Callbacks)
=============================================================================
