------------------------- MODULE MCAssistantWorker --------------------------
(* Model checking of AssistantWorker.                                      *)
EXTENDS AssistantWorker, TLC

CONSTANTS j1, j2, c1

(* Both jobs belong to one chat, so that they share a file.                *)
OneChat == (j1 :> c1) @@ (j2 :> c1)
=============================================================================
