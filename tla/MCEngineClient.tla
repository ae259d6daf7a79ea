--------------------------- MODULE MCEngineClient ---------------------------
(* Three requests racing for one slot and one place in its queue, or for the two      *)
(* places of an engine, with the shutdown behind them.                                *)
EXTENDS EngineClient

CONSTANTS c1, c2, c3

Mixes == {c1 :> "generate" @@ c2 :> "stream" @@ c3 :> third : third \in {"stream", "speech"}}
Speech == {[c \in Clients |-> "speech"]}
=============================================================================
