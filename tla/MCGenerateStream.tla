-------------------------- MODULE MCGenerateStream --------------------------
(* Every deployment and caller, and the one of two known deviations.       *)
EXTENDS GenerateStream

(* A prebuilt request comes without on_metrics. *)
AllModes == {m \in Mode : m.direct \/ ~m.metrics}
DirectOnly == {[engine |-> TRUE, direct |-> TRUE, metrics |-> FALSE]}
=============================================================================
