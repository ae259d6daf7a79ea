--------------------------- MODULE MCRequestEngine ---------------------------
(* Instances of RequestEngine whose requests are all of one batch class, so that *)
(* every head may join unless it is guided.                                      *)
EXTENDS RequestEngine, TLC

OneKind == [r \in Requests |-> 1]
=============================================================================
