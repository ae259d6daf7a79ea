------------------------ MODULE MCRequestEngineMixed ------------------------
(* Four requests of two batch classes, one of them guided: heads have to wait    *)
(* for the batch to end, and joiners outlive the founder they were compared to.  *)
EXTENDS RequestEngine, TLC

CONSTANT OtherKind     \* the requests of the second class

TwoKinds == [r \in Requests |-> IF r \in OtherKind THEN 2 ELSE 1]

symmetry == Permutations(Requests \ (OtherKind \cup Guided))
=============================================================================
