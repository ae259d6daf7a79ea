--------------------------- MODULE MCRequestRecord ---------------------------
(* One request, its caller in get(), and two threads cancelling it. *)
EXTENDS RequestRecord
=============================================================================
