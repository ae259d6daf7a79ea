--------------------------- MODULE MCCommandQueue ---------------------------
(* Three producers race four commands through a ring asked for one cell, which   *)
(* the constructor makes two: every cell is reused, and full, empty and claimed- *)
(* but-unpublished positions all occur.                                          *)
EXTENDS CommandQueue
=============================================================================
