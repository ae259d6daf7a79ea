--------------------------- MODULE MCContextCache ---------------------------
(* Two slots of three pages over a pool of six, so that what is cached is only what the *)
(* residents leave: a short prompt that has to grow, one that ends within a block and   *)
(* starts like the short one continues, and one whose whole length may be cached.       *)
EXTENDS ContextCache

SixPages == 0 .. 5
TwoSlots == 0 .. 1
SomePrompts == {<<"a">>, <<"a", "a", "b">>, <<"b", "b", "b", "b">>}
=============================================================================
