--------------------------- MODULE MCStreamEmission ---------------------------
(* A vocabulary with a whole character of each stop string, one that completes a stop *)
(* and goes on, the two halves of a two-byte code point, and an end of sequence.  *)
(* The first two stop strings may be begun by the prompt, the third ends a token.   *)
EXTENDS StreamEmission

CONSTANTS a, b, cd, lead, trail, eos

MCVocab == {a, b, cd, lead, trail, eos}
MCPiece == [token \in MCVocab |->
              CASE token = a -> <<"a">>
                [] token = b -> <<"b">>
                [] token = cd -> <<"c", "d">>
                [] token = lead -> <<"L">>
                [] token = trail -> <<"T">>
                [] token = eos -> <<>>]
MCEosTokens == {eos}
MCStops == {<<"a", "b", "c">>, <<"b", "b">>, <<"d">>}
MCByte == {"a", "b", "c", "d", "L", "T", "?"}
MCPrompt == <<a, b>>
=============================================================================
