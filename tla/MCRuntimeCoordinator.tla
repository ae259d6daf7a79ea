------------------------ MODULE MCRuntimeCoordinator ------------------------
(* Requests two ranks end together, and the one they do not.               *)
EXTENDS RuntimeCoordinator

Plain == [streamed |-> FALSE, interval |-> 1, length |-> 2, stop |-> 0,
          stopInPrompt |-> FALSE, tooLong |-> FALSE]
Mixed == {[Plain EXCEPT !.stopInPrompt = TRUE],
          [Plain EXCEPT !.streamed = TRUE, !.stop = 1],
          [Plain EXCEPT !.tooLong = TRUE]}
StopInPrompt == {[Plain EXCEPT !.streamed = TRUE, !.stopInPrompt = TRUE]}
=============================================================================
