------------------------ MODULE MCDocumentReception ------------------------
(***************************************************************************)
(* Documents of six and five bytes, answers of up to five, a buffer of five *)
(* that writes after four, and a queue of eight, which does not hold both.  *)
(* One body repeats the byte the tail begins with.                          *)
(***************************************************************************)
EXTENDS DocumentReception

MCBytes == {"lt", "q", "s", "r", "nul"}
MCHead == <<"lt", "q">>
MCEnd == <<"lt", "s", "r">>
MCBodies == <<<<"lt">>, <<>>>>
MCGarbage == {1}
MCPieces == {6}
MCBroken == {1}

\* The documents of the run meet what the proof about timeouts asks of them.
ASSUME MCHeadsArePlain == HeadsArePlain
=============================================================================
