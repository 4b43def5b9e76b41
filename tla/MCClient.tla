------------------------------ MODULE MCClient ------------------------------
(* A course of two decks, answered differently.  A batch holds two items of  *)
(* its deck, or fewer.                                                       *)
EXTENDS Client

MCDrillOf == [d \in {"nouns", "cases"} |-> IF d = "nouns" THEN "article" ELSE "case"]
MCBatches == {<<>>, <<1>>, <<1, 2>>}
=============================================================================
