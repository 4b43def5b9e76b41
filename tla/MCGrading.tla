------------------------------ MODULE MCGrading ------------------------------
(* A course of two decks: "nouns" opens "cases", which needs four fifths of  *)
(* the two nouns, hence both.  "alt" is a noun of an earlier release.        *)
EXTENDS Grading

MCCatalog == <<"nouns", "cases">>
MCItems == {"Haus", "Zeit", "alt", "mit"}
MCItemsOf == [d \in {"nouns", "cases"} |-> IF d = "nouns" THEN {"Haus", "Zeit"} ELSE {"mit"}]
MCPrerequisite == [d \in {"nouns", "cases"} |-> IF d = "nouns" THEN None ELSE "nouns"]
MCAnswersOf == [d \in {"nouns", "cases"} |-> IF d = "nouns" THEN {"der", "das"} ELSE {"dativ"}]

answer(w, r, g) == [item |-> w, rating |-> r, given |-> g]
nouns(results) == [deck |-> "nouns", results |-> results]
cases(results) == [deck |-> "cases", results |-> results]

\* A round of two words, one of them from a client that does not report the
\* answer; a round that misses one of them; an answer the deck does not
\* offer after one that it does; the word of the earlier release; and the gated
\* deck.
MCRounds == {
  nouns(<<answer("Haus", "good", "das"), answer("Zeit", "easy", None)>>),
  nouns(<<answer("Haus", "again", "der")>>),
  nouns(<<answer("Zeit", "good", "der"), answer("Haus", "good", "dativ")>>),
  nouns(<<answer("alt", "good", "der")>>),
  cases(<<answer("mit", "good", "dativ")>>)}

\* Flushes and requests are only names.
Symmetry == Permutations(Flushes) \cup Permutations(Handlers)
==============================================================================
