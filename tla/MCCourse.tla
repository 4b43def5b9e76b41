------------------------------ MODULE MCCourse ------------------------------
(* A course of three decks, and what may happen to it in the authors' hands. *)
EXTENDS Course

word(w, a) == [word |-> w, answer |-> a, written |-> TRUE]
nouns == [id |-> "nouns", drill |-> "article-3way", answers |-> <<"der", "das">>,
          prerequisite |-> None, explains |-> {"der"}, items |-> <<>>]
preps == [id |-> "preps", drill |-> "case-3way", answers |-> <<"dativ", "akkusativ">>,
          prerequisite |-> "nouns", explains |-> {}, items |-> <<word("mit", "dativ")>>]
verbs == [preps EXCEPT !.id = "verbs", !.prerequisite = "preps", !.items = <<word("helfen", "dativ")>>]

Haus == word("Haus", "das")
Baum == word("Baum", "der")

base == [decks |-> <<nouns, preps, verbs>>, nouns |-> <<Haus, Baum>>]
with(k, d) == [base EXCEPT !.decks[k] = d]

MCReleases == {
  base,
  [base EXCEPT !.nouns = <<Haus>>],                                 \* a word dropped
  [base EXCEPT !.nouns = <<Haus, word("Tag", "der")>>],             \* exchanged
  [with(1, [nouns EXCEPT !.answers = <<"der", "das", "die">>]) EXCEPT
     !.nouns = <<Haus, word("Baum", "die")>>],                      \* another gender
  [base EXCEPT !.nouns = <<Haus, Baum, Haus>>],                     \* listed twice
  [base EXCEPT !.nouns = <<Haus, [Baum EXCEPT !.written = FALSE]>>],
  [base EXCEPT !.decks = <<nouns, preps>>],                         \* a deck dropped
  with(1, [nouns EXCEPT !.answers = <<"der", "das", "">>]),
  with(1, [nouns EXCEPT !.explains = {"dativ"}]),
  with(1, [nouns EXCEPT !.prerequisite = "verbs"]),                 \* a cycle
  with(2, [preps EXCEPT !.items = <<>>]),                           \* not written yet
  with(2, [preps EXCEPT !.items = <<word("mit", "dativ"), word("wegen", "genitiv")>>,
                        !.answers = <<"dativ", "akkusativ", "genitiv">>]),
  [with(2, [preps EXCEPT !.items = <<word("mit", "nominativ")>>]) EXCEPT
     !.nouns = <<Haus, word("Baum", "dre")>>],
  with(3, [verbs EXCEPT !.id = "preps"])}
=============================================================================
