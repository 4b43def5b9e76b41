---------------------------- MODULE MCNicknames ----------------------------
(* Names that are texts of Naming: "Ese" and "ese" are one name, and the     *)
(* generator proposes two others.  The texts of a few runes, among them every *)
(* name that occurs, are also put through Naming's rules, as typed names and  *)
(* as an adjective of the generator's word lists.  The budgets are scaled so  *)
(* that both sums that New checks come out at the limit.                      *)
EXTENDS NicknameTexts

MCReserved == {<<"e", "s">>}
MCBlocked == {<<"s", "s">>, <<"e", "1", "e">>}
MCNumbers == {<<" ", "1">>}
MCNouns == {[word |-> <<"s">>, gender |-> "der"], [word |-> <<"s", "e">>, gender |-> "die"],
            [word |-> <<"s", "1">>, gender |-> "das"]}

MCNames == {"Ese", "ese", "Ee s", "Ee s 1"}
MCFold == [n \in MCNames |-> CASE n = "Ee s 1" -> "ees1" [] n = "Ee s" -> "ees" [] OTHER -> "ese"]

\* The text that a name stands for.
textOf(n) == CASE n = "Ese"    -> <<"E", "s", "e">>
               [] n = "ese"    -> <<"e", "s", "e">>
               [] n = "Ee s"   -> <<"E", "e", " ", "s">>
               [] n = "Ee s 1" -> <<"E", "e", " ", "s", " ", "1">>
proposed(attempt) == Text!Generate({<<"e">>}, {[word |-> <<"s">>, gender |-> "die"]}, attempt)

\* The names, their keys and the proposals are those of the texts.
ASSUME NamesAreTexts ==
  /\ \A n \in Names : Text!Accepted(textOf(n))
  /\ \A m, n \in Names : FoldOf[m] = FoldOf[n] <=> Text!Fold(textOf(m)) = Text!Fold(textOf(n))
  /\ {textOf(n) : n \in Plain} = proposed(0)
  /\ {textOf(n) : n \in Numbered} = proposed(PlainAttempts)
=============================================================================
