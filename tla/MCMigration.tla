---------------------------- MODULE MCMigration ----------------------------
(* The files of five releases: none, before accounts, before decks, before  *)
(* answers were logged, and before nicknames.                               *)
EXTENDS Migration

empty == [progress |-> {}, rows |-> NoRows, scratch |-> NoRows, review |-> {},
          log |-> [l \in Learners |-> {}], users |-> {}, index |-> FALSE, verified |-> FALSE]
local == [c \in Cards |-> IF c[1] = Local THEN Local ELSE None]
reviewed == [l \in Learners |-> IF l = Local THEN {Local} \X Items ELSE {}]
preAccounts == [empty EXCEPT !.progress = {"lemma"}, !.rows = local]
preDecks == [preAccounts EXCEPT !.users = {"email"}, !.verified = TRUE]
preAnswers == [preDecks EXCEPT !.progress = {"deck"}, !.review = {"rating"}, !.log = reviewed]
preNicknames == [preAnswers EXCEPT !.review = {"rating", "given", "answer_ms"}]

MCFiles == {empty, preAccounts, preDecks, preAnswers, preNicknames}
MCOneFile == {preNicknames}
=============================================================================
