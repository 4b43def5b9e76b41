---------------------------- MODULE NicknameTexts ----------------------------
(***************************************************************************)
(* Nicknames beside the rules for texts: what types/nickname and the       *)
(* generator compute (Naming), for whichever words the two lists and the   *)
(* generator hold.  The budgets are those the code has, or others that     *)
(* stand in the same relations.                                            *)
(***************************************************************************)
EXTENDS Nicknames, SequencesExt

CONSTANTS
  Reserved, Blocked, Numbers, MinLen, MaxLen, MaxStem, MaxNoun, ShortStem, ShortNoun,
  Nouns,         \* nouns of the generator's list: [word, gender]
  MaxDraft       \* runes a text may have (bound)

Text == INSTANCE Naming

ASSUME TextAssumption ==
  /\ MinLen \in 0..4 /\ MaxLen \in Nat
  /\ MaxStem \in Nat /\ MaxNoun \in Nat /\ ShortStem \in Nat /\ ShortNoun \in Nat
  /\ Numbers \subseteq Seq(Text!Runes) /\ \A n \in Nouns : n.word \in Seq(Text!Runes)
  /\ MaxDraft \in Nat

Drafts == UNION {[1..n -> Text!Runes \ {"r"}] : n \in 0..MaxDraft}

\* What the rest of the system builds on, for every text and every one-word list of
\* adjectives beside a short one:
\*  - a name that was accepted can be read back from the table,
\*  - the words that are screened spell the key that is unique,
\*  - a listed word is refused however it is spaced, hyphenated or capitalised,
\*  - a generated name fits, whatever list the server was able to start with.
\* A text does not change: looking at the initial state is enough.
TextsHold ==
  Init => \A s \in Drafts :
    /\ Text!ParsesAgain(s)
    /\ Text!WordsMakeTheKey(s)
    /\ Text!SpacingDoesNotHelp(s)
    /\ Text!FitsWhenLoadable({s, <<"e">>}, Nouns)
=============================================================================
