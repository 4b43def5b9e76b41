------------------------------- MODULE Naming -------------------------------
(***************************************************************************)
(* Display names: business/types/nickname (normalise, validate, fold,      *)
(* screen) and the names business/domain/identity/nicknamer proposes.      *)
(*                                                                         *)
(* A text is a sequence of runes.  The runes are those the rules tell      *)
(* apart: letters and a capital, the eszett and what it folds to, a digit, *)
(* the two separators, one more kind of white space, and one rune that no  *)
(* name may hold.                                                          *)
(*                                                                         *)
(* A definition no other uses, placed right before the one it resembles,   *)
(* is a plausible defect of it (README.md, "Mutants").                     *)
(***************************************************************************)
EXTENDS Naturals, FiniteSets, SequencesExt

CONSTANTS
  Reserved,       \* folded words that pass for the site
  Blocked,        \* folded words of profanity
  MinLen,         \* length bounds of a name, in runes
  MaxLen,
  MaxStem,        \* budgets of the generator's words, in runes
  MaxNoun,
  ShortStem,
  ShortNoun,
  PlainAttempts,  \* proposals without a number
  Numbers         \* the suffixes of the later ones, as text: " 2" to " 999"

Letters    == {"e", "E", "r", "s", "sz"}
Digits     == {"1"}
Separators == {" ", "-"}
Spaces     == {" ", "nbsp"}
Runes      == Letters \cup Digits \cup Separators \cup Spaces \cup {"@"}
Zero       == <<>>     \* the unset nickname, stored as the empty text

-----------------------------------------------------------------------------
(* types/nickname                                                          *)

\* The words of a scan, with the one that is going on.
Ended(scan) == IF scan.word = <<>> THEN scan.words ELSE Append(scan.words, scan.word)

\* A scan of s, rune by rune, for the runs that hold no rune of seps.
Scan(s, seps) ==
  LET scan[n \in 0..Len(s)] ==
        IF n = 0 THEN [words |-> <<>>, word |-> <<>>]
        ELSE IF s[n] \in seps THEN [words |-> Ended(scan[n - 1]), word |-> <<>>]
        ELSE [scan[n - 1] EXCEPT !.word = Append(@, s[n])]
  IN  scan

\* strings.Fields, strings.FieldsFunc.
Fields(s, seps) == Ended(Scan(s, seps)[Len(s)])

Without(s, runes) == FlattenSeq([i \in DOMAIN s |-> IF s[i] \in runes THEN <<>> ELSE <<s[i]>>])

Join(words) == FlattenSeq([i \in DOMAIN words |->
                             IF i = 1 THEN words[i] ELSE <<" ">> \o words[i]])

NormalizeSpace(s) == Join(Fields(s, Spaces))

\* ToLower, and the eszett expanded to "ss".
Lowered(s) ==
  FlattenSeq([i \in DOMAIN s |-> CASE s[i] = "E" -> <<"e">>
                                   [] s[i] = "sz" -> <<"s", "s">>
                                   [] OTHER -> <<s[i]>>])

\* The key under which a name is unique.
Fold(s) == Without(Lowered(s), Separators)

FoldedWords(s) == Fields(Lowered(s), Separators)

\* Letters, digits and single separators inside, and at least one letter.
CheckRunes(s) ==
  /\ ToSet(s) \subseteq Letters \cup Digits \cup Separators
  /\ \A i \in DOMAIN s : s[i] \in Separators =>
       i \notin {1, Len(s)} /\ s[i - 1] \notin Separators
  /\ ToSet(s) \cap Letters # {}

ListedWord(s, list) == ToSet(FoldedWords(s)) \cap list # {}

\* A name is screened whole, and word by word.
Listed(s, list) == ToSet(<<Fold(s)>> \o FoldedWords(s)) \cap list # {}

\* The error of Parse, or "ok".
Verdict(s) ==
  LET name == NormalizeSpace(s)
  IN  CASE Len(name) \notin MinLen..MaxLen -> "invalid"
        [] ~CheckRunes(name)               -> "invalid"
        [] Listed(name, Reserved)          -> "reserved"
        [] Listed(name, Blocked)           -> "profane"
        [] OTHER                           -> "ok"

Accepted(s) == Verdict(s) = "ok"

Parse(s) == IF Accepted(s) THEN NormalizeSpace(s) ELSE Zero

-----------------------------------------------------------------------------
(* nicknamer: an adjective's stem, declined to agree with a noun.          *)

Short(words, max) == {w \in words : Len(w) <= max}

\* What New refuses to start with.  A noun is [word, gender].
Loadable(stems, nouns) ==
  /\ \A s \in stems : Len(s) \in 1..MaxStem
  /\ \A n \in nouns : Len(n.word) \in 1..MaxNoun /\ n.gender \in {"der", "die", "das"}
  /\ Short(stems, ShortStem) # {}
  /\ \E n \in nouns : Len(n.word) <= ShortNoun
  /\ MaxStem + 2 + 1 + MaxNoun <= MaxLen
  /\ \A number \in Numbers : ShortStem + 2 + 1 + ShortNoun + Len(number) <= MaxLen

EndingFor(gender) == CASE gender = "der" -> <<"e", "r">>
                       [] gender = "die" -> <<"e">>
                       [] gender = "das" -> <<"e", "s">>

Capitalize(s) == IF Head(s) = "e" THEN <<"E">> \o Tail(s) ELSE s

\* What build hands to Parse.
Build(stem, noun, number) ==
  Capitalize(stem) \o EndingFor(noun.gender) \o <<" ">> \o noun.word \o number

\* The texts an attempt may propose; a number goes with short words only.
Generate(stems, nouns, attempt) ==
  IF attempt < PlainAttempts
  THEN {Build(s, n, <<>>) : s \in stems, n \in nouns}
  ELSE {Build(s, n, number) : s \in Short(stems, ShortStem),
                              n \in {n \in nouns : Len(n.word) <= ShortNoun},
                              number \in Numbers}

-----------------------------------------------------------------------------
(* What the rest of the system builds on, for a text s.                    *)

\* toBusNickname parses again what SetNickname stored, on every load of an
\* account: an accepted name must be accepted again, unchanged, or the account
\* is lost to its owner.
ParsesAgain(s) == Accepted(s) => Accepted(Parse(s)) /\ Parse(Parse(s)) = Parse(s)

\* foldedWords "folds each part the same way Nickname.Fold folds the whole, so
\* the two comparisons agree on spelling" (blocklist.go:115): what is screened
\* is what is kept unique.
WordsMakeTheKey(s) == Accepted(s) => FlattenSeq(FoldedWords(Parse(s))) = Fold(Parse(s))

\* "case, spacing and hyphens do not help" (blocklist.go:25) a listed name.
SpacingDoesNotHelp(s) ==
  Without(Lowered(s), Separators \cup Spaces) \in Reserved \cup Blocked => ~Accepted(s)

\* Word lists that New accepts yield names of a length that Parse accepts,
\* "every produced name is valid" (nicknamer.go:186), unless screening or a
\* character refuses them.
FitsWhenLoadable(stems, nouns) ==
  Loadable(stems, nouns) => \A attempt \in 0..PlainAttempts :
    \A text \in Generate(stems, nouns, attempt) :
      /\ Len(text) \in MinLen..MaxLen
      /\ CheckRunes(text) => Verdict(text) # "invalid"
=============================================================================
