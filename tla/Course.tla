------------------------------- MODULE Course -------------------------------
(***************************************************************************)
(* The authored course and the releases that change it: what a start       *)
(* accepts (the curriculum's, the vocabulary's and the triggers' seeddb),  *)
(* what a learner can then open, and what studyapp reports of answers that *)
(* were given under earlier releases.                                      *)
(*                                                                         *)
(* A deck as authored is                                                   *)
(*   [id, drill, answers, prerequisite, explains, items],                  *)
(* where explains are the answers its introduction speaks of and an item   *)
(* is [word, answer, written]: written, if everything else in its row      *)
(* passes.  The items of the noun deck are in a file of their own.  A      *)
(* release is [decks, nouns].  One language, one learner; when a card is   *)
(* due is Rounds'.                                                         *)
(*                                                                         *)
(* A definition no action uses, placed right before the one it resembles,  *)
(* is a plausible defect of it (README.md, "Mutants").                     *)
(***************************************************************************)
EXTENDS Naturals, Sequences, FiniteSets, SequencesExt

CONSTANTS
  Releases,      \* as authored (bound)
  UnlockNum,     \* the unlock fraction is UnlockNum / UnlockDen
  UnlockDen,
  RoundsUp,      \* sizes of decks at which the product with it rounds above a whole number
  BatchLimit,    \* cards of a batch
  MaxReleases,   \* in a run (bound)
  Replies,       \* answers a learner gives, right or wrong (bound)
  None           \* no prerequisite, no answer reported

Ids == UNION {{r.decks[k].id : k \in DOMAIN r.decks} : r \in Releases}
Words == UNION {ToSet(r.nouns) \cup UNION {ToSet(d.items) : d \in ToSet(r.decks)} : r \in Releases}
Items == {w.word : w \in Words}

Drills == {"article-3way", "case-3way"}
Articles == {"der", "die", "das"}
Cases == {"akkusativ", "dativ", "genitiv"}

ASSUME FractionAssumption ==
  /\ UnlockDen \in Nat \ {0} /\ UnlockNum \in 1..UnlockDen
  /\ \A n \in RoundsUp : /\ n \in Nat \ {0} /\ UnlockNum < UnlockDen
                        /\ \E k \in 1..n : UnlockNum * n = UnlockDen * k
  /\ BatchLimit \in Nat \ {0} /\ MaxReleases \in Nat
ASSUME ReleaseAssumption ==
  \A r \in Releases : /\ r.decks \in Seq(ToSet(r.decks)) /\ r.nouns \in Seq(Words)
                      /\ \A d \in ToSet(r.decks) : d.items \in Seq(Words)

VARIABLES
  course,     \* the release that runs
  seen,       \* <<deck, item>>: the rows of study_progress
  given,      \* <<deck, item, answer>>: the answers in study_review
  releases    \* how many there have been

vars == <<course, seen, given, releases>>

-----------------------------------------------------------------------------
(* What a start checks: Catalog of the curriculum's seeddb.                *)

ValidAnswersButEmpty(answers) == Len(answers) >= 2 /\ IsInjective(answers)

\* toBusAnswers
ValidAnswers(answers) == Len(answers) >= 2 /\ IsInjective(answers) /\ "" \notin ToSet(answers)

\* toBusDeck, toBusIntro: the k-th deck, after those before it.
Accepted(decks, k) ==
  LET d == decks[k]
  IN  /\ \A j \in 1..k - 1 : decks[j].id # d.id
      /\ d.drill \in Drills
      /\ ValidAnswers(d.answers)
      /\ d.prerequisite # None => \E j \in 1..k - 1 : decks[j].id = d.prerequisite
      /\ d.explains \subseteq ToSet(d.answers)

\* Neither the nouns nor the items of the other decks are looked at.
Starts(r) == r.decks # <<>> /\ \A k \in DOMAIN r.decks : Accepted(r.decks, k)

-----------------------------------------------------------------------------
(* What a request loads.                                                   *)

OnShelf(r, id) == \E d \in ToSet(r.decks) : d.id = id
DeckOf(r, id) == CHOOSE d \in ToSet(r.decks) : d.id = id

\* toBusNoun: a noun twice is two rows.
NounsLoad(r) == \A w \in ToSet(r.nouns) : w.written /\ w.answer \in Articles

\* toBusTriggers
ItemsLoad(items) ==
  /\ items # <<>>
  /\ \A w \in ToSet(items) : w.written /\ w.answer \in Cases
  /\ IsInjective([k \in DOMAIN items |-> items[k].word])

\* deckCards
Loads(r, d) == IF d.drill = "article-3way" THEN NounsLoad(r) ELSE ItemsLoad(d.items)
Material(r, d) == IF d.drill = "article-3way" THEN r.nouns ELSE d.items
WordsOf(r, d) == {w.word : w \in ToSet(Material(r, d))}

\* deckSize: a deck without items is taken for the noun deck.
SizeLoads(r, d) == d.items # <<>> \/ NounsLoad(r)
Size(r, d) == IF d.items # <<>> THEN Len(d.items) ELSE Len(r.nouns)

CoverageOfDeck(r, id) == Cardinality({c \in seen : c[1] = id /\ c[2] \in WordsOf(r, DeckOf(r, id))})

\* len(progress): all rows, also those of words the deck no longer has.
Coverage(r, id) == Cardinality({c \in seen : c[1] = id})

\* Ceil of a floating-point product: a product that is a whole number may come out
\* just above it (0.28 of 25 asks for 8).
Asked(size) == (UnlockNum * size + UnlockDen - 1) \div UnlockDen + (IF size \in RoundsUp THEN 1 ELSE 0)

Need(r, id) == Asked(Size(r, DeckOf(r, id)))

\* gateFor
GateLoads(r, d) == d.prerequisite # None => SizeLoads(r, DeckOf(r, d.prerequisite))

\* Gate of curriculumbus.
MetWhenPassed(r, d) == d.prerequisite # None => Coverage(r, d.prerequisite) > Need(r, d.prerequisite)

Met(r, d) == d.prerequisite # None => Coverage(r, d.prerequisite) >= Need(r, d.prerequisite)

\* Rows of words that the deck no longer has: handleBatch drops them from a batch that
\* was cut at its limit before.  They come due and stay due, nobody being shown them.
Orphans(r, id) == {c \in seen : c[1] = id /\ c[2] \notin WordsOf(r, DeckOf(r, id))}

Jammed(r, id) == Cardinality(Orphans(r, id)) >= BatchLimit

\* The answer of GET /api/batch; clogged, it may come to show nothing for ever.
Batch(id) ==
  LET d == DeckOf(course, id)
  IN  IF ~OnShelf(course, id) THEN "unknown"
      ELSE IF ~GateLoads(course, d) THEN "failed"
      ELSE IF ~Met(course, d) THEN "locked"
      ELSE IF ~Loads(course, d) THEN "failed"
      ELSE IF Jammed(course, id) THEN "clogged" ELSE "cards"

-----------------------------------------------------------------------------
(* GET /api/confusion                                                      *)

\* deckAnswers, which knows nothing of other words.
Expected(r, d, i) ==
  LET rows == {k \in DOMAIN Material(r, d) : Material(r, d)[k].word = i}
  IN  IF rows = {} THEN "" ELSE Material(r, d)[CHOOSE k \in rows : \A m \in rows : m <= k].answer

\* fromBusConfusionResponse: what is counted in the row of one answer and the
\* column of another, as the items that are counted there.
Cell(r, d, row, col) ==
  {i \in Items : /\ <<d.id, i, col>> \in given
                 /\ Expected(r, d, i) = row
                 /\ {row, col} \subseteq ToSet(d.answers)}

-----------------------------------------------------------------------------
Init ==
  /\ course \in {r \in Releases : Starts(r)}
  /\ seen = {} /\ given = {}
  /\ releases = 0

\* A release that does not start is never served: the one before it stays.
Release(r) ==
  /\ Starts(r) /\ r # course
  /\ releases < MaxReleases /\ releases' = releases + 1
  /\ course' = r
  /\ UNCHANGED <<seen, given>>

\* handleGrade: the deck, its gate and the answer are checked; the item is not,
\* the page may be from any release.
Grade(id, i, answer) ==
  LET d == DeckOf(course, id)
  IN  /\ OnShelf(course, id) /\ GateLoads(course, d) /\ Met(course, d)
      /\ answer \in ToSet(d.answers) \cup {None}
      /\ seen' = seen \cup {<<id, i>>}
      /\ given' = given \cup {<<id, i, a>> : a \in {answer} \ {None}}
      /\ UNCHANGED <<course, releases>>

\* The words a browser may hold cards of.
Pages ==
  [id \in Ids |-> UNION {WordsOf(r, DeckOf(r, id)) :
                         r \in {r \in Releases : Starts(r) /\ OnShelf(r, id)}}]

\* Somebody studies a card that the running release shows.
Study(id, i) ==
  /\ Batch(id) = "cards" /\ i \in WordsOf(course, DeckOf(course, id))
  /\ \E a \in Replies \cup {None} : Grade(id, i, a)

Next ==
  \/ \E r \in Releases : Release(r)
  \/ \E id \in Ids : \E i \in Pages[id], a \in Replies \cup {None} : Grade(id, i, a)

Spec == Init /\ [][Next]_vars

\* The learner gets round to every word of a deck that is open.  Behind fewer strays
\* than a batch has cards, that is up to the learner: what comes due is shown and
\* answered (Rounds), and if answered well is not due again on that day, which leaves
\* room for the words without a row.
FairSpec == Spec /\ \A id \in Ids : \A i \in Pages[id] : WF_vars(Study(id, i))

-----------------------------------------------------------------------------
TypeOK ==
  /\ course \in Releases /\ Starts(course)
  /\ seen \subseteq Ids \X Items
  /\ \A a \in given :
       /\ <<a[1], a[2]>> \in seen
       /\ \E r \in Releases : OnShelf(r, a[1]) /\ a[3] \in ToSet(DeckOf(r, a[1]).answers)
  /\ releases \in 0..MaxReleases

\* A deck that cannot be opened by answering what the decks before it show: one
\* of them does not load, or is clogged, or is smaller than it counts itself - a noun
\* twice, or a deck without items taken for the noun deck.
Before(r, id) ==
  LET reach[k \in 0..Len(r.decks)] ==
        IF k = 0 THEN {id}
        ELSE reach[k - 1] \cup {DeckOf(r, j).prerequisite : j \in reach[k - 1] \ {None}}
  IN  reach[Len(r.decks)] \ {id, None}

Stranded(r, id) ==
  \E p \in Before(r, id) :
    LET d == DeckOf(r, p)
    IN  \/ ~Loads(r, d) \/ ~SizeLoads(r, d) \/ Jammed(r, p)
        \/ Size(r, d) # Cardinality(WordsOf(r, d))

\* Every other deck of the shelf opens to a learner who goes on, whatever release
\* has run before: no "shelf item that cannot be opened" (main.go:111).
CourseOpens ==
  <>[](\A d \in ToSet(course.decks) : Stranded(course, d.id) \/ Met(course, d))

\* The second release changes no gate, and no deck has grown.
OnlyRemoves(q, r) ==
  \A id \in Ids : OnShelf(r, id) =>
    LET d == DeckOf(r, id)
    IN  /\ OnShelf(q, id) /\ d.prerequisite = DeckOf(q, id).prerequisite
        /\ Size(r, d) <= Size(q, DeckOf(q, id))

\* "A gate that has opened can never close again" (curriculumbus_test.go:199), also
\* when words are dropped or exchanged; a deck that grows may close it.
RemovalsNeverLock ==
  [][OnlyRemoves(course, course') =>
       \A d \in ToSet(course'.decks) :
         Met(course, DeckOf(course, d.id)) => Met(course, d)']_vars

\* "A matrix is a statement about a deck as it stands" (convert.go:140): an answer that
\* was given about a word the running release no longer has is counted nowhere, and one
\* about a word whose answer it has changed, where the word is filed now.
GridIsTheDeck ==
  /\ TypeOK
  /\ \A d \in ToSet(course.decks) : \A row, col \in ToSet(d.answers) :
       Loads(course, d) =>
         Cell(course, d, row, col) \subseteq {w.word : w \in {w \in ToSet(Material(course, d)) : w.answer = row}}
=============================================================================
