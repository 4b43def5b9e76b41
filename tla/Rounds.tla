------------------------------- MODULE Rounds -------------------------------
(***************************************************************************)
(* A learner and one deck over the days: what studyapp's handleBatch       *)
(* offers, when foundation/fsrs brings a card back, and releases that drop *)
(* words from the deck while the rows of those words stay.                 *)
(*                                                                         *)
(* Time is relative: a row keeps how long ago its review was, up to a day, *)
(* and how long it has to wait; of the rows that are due only the order of *)
(* their due times is kept.  So no bound on the clock is needed.  Of a     *)
(* memory only what schedules the card is kept: a formula of the scheduler *)
(* may give any stability, in the days it is worth, also less than one and *)
(* more than the cap.  Flushes that overlap are Grading's.                 *)
(*                                                                         *)
(* A definition no action uses, placed right before the one it resembles,  *)
(* is a plausible defect of it (README.md, "Mutants").                     *)
(***************************************************************************)
EXTENDS Integers, Sequences, FiniteSets, SequencesExt

CONSTANTS
  Deck,             \* the words of the first release, in deck order
  Limit,            \* cards of a batch
  MaxNewPerBatch,
  Day,              \* ticks in a day; a tick is ten minutes
  MaxStability,     \* days (bound)
  MaximumInterval,  \* days
  MaxDropped,       \* words dropped by releases (bound)
  Nothing           \* no row, nothing scheduled

Cards == ToSet(Deck)
Ratings == {"again", "good"}    \* "hard" and "easy" differ from "good" in stability
Stabilities == 0..MaxStability

ASSUME DeckAssumption == Deck \in Seq(Cards) /\ Cardinality(Cards) = Len(Deck)

ASSUME PolicyAssumption ==
  /\ Limit \in Nat \ {0} /\ MaxNewPerBatch \in Nat \ {0}
  /\ Day \in Nat /\ Day > 1 /\ MaximumInterval \in Nat \ {0}
  /\ MaxStability \in Nat /\ MaxDropped \in Nat
  /\ Nothing \notin Int \cup [state : {"review", "relearning"}, age : Int, wait : Int]

VARIABLES
  deck,  \* the words of the running release, in the order of Deck
  row,   \* table study_progress: item -> [state, age, wait], or Nothing
  page   \* the batch in the browser: [cards, back]

roundsVars == <<deck, row, page>>

Seen == {i \in Cards : row[i] # Nothing}
Due(i) == i \in Seen /\ row[i].wait <= 0
Strays == Seen \ deck

RoundsInit ==
  /\ deck = Cards
  /\ row = [i \in Cards |-> Nothing]
  /\ page = [cards |-> <<>>, back |-> Nothing]

-----------------------------------------------------------------------------
(* foundation/fsrs                                                         *)

\* initStability, recallStability, forgetStability, shortTermStability.
Remembered == Stabilities

IntervalFromZero(s) == IF s > MaximumInterval THEN MaximumInterval ELSE s

IntervalDays(s) ==
  IF s < 1 THEN 1 ELSE IF s > MaximumInterval THEN MaximumInterval ELSE s

\* graduate: ten minutes after a lapse, whole days after anything else.
Graduated(s, r) ==
  IF r = "again" THEN [state |-> "relearning", age |-> 0, wait |-> 1]
                 ELSE [state |-> "review", age |-> 0, wait |-> Day * IntervalDays(s)]

Review(r) == {Graduated(s, r) : s \in Remembered}

-----------------------------------------------------------------------------
(* GET /api/batch                                                          *)

\* Sorted so that what came due last is first.
SoonestLast(due) ==
  {s \in SetToSeqs(due) : \A m, n \in DOMAIN s : m < n => row[s[m]].wait >= row[s[n]].wait}

\* The due rows, soonest due first; the sort leaves the order of equals open.
SoonestFirst(due) ==
  {s \in SetToSeqs(due) : \A m, n \in DOMAIN s : m < n => row[s[m]].wait <= row[s[n]].wait}

UpTo(s, n) == SubSeq(s, 1, IF Len(s) < n THEN Len(s) ELSE n)

\* The members of T, in the order they have in s.
InOrderOf(T, s) ==
  CHOOSE u \in SetToSeqs(T) : \A m, n \in DOMAIN u : \A j, k \in DOMAIN s :
    m < n /\ u[m] = s[j] /\ u[n] = s[k] => j < k

UnseenOfTheFirst(room) ==
  InOrderOf(ToSet(UpTo(InOrderOf(deck, Deck), IF room < MaxNewPerBatch THEN room ELSE MaxNewPerBatch)) \ Seen,
            Deck)

\* Words without a row, in deck order, into what room the reviews leave.
Unseen(room) ==
  UpTo(InOrderOf(deck \ Seen, Deck),
       IF room < MaxNewPerBatch THEN room ELSE MaxNewPerBatch)

\* Batch: every row of the deck counts, also that of a word it no longer has.
Batches ==
  LET due == {i \in Cards : Due(i)}
  IN  {UpTo(s, Limit) \o Unseen(Limit - Len(UpTo(s, Limit))) : s \in SoonestFirst(due)}

\* handleBatch: a card is shown if the deck has it.
Shown(batch) == InOrderOf(ToSet(batch) \cap deck, batch)

Waits == {row[i].wait : i \in {i \in Seen : ~Due(i)}}

EarliestDue == IF Waits = {} THEN Nothing ELSE CHOOSE w \in Waits : \A v \in Waits : w <= v

\* An empty batch says when that changes.
HandleBatch ==
  /\ \E b \in Batches :
       page' = [cards |-> Shown(b), back |-> IF Shown(b) = <<>> THEN EarliestDue ELSE Nothing]
  /\ UNCHANGED <<deck, row>>

-----------------------------------------------------------------------------
\* The first card of the page is answered, and graded at once (handleGrade; the
\* row of a dropped word is written too).
Answer(r) ==
  /\ page.cards # <<>>
  /\ LET i == Head(page.cards)
     IN  \E c \in Review(r) : row' = [row EXCEPT ![i] = c]
  /\ page' = [page EXCEPT !.cards = Tail(@)]
  /\ UNCHANGED deck

\* The order of the due times of rows, with -n for the n-th last.
Ordered(rows) ==
  LET late == {rows[i].wait : i \in {i \in Cards : rows[i] # Nothing /\ rows[i].wait <= 0}}
      rank(w) == -Cardinality({v \in late : v > w})
  IN  [i \in Cards |-> IF rows[i] # Nothing /\ rows[i].wait <= 0
                       THEN [rows[i] EXCEPT !.wait = rank(@)] ELSE rows[i]]

\* Ten minutes pass.
Tick ==
  /\ row' = Ordered([i \in Cards |-> IF row[i] = Nothing THEN Nothing
                       ELSE [row[i] EXCEPT !.wait = @ - 1, !.age = IF @ < Day THEN @ + 1 ELSE Day]])
  /\ page' = [page EXCEPT !.back = IF @ = Nothing \/ @ <= 0 THEN @ ELSE @ - 1]
  /\ UNCHANGED deck

\* A release whose authors have dropped a word.
Drop(i) ==
  /\ i \in deck /\ Cardinality(deck) > Len(Deck) - MaxDropped
  /\ deck' = deck \ {i}
  /\ UNCHANGED <<row, page>>

Learn == \E r \in Ratings : Answer(r)

RoundsNext == HandleBatch \/ Learn \/ Tick \/ \E i \in Cards : Drop(i)

RoundsSpec == RoundsInit /\ [][RoundsNext]_roundsVars

\* A learner who goes on: a page is worked through, and another one asked for.
RoundsFairSpec == RoundsSpec /\ WF_roundsVars(HandleBatch) /\ WF_roundsVars(Learn) /\ WF_roundsVars(Tick)

-----------------------------------------------------------------------------
Rows == [state : {"review", "relearning"}, age : 0..Day, wait : -Len(Deck)..Day * MaximumInterval]

RoundsTypeOK ==
  /\ deck \subseteq Cards
  /\ row \in [Cards -> Rows \cup {Nothing}]
  /\ page \in [cards : Seq(Cards), back : 0..Day * MaximumInterval \cup {Nothing}]
  /\ Len(page.cards) <= Limit

\* Due rows of dropped words fill the batch: handleBatch shows nothing, whatever
\* else there is to do (studybus.go:131).
Clogged == Cardinality({i \in Strays : Due(i)}) >= Limit

\* "Due reviews are never capped" (studybus.go:66) - but for the limit: a card
\* is left out of a batch only for cards that came due no later, and a new card
\* only for reviews or for new ones before it.  A card that was answered well is
\* not in it again on the same day, whatever its stability rounds to.
NothingPassedOver ==
  /\ RoundsTypeOK
  /\ \A i \in Seen : row[i].state = "review" /\ row[i].age < Day => ~Due(i)
  /\ \A b \in Batches :
    /\ Len(b) <= Limit /\ IsInjective(b)
    /\ \A i \in Cards \ ToSet(b) :
         Due(i) => /\ Len(b) = Limit
                   /\ \A j \in ToSet(b) : Due(j) /\ row[j].wait <= row[i].wait

\* An empty batch means that there is nothing to do ("the only answer that leaves
\* the learner with nothing to do", studyapp.go:493), and what it promises is kept:
\* nothing to do before that time, something at that time - unless dropped words
\* are in the way.
EmptyMeansDone ==
  /\ \A b \in Batches : Shown(b) = <<>> =>
       Clogged \/ \A i \in deck : i \in Seen /\ ~Due(i)
  /\ page.cards = <<>> /\ page.back # Nothing /\ Strays = {} =>
       \A b \in Batches : Shown(b) = <<>> <=> page.back > 0

\* A lapse is not the end of a card, nor is a long interval: whatever comes due is
\* answered again, if the learner goes on, the deck keeps it and is not clogged.
\* Most overdue first is what keeps a card that fails over and over from holding
\* the others back.
NothingStarves ==
  \A i \in Cards : Due(i) ~> (~Due(i) \/ i \in Strays \/ Clogged)
=============================================================================
