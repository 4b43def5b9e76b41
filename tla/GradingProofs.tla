---------------------------- MODULE GradingProofs ----------------------------
(***************************************************************************)
(* Proofs about Grading, for any course, any rounds and answers, and any   *)
(* number of flushes and shelf requests in flight, errors and crashes.     *)
(***************************************************************************)
EXTENDS Grading, FiniteSetTheorems, TLAPS

-----------------------------------------------------------------------------
(* The inductive invariant, in parts.                                      *)

InFlight == {"gate", "load", "save", "summary"}
PastGate == {"load", "save", "summary"}

\* What a request holds: a flush that was sent and not answered, with nothing logged
\* before the gate and as many answers as it has come to after it, in a deck that is
\* open; a shelf has read no more coverage than there is.
Holds(r) ==
  /\ r.pc \in InFlight =>
       r.flush \in Flushes /\ sent[r.flush] # None /\ outcome[r.flush] = "none"
  /\ r.pc = "gate" => FlushedBy(r.flush) = {}
  /\ r.pc \in PastGate =>
       LET round == sent[r.flush]
       IN  /\ Open(round.deck)
           /\ Offered(round.deck, round.results)
           /\ Cardinality(FlushedBy(r.flush)) = r.i - 1
           /\ IF r.pc = "summary" THEN r.i = Len(round.results) + 1
                                  ELSE r.i \in 1..Len(round.results)
  /\ r.pc = "shelf" => r.i \in 1..Len(Catalog)
  /\ r.pc \in {"shelf", "shown"} => \A d \in Decks : r.seen[d] <= CountSeen(progress, d)

\* Every request, and each flush in one request.
RequestInv ==
  /\ \A h \in Handlers : Holds(req[h])
  /\ \A g, h \in Handlers :
       req[g].pc \in InFlight /\ req[h].pc \in InFlight /\ req[g].flush = req[h].flush => g = h
  /\ \A f \in Flushes : sent[f] = None => outcome[f] = "none"

\* Rows are in decks that are open.
GateInv == \A c \in Cards : progress[c] # None => Open(c[1])

IInv == TypeOK /\ RequestInv /\ GateInv /\ RowIsLastReview /\ FlushIsPrefix

-----------------------------------------------------------------------------
(* The gate's arithmetic.                                                  *)

\* There are finitely many cards.
LEMMA CardsFinite == IsFiniteSet(Cards)
<1>1. Catalog \in [1..Len(Catalog) -> Decks] /\ Len(Catalog) \in Nat
  BY CourseAssumption
<1>2. Catalog \in Surjection(1..Len(Catalog), Decks)
  BY <1>1 DEF Decks, ToSet, Surjection
<1>3. IsFiniteSet(1..Len(Catalog))
  BY <1>1, FS_Interval
<1>4. IsFiniteSet(Decks)
  BY <1>2, <1>3, FS_Surjection
<1> QED BY <1>4, CourseAssumption, FS_Product DEF Cards

\* The cards of a deck that have a row.
SeenOf(rows, d) == {c \in Cards : c[1] = d /\ rows[c] # None}

\* Coverage is a number.
LEMMA CountsRows ==
  ASSUME NEW rows, DOMAIN rows = Cards, NEW d
  PROVE  /\ CountSeen(rows, d) = Cardinality(SeenOf(rows, d))
         /\ IsFiniteSet(SeenOf(rows, d))
         /\ CountSeen(rows, d) \in Nat
<1>1. SeenOf(rows, d) \in SUBSET Cards
  BY DEF SeenOf
<1>2. IsFiniteSet(SeenOf(rows, d))
  BY <1>1, CardsFinite, FS_Subset
<1> QED BY <1>2, FS_CardinalityType DEF CountSeen, SeenOf

\* More rows are more coverage.
LEMMA CoverageGrows ==
  ASSUME NEW rows, NEW more, DOMAIN rows = Cards, DOMAIN more = Cards, NEW d,
         \A c \in Cards : rows[c] # None => more[c] # None
  PROVE  CountSeen(rows, d) <= CountSeen(more, d)
<1>1. SeenOf(rows, d) \in SUBSET SeenOf(more, d)
  BY DEF SeenOf
<1> QED BY <1>1, CountsRows, FS_Subset

\* A deck without a row counts nothing.
LEMMA NothingSeen ==
  ASSUME NEW rows, DOMAIN rows = Cards, NEW d, \A c \in Cards : rows[c] # None => c[1] # d
  PROVE  CountSeen(rows, d) = 0
<1>1. SeenOf(rows, d) = {}
  BY DEF SeenOf
<1> QED BY <1>1, CountsRows, FS_EmptySet

\* What a deck needs is a number.
LEMMA NeedType ==
  ASSUME NEW d \in Decks
  PROVE  Need(d) \in Int
<1>1. Cardinality(ItemsOf[d]) \in Nat
  BY CourseAssumption, FS_Subset, FS_CardinalityType
<1>2. UnlockNum \in Nat /\ UnlockDen \in Nat /\ UnlockDen > 0
  BY CourseAssumption
<1>3. UnlockNum * Cardinality(ItemsOf[d]) \in Nat
  BY <1>1, <1>2
<1>4. (UnlockNum * Cardinality(ItemsOf[d]) + UnlockDen - 1) \div UnlockDen \in Int
  BY <1>2, <1>3
<1> QED BY <1>4 DEF Need

\* With more coverage no gate closes.
LEMMA MetMonotone ==
  ASSUME NEW d \in Decks, NEW seen \in [Decks -> Int], NEW more \in [Decks -> Int],
         \A p \in Decks : seen[p] <= more[p], Met(d, seen)
  PROVE  Met(d, more)
<1>1. CASE Prerequisite[d] = None
  BY <1>1 DEF Met
<1>2. CASE Prerequisite[d] # None
  <2>1. Prerequisite[d] \in Decks
    BY <1>2, CourseAssumption
  <2> QED BY <2>1, NeedType DEF Met
<1> QED BY <1>1, <1>2

\* Rows are only added.
Grows == \A c \in Cards : progress[c] # None => progress'[c] # None

\* A deck that is open stays open.
LEMMA OpenStays ==
  ASSUME TypeOK, TypeOK', Grows, NEW d \in Decks, Open(d)
  PROVE  Open(d)'
<1> DEFINE seen == [p \in Decks |-> CountSeen(progress, p)]
           more == [p \in Decks |-> CountSeen(progress', p)]
<1>1. DOMAIN progress = Cards /\ DOMAIN progress' = Cards
  BY DEF TypeOK
<1>2. \A p \in Decks : /\ CountSeen(progress, p) \in Nat /\ CountSeen(progress', p) \in Nat
                       /\ CountSeen(progress, p) <= CountSeen(progress', p)
  BY <1>1, CountsRows, CoverageGrows DEF Grows
<1>3. seen \in [Decks -> Int] /\ more \in [Decks -> Int] /\ \A p \in Decks : seen[p] <= more[p]
  BY <1>2
<1>4. Met(d, seen)
  BY DEF Open
<1>5. Met(d, more)
  BY <1>3, <1>4, MetMonotone
<1> QED BY <1>5 DEF Open

\* A gate that a shelf has read as met is met.
LEMMA ReadStandingIsBehind ==
  ASSUME TypeOK, NEW seen \in [Decks -> Nat], NEW d \in Decks,
         \A p \in Decks : seen[p] <= CountSeen(progress, p), Met(d, seen)
  PROVE  Open(d)
<1> DEFINE more == [p \in Decks |-> CountSeen(progress, p)]
<1>1. \A p \in Decks : CountSeen(progress, p) \in Nat
  BY CountsRows DEF TypeOK
<1>2. more \in [Decks -> Int] /\ seen \in [Decks -> Int] /\ \A p \in Decks : seen[p] <= more[p]
  BY <1>1
<1>3. Met(d, more)
  BY <1>2, MetMonotone
<1> QED BY <1>3 DEF Open

-----------------------------------------------------------------------------
(* Rounds, requests and the log.                                           *)

\* A flush in flight has the results of a round.
LEMMA RoundType ==
  ASSUME TypeOK, NEW f \in Flushes, sent[f] # None
  PROVE  /\ sent[f] \in Rounds /\ sent[f].deck \in Decks
         /\ Len(sent[f].results) \in Nat
         /\ DOMAIN sent[f].results = 1..Len(sent[f].results)
         /\ \A i \in 1..Len(sent[f].results) :
              sent[f].results[i].item \in Items /\ sent[f].results[i].rating \in Ratings
<1>1. sent[f] \in Rounds
  BY DEF TypeOK
<1> QED BY <1>1, BoundAssumption

\* No request.
LEMMA IdleType == Idle \in Request
  BY BoundAssumption DEF Idle, Request

\* The card loop goes on, to the next card or to the summary.
LEMMA NextCardType ==
  ASSUME TypeOK, NEW h \in Handlers, NEW i \in Nat
  PROVE  /\ NextCard(h, i) \in Request
         /\ NextCard(h, i).flush = req[h].flush /\ NextCard(h, i).i = i
         /\ NextCard(h, i).pc = IF i <= Len(Round(h).results) THEN "load" ELSE "summary"
<1>1. req[h] \in Request /\ now \in 0..MaxTime
  BY DEF TypeOK
<1>2. CASE i <= Len(Round(h).results)
  <2>1. \A t \in 0..MaxTime : [req[h] EXCEPT !.pc = "load", !.i = i, !.at = t] \in Request
    BY <1>1 DEF Request
  <2>2. (IF At(h, "gate") THEN now ELSE req[h].at) \in 0..MaxTime
    BY <1>1 DEF Request
  <2>3. NextCard(h, i) = [req[h] EXCEPT !.pc = "load", !.i = i,
                                        !.at = IF At(h, "gate") THEN now ELSE req[h].at]
    BY <1>1, <1>2 DEF NextCard, Request
  <2> QED BY <1>1, <1>2, <2>1, <2>2, <2>3 DEF Request
<1>3. CASE ~(i <= Len(Round(h).results))
  BY <1>1, <1>3 DEF NextCard, Request
<1> QED BY <1>2, <1>3

\* One more entry: it comes last, the others stay.
LEMMA LogAppend ==
  ASSUME log \in Seq(Review), NEW r \in Review, log' = Append(log, r)
  PROVE  /\ log' \in Seq(Review) /\ Len(log) \in Nat
         /\ DOMAIN log = 1..Len(log) /\ DOMAIN log' = 1..(Len(log) + 1)
         /\ \A i \in 1..Len(log) : log'[i] = log[i]
         /\ log'[Len(log) + 1] = r
  OBVIOUS

\* The entries of a card, and of a flush, are finitely many.
LEMMA LogFinite ==
  ASSUME log \in Seq(Review)
  PROVE  /\ \A c : IsFiniteSet(ReviewsOf(c)) /\ Cardinality(ReviewsOf(c)) \in Nat
         /\ \A f : IsFiniteSet(FlushedBy(f)) /\ Cardinality(FlushedBy(f)) \in Nat
<1>1. IsFiniteSet(1..Len(log)) /\ DOMAIN log = 1..Len(log)
  BY FS_Interval
<1>2. \A c : ReviewsOf(c) \in SUBSET (1..Len(log))
  BY <1>1 DEF ReviewsOf
<1>3. \A f : FlushedBy(f) \in SUBSET (1..Len(log))
  BY <1>1 DEF FlushedBy
<1>4. \A T \in SUBSET (1..Len(log)) : IsFiniteSet(T) /\ Cardinality(T) \in Nat
  BY <1>1, FS_Subset, FS_CardinalityType
<1> QED BY <1>2, <1>3, <1>4

\* An entry is added to those of its card and of its flush, and to no others.
LEMMA LogSets ==
  ASSUME log \in Seq(Review), NEW r \in Review, log' = Append(log, r)
  PROVE  /\ ReviewsOf(r.card)' = ReviewsOf(r.card) \cup {Len(log) + 1}
         /\ FlushedBy(r.flush)' = FlushedBy(r.flush) \cup {Len(log) + 1}
         /\ \A c : c # r.card => ReviewsOf(c)' = ReviewsOf(c)
         /\ \A f : f # r.flush => FlushedBy(f)' = FlushedBy(f)
         /\ \A c : ReviewsOf(c) \subseteq 1..Len(log)
         /\ \A f : FlushedBy(f) \subseteq 1..Len(log)
         /\ Cardinality(ReviewsOf(r.card))' = Cardinality(ReviewsOf(r.card)) + 1
         /\ Cardinality(FlushedBy(r.flush))' = Cardinality(FlushedBy(r.flush)) + 1
<1>1. /\ Len(log) \in Nat
      /\ DOMAIN log = 1..Len(log) /\ DOMAIN log' = 1..(Len(log) + 1)
      /\ \A i \in 1..Len(log) : log'[i] = log[i]
      /\ log'[Len(log) + 1] = r
  BY LogAppend
<1>2. \A i \in 1..(Len(log) + 1) : i \in 1..Len(log) \/ i = Len(log) + 1
  BY <1>1
<1>3. Len(log) + 1 \notin 1..Len(log) /\ Len(log) + 1 \in 1..(Len(log) + 1)
      /\ 1..Len(log) \subseteq 1..(Len(log) + 1)
  BY <1>1
<1>4. ReviewsOf(r.card)' = ReviewsOf(r.card) \cup {Len(log) + 1}
  BY <1>1, <1>2, <1>3 DEF ReviewsOf
<1>5. FlushedBy(r.flush)' = FlushedBy(r.flush) \cup {Len(log) + 1}
  BY <1>1, <1>2, <1>3 DEF FlushedBy
<1>6. \A c : c # r.card => ReviewsOf(c)' = ReviewsOf(c)
  BY <1>1, <1>2, <1>3 DEF ReviewsOf
<1>7. \A f : f # r.flush => FlushedBy(f)' = FlushedBy(f)
  BY <1>1, <1>2, <1>3 DEF FlushedBy
<1>8. /\ \A c : ReviewsOf(c) \subseteq 1..Len(log)
      /\ \A f : FlushedBy(f) \subseteq 1..Len(log)
  BY <1>1 DEF ReviewsOf, FlushedBy
<1>9. Cardinality(ReviewsOf(r.card))' = Cardinality(ReviewsOf(r.card)) + 1
  BY <1>3, <1>4, <1>8, LogFinite, FS_AddElement
<1>10. Cardinality(FlushedBy(r.flush))' = Cardinality(FlushedBy(r.flush)) + 1
  BY <1>3, <1>5, <1>8, LogFinite, FS_AddElement
<1> QED BY <1>4, <1>5, <1>6, <1>7, <1>8, <1>9, <1>10


-----------------------------------------------------------------------------
(* Saving a card.                                                          *)

\* The entry and the row that are saved.
SavedReview(h) == [card |-> Card(h), rating |-> Result(h).rating, given |-> Result(h).given,
                   at |-> req[h].at, flush |-> req[h].flush]
SavedRow(h) == Reviewed(req[h].row, Result(h).rating, req[h].at)

\* A request that is past the gate.
LEMMA PastGateHolds ==
  ASSUME TypeOK, RequestInv, NEW h \in Handlers, req[h].pc \in PastGate
  PROVE  /\ req[h].flush \in Flushes /\ sent[req[h].flush] # None
         /\ outcome[req[h].flush] = "none"
         /\ Round(h) \in Rounds /\ Round(h).deck \in Decks
         /\ Open(Round(h).deck) /\ Offered(Round(h).deck, Round(h).results)
         /\ Len(Round(h).results) \in Nat /\ req[h].i \in Nat
         /\ Cardinality(FlushedBy(req[h].flush)) = req[h].i - 1
         /\ req[h].pc = "summary" => req[h].i = Len(Round(h).results) + 1
         /\ req[h].pc # "summary" => req[h].i \in 1..Len(Round(h).results)
<1>1. /\ req[h].flush \in Flushes /\ sent[req[h].flush] # None
      /\ outcome[req[h].flush] = "none"
  BY DEF RequestInv, Holds, PastGate, InFlight
<1>2. req[h].i \in Nat
  BY DEF TypeOK, Request
<1>3. Round(h) \in Rounds /\ Round(h).deck \in Decks /\ Len(Round(h).results) \in Nat
  BY <1>1, RoundType DEF Round
<1>4. /\ Open(Round(h).deck) /\ Offered(Round(h).deck, Round(h).results)
      /\ Cardinality(FlushedBy(req[h].flush)) = req[h].i - 1
      /\ IF req[h].pc = "summary" THEN req[h].i = Len(Round(h).results) + 1
                                  ELSE req[h].i \in 1..Len(Round(h).results)
  BY DEF RequestInv, Holds, Round
<1> QED BY <1>1, <1>2, <1>3, <1>4

\* They are an entry and a row, of a card of an open deck.
LEMMA SavedType ==
  ASSUME TypeOK, RequestInv, NEW h \in Handlers, At(h, "save")
  PROVE  /\ Card(h) \in Cards /\ Card(h)[1] = Round(h).deck
         /\ SavedReview(h) \in Review
         /\ SavedRow(h) \in Row /\ SavedRow(h) # None
<1>1. /\ req[h].flush \in Flushes /\ sent[req[h].flush] # None
      /\ Round(h).deck \in Decks
      /\ Offered(Round(h).deck, Round(h).results)
      /\ req[h].i \in 1..Len(Round(h).results)
  BY PastGateHolds DEF At, PastGate
<1>2. /\ DOMAIN Round(h).results = 1..Len(Round(h).results)
      /\ Result(h).item \in Items /\ Result(h).rating \in Ratings
  BY <1>1, RoundType DEF Round, Result
<1>3. Result(h).given \in Answers \cup {None}
  BY <1>1, <1>2 DEF Offered, Result, Answers
<1>4. req[h].at \in 0..MaxTime /\ req[h].row \in Row \cup {None}
  BY DEF TypeOK, Request
<1>5. Card(h) \in Cards /\ Card(h)[1] = Round(h).deck
  BY <1>1, <1>2 DEF Card, Cards
<1>6. SavedReview(h) \in Review
  BY <1>1, <1>2, <1>3, <1>4, <1>5 DEF SavedReview, Review
<1>7. SavedRow(h) \in Row
  <2>1. (IF req[h].row = None THEN 1 ELSE req[h].row.reps + 1) \in Nat \ {0}
    BY <1>4 DEF Row
  <2> QED BY <1>4, <2>1 DEF SavedRow, Reviewed, Row
<1> QED BY <1>5, <1>6, <1>7, RowAssumption

\* What the transaction does to the two tables.
LEMMA SaveEffect ==
  ASSUME TypeOK, RequestInv, NEW h \in Handlers, SaveCard(h)
  PROVE  /\ At(h, "save")
         /\ log' = Append(log, SavedReview(h))
         /\ progress' = [progress EXCEPT ![Card(h)] = SavedRow(h)]
         /\ progress'[Card(h)] = SavedRow(h)
         /\ \A c \in Cards : c # Card(h) => progress'[c] = progress[c]
         /\ req' = [req EXCEPT ![h] = NextCard(h, req[h].i + 1)]
         /\ overrun' = overrun \cup {c \in {Card(h)} : progress[c] # req[h].row}
         /\ UNCHANGED <<now, faults, sent, outcome>>
<1>1. At(h, "save")
  BY DEF SaveCard
<1>2. progress' = [progress EXCEPT ![Card(h)] = SavedRow(h)]
  BY DEF SaveCard, SavedRow
<1>3. Card(h) \in Cards
  BY <1>1, SavedType
<1>4. progress'[Card(h)] = SavedRow(h) /\ \A c \in Cards : c # Card(h) => progress'[c] = progress[c]
  BY <1>2, <1>3 DEF TypeOK
<1> QED BY <1>1, <1>2, <1>4 DEF SaveCard, SavedReview

-----------------------------------------------------------------------------
(* Types.                                                                  *)

\* The shelf reads one more deck.
LEMMA ReadStandingEffect ==
  ASSUME TypeOK, NEW h \in Handlers, ReadStanding(h)
  PROVE  \E r \in Request :
           /\ req' = [req EXCEPT ![h] = r]
           /\ r.pc = IF req[h].i = Len(Catalog) THEN "shown" ELSE "shelf"
           /\ r.i = req[h].i + 1
           /\ \A d \in Decks : r.seen[d] \in {req[h].seen[d], CountSeen(progress, d)}
<1> DEFINE d == Catalog[req[h].i]
           pc == IF req[h].i = Len(Catalog) THEN "shown" ELSE "shelf"
           seen == [req[h].seen EXCEPT ![d] = CountSeen(progress, d)]
           r == [req[h] EXCEPT !.seen = seen, !.i = req[h].i + 1, !.pc = pc]
<1>1. req[h] \in Request /\ CountSeen(progress, d) \in Nat
  BY CountsRows DEF TypeOK
<1>2. seen \in [Decks -> Nat] /\ req[h].i + 1 \in Nat /\ pc \in {"shelf", "shown"}
  <2>1. req[h].seen \in [Decks -> Nat] /\ req[h].i \in Nat
    BY <1>1 DEF Request
  <2>2. seen \in [Decks -> Nat]
    <3> HIDE DEF d
    <3> QED BY <1>1, <2>1
  <2> QED BY <2>1, <2>2
<1>3. \A p \in Decks : seen[p] \in {req[h].seen[p], CountSeen(progress, p)}
  BY <1>1 DEF Request
<1>4. req' = [req EXCEPT ![h] = r]
  BY DEF ReadStanding, TypeOK, Request
<1> HIDE DEF seen, pc
<1>5. r \in Request /\ r.pc = pc /\ r.i = req[h].i + 1 /\ r.seen = seen
  BY <1>1, <1>2 DEF Request
<1> HIDE DEF r
<1> QED BY <1>3, <1>4, <1>5 DEF pc

\* Every step keeps the types.
LEMMA TypeStep ==
  ASSUME TypeOK, RequestInv, [Next]_vars
  PROVE  TypeOK'
<1>1. ASSUME NEW h \in Handlers, NEW f \in Flushes, NEW round \in Rounds, PostGrade(h, f, round)
      PROVE  TypeOK'
  <2>1. [Idle EXCEPT !.pc = "gate", !.flush = f] \in Request
    BY IdleType DEF Request
  <2> QED BY <1>1, <2>1 DEF PostGrade, TypeOK
<1>2. ASSUME NEW h \in Handlers, NEW what \in Outcomes, Answer(h, what),
             UNCHANGED <<now, progress, log, sent, overrun>>, faults' \in 0..MaxFaults
      PROVE  TypeOK'
  BY <1>2, IdleType DEF Answer, TypeOK
<1>3. ASSUME NEW h \in Handlers, CheckGate(h) PROVE TypeOK'
  <2>1. CASE Answer(h, "locked")
    BY <1>2, <1>3, <2>1 DEF CheckGate, Outcomes, TypeOK
  <2>2. CASE Answer(h, "refused")
    BY <1>2, <1>3, <2>2 DEF CheckGate, Outcomes, TypeOK
  <2>3. CASE req' = [req EXCEPT ![h] = NextCard(h, 1)] /\ UNCHANGED outcome
    BY <1>3, <2>3, NextCardType DEF CheckGate, TypeOK
  <2> QED BY <1>3, <2>1, <2>2, <2>3 DEF CheckGate
<1>4. ASSUME NEW h \in Handlers, LoadCard(h) PROVE TypeOK'
  <2>1. Card(h) \in Cards
    <3>1. req[h].pc \in PastGate /\ req[h].pc # "summary"
      BY <1>4 DEF LoadCard, At, PastGate
    <3>2. /\ req[h].flush \in Flushes /\ sent[req[h].flush] # None
          /\ req[h].i \in 1..Len(Round(h).results) /\ Round(h).deck \in Decks
      BY <3>1, PastGateHolds
    <3> QED BY <3>2, RoundType DEF Card, Result, Round, Cards
  <2>2. progress[Card(h)] \in Row \cup {None}
    BY <2>1 DEF TypeOK
  <2>3. PICK r \in Request : req' = [req EXCEPT ![h] = r]
    <3>1. [req[h] EXCEPT !.pc = "save", !.row = progress[Card(h)]] \in Request
      BY <2>2 DEF TypeOK, Request
    <3> QED BY <1>4, <3>1 DEF LoadCard, TypeOK
  <2> QED BY <1>4, <2>3 DEF LoadCard, TypeOK
<1>5. ASSUME NEW h \in Handlers, SaveCard(h) PROVE TypeOK'
  <2>1. At(h, "save") /\ req[h].i + 1 \in Nat
    BY <1>5 DEF SaveCard, TypeOK, Request
  <2>2. log' \in Seq(Review)
    BY <1>5, <2>1, SaveEffect, SavedType, LogAppend DEF TypeOK
  <2>3. progress' \in [Cards -> Row \cup {None}] /\ overrun' \subseteq Cards
    BY <1>5, <2>1, SaveEffect, SavedType DEF TypeOK
  <2>4. req' \in [Handlers -> Request]
    <3>1. PICK r \in Request : req' = [req EXCEPT ![h] = r]
      BY <1>5, <2>1, SaveEffect, NextCardType
    <3> QED BY <3>1 DEF TypeOK
  <2> QED BY <1>5, <2>2, <2>3, <2>4, SaveEffect DEF TypeOK
<1>6. ASSUME NEW h \in Handlers, Summarise(h) PROVE TypeOK'
  BY <1>2, <1>6 DEF Summarise, Outcomes, TypeOK
<1>7. ASSUME NEW h \in Handlers, OpenShelf(h) PROVE TypeOK'
  <2>1. [Idle EXCEPT !.pc = "shelf"] \in Request
    BY IdleType DEF Request
  <2> QED BY <1>7, <2>1 DEF OpenShelf, TypeOK
<1>8. ASSUME NEW h \in Handlers, ReadStanding(h) PROVE TypeOK'
  <2>1. PICK r \in Request : req' = [req EXCEPT ![h] = r]
    BY <1>8, ReadStandingEffect
  <2> QED BY <1>8, <2>1 DEF ReadStanding, TypeOK
<1>9. ASSUME NEW h \in Handlers, CloseShelf(h) PROVE TypeOK'
  BY <1>9, IdleType DEF CloseShelf, TypeOK
<1>10. Fault => faults' \in 0..MaxFaults
  BY BoundAssumption DEF Fault, TypeOK
<1>11. ASSUME NEW h \in Handlers, Fail(h) PROVE TypeOK'
  <2>1. CASE Answer(h, "failed")
    BY <1>2, <1>10, <1>11, <2>1 DEF Fail, Outcomes
  <2>2. CASE req' = [req EXCEPT ![h] = Idle] /\ UNCHANGED outcome
    BY <1>10, <1>11, <2>2, IdleType DEF Fail, TypeOK
  <2> QED BY <1>11, <2>1, <2>2 DEF Fail
<1>12. CASE Tick
  BY <1>12, BoundAssumption DEF Tick, TypeOK
<1>13. CASE Crash
  BY <1>10, <1>13, IdleType DEF Crash, TypeOK
<1>14. CASE UNCHANGED vars
  BY <1>14 DEF vars, TypeOK
<1> QED BY <1>1, <1>3, <1>4, <1>5, <1>6, <1>7, <1>8, <1>9, <1>11, <1>12, <1>13, <1>14 DEF Next

-----------------------------------------------------------------------------
(* The gate.                                                               *)

\* Only a save writes rows or the log.
LEMMA OnlySavesWrite ==
  ASSUME [Next]_vars, ~(\E h \in Handlers : SaveCard(h))
  PROVE  UNCHANGED <<progress, log, overrun>>
  BY DEF Next, vars, PostGrade, CheckGate, LoadCard, Summarise, OpenShelf, ReadStanding,
         CloseShelf, Fail, Tick, Crash

\* No step deletes a row.
LEMMA RowsStay ==
  ASSUME TypeOK, RequestInv, [Next]_vars
  PROVE  Grows
<1>1. ASSUME NEW h \in Handlers, SaveCard(h) PROVE Grows
  BY <1>1, SaveEffect, SavedType DEF Grows
<1>2. CASE ~(\E h \in Handlers : SaveCard(h))
  BY <1>2, OnlySavesWrite DEF Grows
<1> QED BY <1>1, <1>2

\* A row is written in an open deck, which stays open.
LEMMA GateStep ==
  ASSUME TypeOK, RequestInv, GateInv, [Next]_vars
  PROVE  GateInv'
<1>1. TypeOK' /\ Grows
  BY TypeStep, RowsStay
<1>2. \A d \in Decks : Open(d) => Open(d)'
  BY <1>1, OpenStays
<1>3. \A c \in Cards : c[1] \in Decks
  BY DEF Cards
<1>4. ASSUME NEW h \in Handlers, SaveCard(h), NEW c \in Cards, progress'[c] # None
      PROVE  Open(c[1])
  <2>1. CASE c = Card(h)
    BY <1>4, <2>1, SaveEffect, SavedType, PastGateHolds DEF At, PastGate
  <2>2. CASE c # Card(h)
    BY <1>4, <2>2, SaveEffect DEF GateInv
  <2> QED BY <2>1, <2>2
<1>5. ASSUME ~(\E h \in Handlers : SaveCard(h)), NEW c \in Cards, progress'[c] # None
      PROVE  Open(c[1])
  BY <1>5, OnlySavesWrite DEF GateInv
<1> QED BY <1>2, <1>3, <1>4, <1>5 DEF GateInv

-----------------------------------------------------------------------------
(* The requests.                                                           *)

\* Nothing is asked of a request that is idle.
LEMMA IdleHolds == Holds(Idle) /\ Holds(Idle)'
  BY DEF Holds, Idle, InFlight, PastGate

\* What a request holds outlasts the steps of the others.
LEMMA HoldsStays ==
  ASSUME TypeOK, TypeOK', Grows, NEW r \in Request, Holds(r),
         r.pc \in InFlight => /\ sent'[r.flush] = sent[r.flush]
                              /\ outcome'[r.flush] = outcome[r.flush]
                              /\ FlushedBy(r.flush)' = FlushedBy(r.flush)
  PROVE  Holds(r)'
<1>1. DOMAIN progress = Cards /\ DOMAIN progress' = Cards
  BY DEF TypeOK
<1>2. ASSUME r.pc \in PastGate PROVE Open(sent[r.flush].deck)'
  <2>1. r.pc \in InFlight
    BY <1>2 DEF PastGate, InFlight
  <2>2. r.flush \in Flushes /\ sent[r.flush] # None /\ Open(sent[r.flush].deck)
    BY <1>2, <2>1 DEF Holds
  <2>3. sent[r.flush].deck \in Decks
    BY <2>2, RoundType
  <2>4. PICK d \in Decks : d = sent[r.flush].deck
    BY <2>3
  <2>5. Open(d)'
    BY <2>2, <2>4, OpenStays
  <2>6. sent'[r.flush].deck = d
    BY <2>1, <2>4
  <2> QED BY <2>5, <2>6 DEF Open
<1>3. ASSUME r.pc \in {"shelf", "shown"}, NEW d \in Decks
      PROVE  r.seen[d] <= CountSeen(progress', d)
  <2>1. /\ CountSeen(progress, d) \in Nat /\ CountSeen(progress', d) \in Nat
        /\ CountSeen(progress, d) <= CountSeen(progress', d)
    BY <1>1, CountsRows, CoverageGrows DEF Grows
  <2>2. r.seen[d] \in Nat /\ r.seen[d] <= CountSeen(progress, d)
    BY <1>3 DEF Request, Holds
  <2> QED BY <2>1, <2>2
<1>4. r.pc \in InFlight =>
        /\ r.flush \in Flushes /\ sent'[r.flush] # None /\ outcome'[r.flush] = "none"
        /\ r.pc = "gate" => FlushedBy(r.flush)' = {}
  BY DEF Holds
<1>5. ASSUME r.pc \in PastGate
      PROVE  LET round == sent'[r.flush]
             IN  /\ Offered(round.deck, round.results)
                 /\ Cardinality(FlushedBy(r.flush)') = r.i - 1
                 /\ IF r.pc = "summary" THEN r.i = Len(round.results) + 1
                                        ELSE r.i \in 1..Len(round.results)
  BY <1>5 DEF Holds, PastGate, InFlight
<1>6. "gate" \in InFlight
  BY DEF InFlight
<1>7. r.pc = "shelf" => r.i \in 1..Len(Catalog)
  BY DEF Holds
<1> QED BY <1>2, <1>3, <1>4, <1>5, <1>6, <1>7 DEF Holds

\* A step of one request keeps the invariant, if what it leaves behind is right and
\* the flushes of the others are as they were.
LEMMA OneRequestMoves ==
  ASSUME TypeOK, TypeOK', RequestInv, Grows, NEW h \in Handlers, NEW r \in Request,
         req' = [req EXCEPT ![h] = r], Holds(r)',
         \A f \in Flushes : sent'[f] = None => outcome'[f] = "none",
         \A g \in Handlers \ {h}, f \in Flushes : req[g].pc \in InFlight /\ req[g].flush = f =>
           /\ r.pc \in InFlight => f # r.flush
           /\ sent'[f] = sent[f] /\ outcome'[f] = outcome[f] /\ FlushedBy(f)' = FlushedBy(f)
  PROVE  RequestInv'
<1>1. req'[h] = r /\ \A g \in Handlers \ {h} : req'[g] = req[g] /\ req[g] \in Request
  BY DEF TypeOK
<1>2. ASSUME NEW g \in Handlers PROVE Holds(req[g])'
  <2>1. CASE g = h
    BY <1>1, <2>1 DEF Holds
  <2>2. CASE g # h
    <3>1. PICK q \in Request : q = req[g]
      BY <1>1, <2>2
    <3>2. Holds(q)
      BY <3>1 DEF RequestInv
    <3>3. q.pc \in InFlight => q.flush \in Flushes
      BY <3>2 DEF Holds
    <3>4. q.pc \in InFlight => /\ sent'[q.flush] = sent[q.flush]
                               /\ outcome'[q.flush] = outcome[q.flush]
                               /\ FlushedBy(q.flush)' = FlushedBy(q.flush)
      BY <2>2, <3>1, <3>3
    <3>5. Holds(q)'
      BY <3>2, <3>4, HoldsStays
    <3>6. req'[g] = q
      BY <1>1, <2>2, <3>1
    <3> QED BY <3>5, <3>6 DEF Holds
  <2> QED BY <2>1, <2>2
<1>3. ASSUME NEW g \in Handlers, NEW k \in Handlers,
             req'[g].pc \in InFlight, req'[k].pc \in InFlight, req'[g].flush = req'[k].flush
      PROVE  g = k
  <2>1. \A q \in Handlers : req[q].pc \in InFlight => req[q].flush \in Flushes
    BY DEF RequestInv, Holds
  <2>2. CASE g # h /\ k # h
    BY <1>1, <1>3, <2>2 DEF RequestInv
  <2>3. CASE g = h
    BY <1>1, <1>3, <2>1, <2>3
  <2>4. CASE k = h
    BY <1>1, <1>3, <2>1, <2>4
  <2> QED BY <2>2, <2>3, <2>4
<1> QED BY <1>2, <1>3 DEF RequestInv

\* No other request has the flush of this one.
LEMMA OwnFlush ==
  ASSUME TypeOK, RequestInv, NEW h \in Handlers, req[h].pc \in InFlight
  PROVE  /\ req[h].flush \in Flushes /\ sent[req[h].flush] # None
         /\ outcome[req[h].flush] = "none"
         /\ \A g \in Handlers \ {h} :
              req[g].pc \in InFlight => req[g].flush \in Flushes /\ req[g].flush # req[h].flush
  BY DEF RequestInv, Holds

\* An answered request is idle; its flush is nobody's any more.
LEMMA AnswerStep ==
  ASSUME TypeOK, TypeOK', RequestInv, Grows, NEW h \in Handlers, NEW what,
         req[h].pc \in InFlight, Answer(h, what), UNCHANGED <<progress, log, sent>>
  PROVE  RequestInv'
<1>1. /\ req' = [req EXCEPT ![h] = Idle]
      /\ outcome' = [outcome EXCEPT ![req[h].flush] = what]
  BY DEF Answer
<1>2. \A f \in Flushes : f # req[h].flush => outcome'[f] = outcome[f]
  BY <1>1 DEF TypeOK
<1>3. \A f \in Flushes : sent'[f] = None => outcome'[f] = "none"
  BY <1>2, OwnFlush DEF RequestInv
<1>4. \A f : FlushedBy(f)' = FlushedBy(f)
  BY DEF FlushedBy
<1>5. Idle.pc \notin InFlight
  BY DEF Idle, InFlight
<1>6. \A g \in Handlers \ {h}, f \in Flushes : req[g].pc \in InFlight /\ req[g].flush = f =>
        /\ Idle.pc \in InFlight => f # Idle.flush
        /\ sent'[f] = sent[f] /\ outcome'[f] = outcome[f] /\ FlushedBy(f)' = FlushedBy(f)
  BY <1>2, <1>4, <1>5, OwnFlush
<1> QED BY <1>1, <1>3, <1>6, IdleHolds, IdleType, OneRequestMoves

\* A step that writes nothing but its own request, and keeps its flush if it has one.
LEMMA QuietStep ==
  ASSUME TypeOK, TypeOK', RequestInv, Grows, NEW h \in Handlers, NEW r \in Request,
         req' = [req EXCEPT ![h] = r], Holds(r)', UNCHANGED <<progress, log, sent, outcome>>,
         r.pc \in InFlight => req[h].pc \in InFlight /\ r.flush = req[h].flush
  PROVE  RequestInv'
<1>1. \A f \in Flushes : sent'[f] = None => outcome'[f] = "none"
  BY DEF RequestInv
<1>2. \A f : FlushedBy(f)' = FlushedBy(f)
  BY DEF FlushedBy
<1>3. \A g \in Handlers \ {h}, f \in Flushes : req[g].pc \in InFlight /\ req[g].flush = f =>
        /\ r.pc \in InFlight => f # r.flush
        /\ sent'[f] = sent[f] /\ outcome'[f] = outcome[f] /\ FlushedBy(f)' = FlushedBy(f)
  BY <1>2, OwnFlush
<1> QED BY <1>1, <1>3, OneRequestMoves

\* A flush arrives: it is new, and nothing of it is logged.
LEMMA PostGradeStep ==
  ASSUME TypeOK, TypeOK', RequestInv, Grows, FlushIsPrefix,
         NEW h \in Handlers, NEW f \in Flushes, NEW round \in Rounds, PostGrade(h, f, round)
  PROVE  RequestInv'
<1>1. PICK r \in Request : /\ req' = [req EXCEPT ![h] = r]
                           /\ r.pc = "gate" /\ r.flush = f
  <2>1. [Idle EXCEPT !.pc = "gate", !.flush = f] \in Request
    BY IdleType DEF Request
  <2> QED BY <2>1 DEF PostGrade, Idle
<1>2. /\ sent[f] = None /\ sent'[f] = round /\ round # None
      /\ \A e \in Flushes : e # f => sent'[e] = sent[e]
      /\ UNCHANGED <<progress, log, outcome>>
  BY BoundAssumption DEF PostGrade, TypeOK
<1>3. \A e : FlushedBy(e)' = FlushedBy(e)
  BY <1>2 DEF FlushedBy
<1>4. FlushedBy(f) = {} /\ outcome[f] = "none"
  BY <1>2 DEF FlushIsPrefix, RequestInv
<1>5. Holds(r)'
  BY <1>1, <1>2, <1>3, <1>4 DEF Holds, PastGate
<1>6. \A e \in Flushes : sent'[e] = None => outcome'[e] = "none"
  BY <1>2, <1>4 DEF RequestInv
<1>7. \A g \in Handlers \ {h}, e \in Flushes : req[g].pc \in InFlight /\ req[g].flush = e =>
        /\ r.pc \in InFlight => e # r.flush
        /\ sent'[e] = sent[e] /\ outcome'[e] = outcome[e] /\ FlushedBy(e)' = FlushedBy(e)
  <2>1. \A g \in Handlers : req[g].pc \in InFlight => req[g].flush # f
    BY <1>2 DEF RequestInv, Holds
  <2> QED BY <1>1, <1>2, <1>3, <2>1
<1> QED BY <1>1, <1>5, <1>6, <1>7, OneRequestMoves

\* The gate is passed: the deck is open, and nothing has been logged.
LEMMA CheckGateStep ==
  ASSUME TypeOK, TypeOK', RequestInv, Grows, NEW h \in Handlers, CheckGate(h)
  PROVE  RequestInv'
<1>1. req[h].pc = "gate" /\ req[h].pc \in InFlight /\ UNCHANGED <<progress, log, sent>>
  BY DEF CheckGate, At, InFlight
<1>2. CASE \E what : Answer(h, what)
  BY <1>1, <1>2, AnswerStep
<1>3. CASE /\ Open(Round(h).deck) /\ Offered(Round(h).deck, Round(h).results)
           /\ req' = [req EXCEPT ![h] = NextCard(h, 1)]
           /\ UNCHANGED outcome
  <2>1. PICK r \in Request : /\ r = NextCard(h, 1)
                             /\ r.flush = req[h].flush /\ r.i = 1
                             /\ r.pc = IF 1 <= Len(Round(h).results) THEN "load" ELSE "summary"
    BY NextCardType
  <2>2. PICK f \in Flushes : f = req[h].flush
    BY <1>1, OwnFlush
  <2>3. /\ sent[f] # None /\ outcome[f] = "none" /\ Round(h) = sent[f]
        /\ sent[f].deck \in Decks /\ Len(sent[f].results) \in Nat
    BY <1>1, <2>2, OwnFlush, RoundType DEF Round
  <2>4. FlushedBy(f) = {}
    BY <1>1, <2>2 DEF RequestInv, Holds
  <2>5. Cardinality(FlushedBy(f)) = 1 - 1
    BY <2>4, FS_EmptySet
  <2>6. Holds(r)
    BY <1>3, <2>1, <2>2, <2>3, <2>5 DEF Holds, PastGate, InFlight
  <2>7. \A e : FlushedBy(e)' = FlushedBy(e)
    BY <1>1 DEF FlushedBy
  <2>8. Holds(r)'
    BY <1>1, <1>3, <2>6, <2>7, HoldsStays
  <2> QED BY <1>1, <1>3, <2>1, <2>8, QuietStep
<1> QED BY <1>2, <1>3 DEF CheckGate

\* The row is loaded.
LEMMA LoadCardStep ==
  ASSUME TypeOK, TypeOK', RequestInv, Grows, NEW h \in Handlers, LoadCard(h)
  PROVE  RequestInv'
<1>1. /\ req[h].pc = "load" /\ req[h].pc \in InFlight /\ Holds(req[h])
      /\ UNCHANGED <<progress, log, sent, outcome>>
  BY DEF LoadCard, At, InFlight, RequestInv
<1>2. PICK r : r = [req[h] EXCEPT !.pc = "save", !.row = progress[Card(h)]]
  OBVIOUS
<1>3. req' = [req EXCEPT ![h] = r]
  BY <1>2 DEF LoadCard, TypeOK
<1>4. r \in Request
  BY <1>3 DEF TypeOK
<1>5. r.pc = "save" /\ r.flush = req[h].flush /\ r.i = req[h].i
  BY <1>2 DEF TypeOK, Request
<1>6. Holds(r)
  BY <1>1, <1>5 DEF Holds, PastGate
<1>7. \A e : FlushedBy(e)' = FlushedBy(e)
  BY <1>1 DEF FlushedBy
<1>8. Holds(r)'
  BY <1>1, <1>4, <1>6, <1>7, HoldsStays
<1> QED BY <1>1, <1>3, <1>4, <1>5, <1>8, QuietStep

\* A card is saved: one more answer is logged, and the loop goes on.
LEMMA SaveCardStep ==
  ASSUME TypeOK, TypeOK', RequestInv, Grows, NEW h \in Handlers, SaveCard(h)
  PROVE  RequestInv'
<1>1. /\ req[h].pc = "save" /\ req[h].pc \in InFlight /\ req[h].pc \in PastGate
      /\ UNCHANGED <<sent, outcome>>
  BY SaveEffect DEF At, InFlight, PastGate
<1>2. PICK f \in Flushes : f = req[h].flush
  BY <1>1, OwnFlush
<1>3. PICK s \in Review : s = SavedReview(h)
  BY <1>1, SavedType DEF At
<1>4. s.flush = f /\ log' = Append(log, s) /\ log \in Seq(Review)
  BY <1>2, <1>3, SaveEffect DEF SavedReview, TypeOK
<1>5. /\ \A e : e # f => FlushedBy(e)' = FlushedBy(e)
      /\ Cardinality(FlushedBy(f))' = Cardinality(FlushedBy(f)) + 1
  BY <1>4, LogSets
<1>6. /\ sent[f] # None /\ outcome[f] = "none" /\ Round(h) = sent[f] /\ sent[f].deck \in Decks
      /\ Open(sent[f].deck) /\ Offered(sent[f].deck, sent[f].results)
      /\ Len(sent[f].results) \in Nat /\ req[h].i \in 1..Len(sent[f].results)
      /\ Cardinality(FlushedBy(f)) = req[h].i - 1
  BY <1>1, <1>2, PastGateHolds DEF Round
<1>7. PICK n \in Nat : n = req[h].i + 1
  BY <1>6
<1>8. PICK r \in Request : /\ r = NextCard(h, n)
                           /\ r.flush = f /\ r.i = n
                           /\ r.pc = IF n <= Len(sent[f].results) THEN "load" ELSE "summary"
  BY <1>2, <1>6, NextCardType
<1>9. req' = [req EXCEPT ![h] = r]
  BY <1>7, <1>8, SaveEffect
<1>10. Open(sent[f].deck)'
  <2>1. PICK d \in Decks : d = sent[f].deck
    BY <1>6
  <2>2. Open(d)'
    BY <1>6, <2>1, OpenStays
  <2> QED BY <1>1, <2>1, <2>2 DEF Open
<1>11. Cardinality(FlushedBy(f))' = n - 1
  BY <1>5, <1>6, <1>7
<1>12. IF r.pc = "summary" THEN n = Len(sent[f].results) + 1 ELSE n \in 1..Len(sent[f].results)
  BY <1>6, <1>7, <1>8
<1>13. Holds(r)'
  BY <1>1, <1>6, <1>8, <1>10, <1>11, <1>12 DEF Holds, PastGate, InFlight
<1>14. \A e \in Flushes : sent'[e] = None => outcome'[e] = "none"
  BY <1>1 DEF RequestInv
<1>15. \A g \in Handlers \ {h}, e \in Flushes : req[g].pc \in InFlight /\ req[g].flush = e =>
         /\ r.pc \in InFlight => e # r.flush
         /\ sent'[e] = sent[e] /\ outcome'[e] = outcome[e] /\ FlushedBy(e)' = FlushedBy(e)
  BY <1>1, <1>2, <1>5, <1>8, OwnFlush
<1> QED BY <1>9, <1>13, <1>14, <1>15, OneRequestMoves

\* The shelf is asked for, read and given up: it has read no more than there is.
LEMMA ShelfStep ==
  ASSUME TypeOK, TypeOK', RequestInv, Grows, NEW h \in Handlers,
         OpenShelf(h) \/ ReadStanding(h) \/ CloseShelf(h)
  PROVE  RequestInv'
<1>1. UNCHANGED <<progress, log, sent, outcome>>
  BY DEF OpenShelf, ReadStanding, CloseShelf
<1>2. DOMAIN progress = Cards /\ \A d : CountSeen(progress, d) \in Nat
  BY CountsRows DEF TypeOK
<1>3. Len(Catalog) \in Nat \ {0}
  BY CourseAssumption
<1>4. CASE OpenShelf(h)
  <2>1. PICK r : r = [Idle EXCEPT !.pc = "shelf"]
    OBVIOUS
  <2>2. req' = [req EXCEPT ![h] = r]
    BY <1>4, <2>1 DEF OpenShelf
  <2>3. r \in Request
    BY <2>2 DEF TypeOK
  <2>4. r.pc = "shelf" /\ r.i = 1 /\ \A d \in Decks : r.seen[d] = 0
    BY <2>1 DEF Idle
  <2>5. Holds(r)'
    BY <1>1, <1>2, <1>3, <2>4 DEF Holds, InFlight, PastGate
  <2> QED BY <1>1, <2>2, <2>3, <2>4, <2>5, QuietStep DEF InFlight
<1>5. CASE ReadStanding(h)
  <2>1. PICK r \in Request :
           /\ req' = [req EXCEPT ![h] = r]
           /\ r.pc = IF req[h].i = Len(Catalog) THEN "shown" ELSE "shelf"
           /\ r.i = req[h].i + 1
           /\ \A d \in Decks : r.seen[d] \in {req[h].seen[d], CountSeen(progress, d)}
    BY <1>5, ReadStandingEffect
  <2>2. /\ req[h].i \in 1..Len(Catalog)
        /\ \A d \in Decks : req[h].seen[d] <= CountSeen(progress, d)
    BY <1>5 DEF ReadStanding, At, RequestInv, Holds
  <2>3. r.pc = "shelf" => r.i \in 1..Len(Catalog)
    BY <1>3, <2>1, <2>2
  <2>4. \A d \in Decks : r.seen[d] <= CountSeen(progress, d)
    BY <1>2, <2>1, <2>2
  <2>5. r.pc \in {"shelf", "shown"}
    BY <2>1
  <2>6. Holds(r)'
    BY <1>1, <2>3, <2>4, <2>5 DEF Holds, InFlight, PastGate
  <2> QED BY <1>1, <2>1, <2>5, <2>6, QuietStep DEF InFlight
<1>6. CASE CloseShelf(h)
  <2>1. Idle.pc \notin InFlight
    BY DEF Idle, InFlight
  <2> QED BY <1>1, <1>6, <2>1, IdleType, IdleHolds, QuietStep DEF CloseShelf
<1> QED BY <1>4, <1>5, <1>6

\* Every step keeps what is said of the requests.
LEMMA RequestStep ==
  ASSUME TypeOK, RequestInv, FlushIsPrefix, [Next]_vars
  PROVE  RequestInv'
<1>1. TypeOK' /\ Grows
  BY TypeStep, RowsStay
<1>2. ASSUME NEW h \in Handlers, Summarise(h) PROVE RequestInv'
  BY <1>1, <1>2, AnswerStep DEF Summarise, At, InFlight
<1>3. ASSUME NEW h \in Handlers, Fail(h) PROVE RequestInv'
  <2>1. UNCHANGED <<progress, log, sent>>
    BY <1>3 DEF Fail
  <2>2. CASE Answer(h, "failed") /\ req[h].pc \in InFlight
    BY <1>1, <2>1, <2>2, AnswerStep
  <2>3. CASE req' = [req EXCEPT ![h] = Idle] /\ UNCHANGED outcome
    <3>1. Idle.pc \notin InFlight
      BY DEF Idle, InFlight
    <3> QED BY <1>1, <2>1, <2>3, <3>1, IdleType, IdleHolds, QuietStep
  <2> QED BY <1>3, <2>2, <2>3 DEF Fail, At, InFlight
<1>4. ASSUME UNCHANGED <<progress, log, sent, outcome>>, Crash PROVE RequestInv'
  <2>1. \A h \in Handlers : req'[h] = Idle
    BY <1>4 DEF Crash
  <2>2. Idle.pc \notin InFlight
    BY DEF Idle, InFlight
  <2>3. \A h \in Handlers : Holds(req[h])'
    BY <2>1, IdleHolds DEF Holds
  <2> QED BY <1>4, <2>1, <2>2, <2>3 DEF RequestInv
<1>5. ASSUME UNCHANGED <<progress, log, sent, outcome, req>> PROVE RequestInv'
  BY <1>5 DEF RequestInv, Holds, FlushedBy, Open
<1>6. Crash => UNCHANGED <<progress, log, sent, outcome>>
  BY DEF Crash
<1>7. Tick \/ UNCHANGED vars => UNCHANGED <<progress, log, sent, outcome, req>>
  BY DEF Tick, vars
<1>8. ASSUME NEW h \in Handlers,
             \/ \E f \in Flushes, round \in Rounds : PostGrade(h, f, round)
             \/ CheckGate(h)
             \/ LoadCard(h)
             \/ SaveCard(h)
      PROVE  RequestInv'
  BY <1>1, <1>8, PostGradeStep, CheckGateStep, LoadCardStep, SaveCardStep
<1> QED BY <1>1, <1>2, <1>3, <1>4, <1>5, <1>6, <1>7, <1>8, ShelfStep DEF Next

-----------------------------------------------------------------------------
(* The rows.                                                               *)

\* The saved row is the outcome of the entry that goes with it, and counts one more
\* than the row that was loaded; if that is no longer the row, the card is overrun.
LEMMA RowStep ==
  ASSUME TypeOK, RequestInv, RowIsLastReview, [Next]_vars
  PROVE  RowIsLastReview'
<1>1. ASSUME NEW h \in Handlers, SaveCard(h) PROVE RowIsLastReview'
  <2>1. PICK s \in Review : s = SavedReview(h)
    BY <1>1, SaveEffect, SavedType
  <2>2. PICK k \in Cards : k = Card(h)
    BY <1>1, SaveEffect, SavedType
  <2>3. PICK row \in Row : row = SavedRow(h) /\ row # None
    BY <1>1, SaveEffect, SavedType
  <2>4. PICK n \in Nat : n = Len(log)
    BY DEF TypeOK
  <2>5. /\ log' = Append(log, s) /\ log \in Seq(Review) /\ s.card = k
        /\ progress'[k] = row /\ \A c \in Cards : c # k => progress'[c] = progress[c]
        /\ overrun' = overrun \cup {c \in {k} : progress[c] # req[h].row}
    BY <1>1, <2>1, <2>2, <2>3, SaveEffect DEF SavedReview, TypeOK
  <2>6. /\ \A i \in 1..n : log'[i] = log[i]
        /\ log'[n + 1] = s
    BY <2>4, <2>5, LogAppend
  <2>7. /\ ReviewsOf(k)' = ReviewsOf(k) \cup {n + 1}
        /\ \A c : c # k => ReviewsOf(c)' = ReviewsOf(c)
        /\ \A c : ReviewsOf(c) \subseteq 1..n
        /\ Cardinality(ReviewsOf(k))' = Cardinality(ReviewsOf(k)) + 1
    BY <2>4, <2>5, LogSets
  <2>8. ASSUME NEW c \in Cards, c # k
        PROVE  /\ progress'[c] = None <=> ReviewsOf(c)' = {}
               /\ \A i \in ReviewsOf(c)' : (\A j \in ReviewsOf(c)' : j <= i) =>
                    /\ progress'[c].state = IF log'[i].rating = "again" THEN "relearning" ELSE "review"
                    /\ progress'[c].last = log'[i].at
               /\ c \notin overrun' /\ progress'[c] # None =>
                    progress'[c].reps = Cardinality(ReviewsOf(c))'
    <3>1. progress'[c] = progress[c] /\ ReviewsOf(c)' = ReviewsOf(c) /\ (c \notin overrun' => c \notin overrun)
      BY <2>5, <2>7, <2>8
    <3>2. \A i \in ReviewsOf(c) : log'[i] = log[i]
      BY <2>6, <2>7
    <3> QED BY <3>1, <3>2 DEF RowIsLastReview
  <2>9. ReviewsOf(k)' # {}
    BY <2>7
  <2>10. ASSUME NEW i \in ReviewsOf(k)', \A j \in ReviewsOf(k)' : j <= i
         PROVE  /\ row.state = IF log'[i].rating = "again" THEN "relearning" ELSE "review"
                /\ row.last = log'[i].at
    <3>1. i = n + 1
      <4>1. n + 1 <= i /\ (i \in 1..n \/ i = n + 1)
        BY <2>7, <2>10
      <4> QED BY <4>1
    <3>2. s.rating = Result(h).rating /\ s.at = req[h].at
      BY <2>1 DEF SavedReview
    <3>3. /\ row.state = IF Result(h).rating = "again" THEN "relearning" ELSE "review"
          /\ row.last = req[h].at
      BY <2>3 DEF SavedRow, Reviewed
    <3> QED BY <2>6, <3>1, <3>2, <3>3
  <2>11. ASSUME k \notin overrun' PROVE row.reps = Cardinality(ReviewsOf(k))'
    <3>1. k \notin overrun /\ progress[k] = req[h].row
      BY <2>5, <2>11
    <3>2. CASE req[h].row = None
      <4>1. Cardinality(ReviewsOf(k)) = 0
        BY <3>1, <3>2, FS_EmptySet DEF RowIsLastReview
      <4>2. row.reps = 1
        BY <2>3, <3>2 DEF SavedRow, Reviewed
      <4> QED BY <2>7, <4>1, <4>2
    <3>3. CASE req[h].row # None
      <4>1. Cardinality(ReviewsOf(k)) = req[h].row.reps
        BY <3>1, <3>3 DEF RowIsLastReview
      <4>2. row.reps = req[h].row.reps + 1
        BY <2>3, <3>3 DEF SavedRow, Reviewed
      <4> QED BY <2>7, <4>1, <4>2
    <3> QED BY <3>2, <3>3
  <2> QED BY <2>3, <2>5, <2>8, <2>9, <2>10, <2>11 DEF RowIsLastReview
<1>2. CASE ~(\E h \in Handlers : SaveCard(h))
  BY <1>2, OnlySavesWrite DEF RowIsLastReview, ReviewsOf
<1> QED BY <1>1, <1>2

-----------------------------------------------------------------------------
(* The log of a flush.                                                     *)

\* The place of an entry among those of its flush, and the two halves of FlushIsPrefix.
Nth(f, i) == Cardinality({j \in FlushedBy(f) : j <= i})

InOrder(f) ==
  \A i \in FlushedBy(f) :
    /\ Nth(f, i) <= Len(sent[f].results)
    /\ log[i].card = <<sent[f].deck, sent[f].results[Nth(f, i)].item>>
    /\ log[i].rating = sent[f].results[Nth(f, i)].rating

Finished(f) ==
  /\ outcome[f] = "ok" => Cardinality(FlushedBy(f)) = Len(sent[f].results)
  /\ outcome[f] \in {"locked", "refused"} => FlushedBy(f) = {}
  /\ FlushedBy(f) # {} => Offered(sent[f].deck, sent[f].results)

Prefix(f) == IF sent[f] = None THEN FlushedBy(f) = {} ELSE InOrder(f) /\ Finished(f)

\* They are its two halves.
LEMMA PrefixParts ==
  /\ FlushIsPrefix <=> \A f \in Flushes : Prefix(f)
  /\ FlushIsPrefix' <=> \A f \in Flushes : Prefix(f)'
  BY DEF FlushIsPrefix, Prefix, InOrder, Finished, Nth

\* What is logged of a flush stays in order while nothing is added to it.
LEMMA PrefixStays ==
  ASSUME NEW f \in Flushes, Prefix(f), sent'[f] = sent[f],
         FlushedBy(f)' = FlushedBy(f), \A i \in FlushedBy(f) : log'[i] = log[i],
         Finished(f)' \/ outcome'[f] = outcome[f]
  PROVE  Prefix(f)'
<1>1. \A i : Nth(f, i)' = Nth(f, i)
  BY DEF Nth
<1>2. InOrder(f) => InOrder(f)'
  BY <1>1 DEF InOrder
<1>3. Finished(f) => Finished(f)'
  BY DEF Finished
<1> QED BY <1>2, <1>3 DEF Prefix

\* A card is saved: its entry is the next of its flush.
LEMMA SavePrefix ==
  ASSUME TypeOK, RequestInv, FlushIsPrefix, NEW h \in Handlers, SaveCard(h)
  PROVE  \A f \in Flushes : Prefix(f)'
<1>1. PICK s \in Review : s = SavedReview(h)
  BY SaveEffect, SavedType
<1>2. PICK n \in Nat : n = Len(log)
  BY DEF TypeOK
<1>3. req[h].pc = "save" /\ req[h].pc \in PastGate /\ UNCHANGED <<sent, outcome>>
  BY SaveEffect DEF At, PastGate
<1>4. PICK f \in Flushes : f = req[h].flush
  BY <1>3, PastGateHolds
<1>5. s.flush = f /\ log' = Append(log, s) /\ log \in Seq(Review)
  BY <1>1, <1>4, SaveEffect DEF SavedReview, TypeOK
<1>6. /\ \A i \in 1..n : log'[i] = log[i]
      /\ log'[n + 1] = s
  BY <1>2, <1>5, LogAppend
<1>7. /\ FlushedBy(f)' = FlushedBy(f) \cup {n + 1}
      /\ \A e : e # f => FlushedBy(e)' = FlushedBy(e)
      /\ \A e : FlushedBy(e) \subseteq 1..n
      /\ Cardinality(FlushedBy(f))' = Cardinality(FlushedBy(f)) + 1
  BY <1>2, <1>5, LogSets
<1>8. /\ sent[f] # None /\ outcome[f] = "none" /\ Round(h) = sent[f]
      /\ Offered(sent[f].deck, sent[f].results)
      /\ Len(sent[f].results) \in Nat /\ req[h].i \in 1..Len(sent[f].results)
      /\ Cardinality(FlushedBy(f)) = req[h].i - 1
  BY <1>3, <1>4, PastGateHolds DEF Round
<1>9. ASSUME NEW e \in Flushes, e # f PROVE Prefix(e)'
  BY <1>3, <1>6, <1>7, <1>9, PrefixParts, PrefixStays
<1>10. \A i \in FlushedBy(f) : Nth(f, i)' = Nth(f, i)
  <2>1. \A i \in 1..n : ~(n + 1 <= i)
    OBVIOUS
  <2>2. \A i \in FlushedBy(f) : {j \in FlushedBy(f)' : j <= i} = {j \in FlushedBy(f) : j <= i}
    BY <1>7, <2>1
  <2> QED BY <2>2 DEF Nth
<1>11. Nth(f, n + 1)' = req[h].i
  <2>1. \A j \in FlushedBy(f)' : j <= n + 1
    BY <1>7
  <2>2. {j \in FlushedBy(f)' : j <= n + 1} = FlushedBy(f)'
    BY <2>1
  <2>3. Cardinality(FlushedBy(f))' = req[h].i
    BY <1>7, <1>8
  <2> QED BY <2>2, <2>3 DEF Nth
<1>12. s.card = <<sent[f].deck, sent[f].results[req[h].i].item>>
       /\ s.rating = sent[f].results[req[h].i].rating
  BY <1>1, <1>8 DEF SavedReview, Card, Result
<1>13. InOrder(f)'
  <2>1. InOrder(f)
    BY <1>8, PrefixParts DEF Prefix
  <2>2. ASSUME NEW i \in FlushedBy(f)
        PROVE  /\ Nth(f, i)' <= Len(sent[f].results)
               /\ log'[i].card = <<sent[f].deck, sent[f].results[Nth(f, i)'].item>>
               /\ log'[i].rating = sent[f].results[Nth(f, i)'].rating
    BY <1>6, <1>7, <1>10, <2>1 DEF InOrder
  <2>3. /\ Nth(f, n + 1)' <= Len(sent[f].results)
        /\ log'[n + 1].card = <<sent[f].deck, sent[f].results[Nth(f, n + 1)'].item>>
        /\ log'[n + 1].rating = sent[f].results[Nth(f, n + 1)'].rating
    BY <1>6, <1>8, <1>11, <1>12
  <2> QED BY <1>3, <1>7, <2>2, <2>3 DEF InOrder
<1>14. Finished(f)'
  BY <1>3, <1>8 DEF Finished
<1> QED BY <1>3, <1>8, <1>9, <1>13, <1>14 DEF Prefix

\* A flush is answered: in full after the last card, with nothing before the first.
LEMMA AnswerPrefix ==
  ASSUME TypeOK, RequestInv, FlushIsPrefix, NEW h \in Handlers, req[h].pc \in InFlight,
         \/ Answer(h, "failed")
         \/ Answer(h, "ok") /\ req[h].pc = "summary"
         \/ (Answer(h, "locked") \/ Answer(h, "refused")) /\ req[h].pc = "gate",
         UNCHANGED <<log, sent>>
  PROVE  \A f \in Flushes : Prefix(f)'
<1>1. PICK f \in Flushes : f = req[h].flush
  BY OwnFlush
<1>2. sent[f] # None /\ \A e \in Flushes : e # f => outcome'[e] = outcome[e]
  BY <1>1, OwnFlush DEF Answer, TypeOK
<1>3. \A e : FlushedBy(e)' = FlushedBy(e)
  BY DEF FlushedBy
<1>4. ASSUME NEW e \in Flushes, e # f PROVE Prefix(e)'
  BY <1>2, <1>3, <1>4, PrefixParts, PrefixStays
<1>5. FlushedBy(f) # {} => Offered(sent[f].deck, sent[f].results)
  BY <1>2, PrefixParts DEF Prefix, Finished
<1>6. Finished(f)'
  <2>1. CASE Answer(h, "failed")
    <3>1. outcome'[f] = "failed"
      BY <1>1, <2>1 DEF Answer, TypeOK
    <3> QED BY <1>3, <1>5, <3>1 DEF Finished
  <2>2. CASE Answer(h, "ok") /\ req[h].pc = "summary"
    <3>1. outcome'[f] = "ok"
      BY <1>1, <2>2 DEF Answer, TypeOK
    <3>2. Cardinality(FlushedBy(f)) = Len(sent[f].results)
      BY <1>1, <2>2, PastGateHolds DEF PastGate, Round
    <3> QED BY <1>3, <1>5, <3>1, <3>2 DEF Finished
  <2>3. CASE (Answer(h, "locked") \/ Answer(h, "refused")) /\ req[h].pc = "gate"
    <3>1. outcome'[f] \in {"locked", "refused"}
      BY <1>1, <2>3 DEF Answer, TypeOK
    <3>2. FlushedBy(f) = {}
      BY <1>1, <2>3 DEF RequestInv, Holds
    <3> QED BY <1>3, <3>1, <3>2 DEF Finished
  <2> QED BY <2>1, <2>2, <2>3
<1>7. Prefix(f)'
  BY <1>3, <1>6, PrefixParts, PrefixStays
<1> QED BY <1>4, <1>7

\* Every step keeps the log of every flush a prefix of it.
LEMMA FlushStep ==
  ASSUME TypeOK, RequestInv, FlushIsPrefix, [Next]_vars
  PROVE  FlushIsPrefix'
<1>1. SUFFICES \A f \in Flushes : Prefix(f)'
  BY PrefixParts
<1>2. ASSUME UNCHANGED <<log, sent, outcome>> PROVE \A f \in Flushes : Prefix(f)'
  <2>1. \A f : FlushedBy(f)' = FlushedBy(f)
    BY <1>2 DEF FlushedBy
  <2> QED BY <1>2, <2>1, PrefixParts, PrefixStays
<1>3. ASSUME NEW h \in Handlers, NEW f \in Flushes, NEW round \in Rounds, PostGrade(h, f, round)
      PROVE  \A e \in Flushes : Prefix(e)'
  <2>1. /\ sent[f] = None /\ \A e \in Flushes : e # f => sent'[e] = sent[e]
        /\ UNCHANGED <<log, outcome>>
    BY <1>3 DEF PostGrade, TypeOK
  <2>2. \A e : FlushedBy(e)' = FlushedBy(e)
    BY <2>1 DEF FlushedBy
  <2>3. ASSUME NEW e \in Flushes, e # f PROVE Prefix(e)'
    BY <2>1, <2>2, <2>3, PrefixParts, PrefixStays
  <2>4. FlushedBy(f)' = {} /\ outcome'[f] = "none"
    BY <2>1, <2>2, PrefixParts DEF Prefix, RequestInv
  <2>5. Prefix(f)'
    BY <2>4 DEF Prefix, InOrder, Finished
  <2> QED BY <2>3, <2>5
<1>4. ASSUME NEW h \in Handlers, CheckGate(h) PROVE \A f \in Flushes : Prefix(f)'
  <2>1. req[h].pc = "gate" /\ req[h].pc \in InFlight /\ UNCHANGED <<log, sent>>
    BY <1>4 DEF CheckGate, At, InFlight
  <2> QED BY <1>2, <1>4, <2>1, AnswerPrefix DEF CheckGate
<1>5. ASSUME NEW h \in Handlers, SaveCard(h) PROVE \A f \in Flushes : Prefix(f)'
  BY <1>5, SavePrefix
<1>6. ASSUME NEW h \in Handlers, Summarise(h) PROVE \A f \in Flushes : Prefix(f)'
  BY <1>6, AnswerPrefix DEF Summarise, At, InFlight
<1>7. ASSUME NEW h \in Handlers, Fail(h) PROVE \A f \in Flushes : Prefix(f)'
  <2>1. UNCHANGED <<log, sent>>
    BY <1>7 DEF Fail
  <2>2. \/ Answer(h, "failed") /\ req[h].pc \in InFlight
        \/ UNCHANGED outcome
    BY <1>7 DEF Fail, At, InFlight
  <2> QED BY <1>2, <2>1, <2>2, AnswerPrefix
<1>8. ASSUME NEW h \in Handlers, LoadCard(h) \/ OpenShelf(h) \/ ReadStanding(h) \/ CloseShelf(h)
      PROVE  UNCHANGED <<log, sent, outcome>>
  BY <1>8 DEF LoadCard, OpenShelf, ReadStanding, CloseShelf
<1>9. Tick \/ Crash \/ UNCHANGED vars => UNCHANGED <<log, sent, outcome>>
  BY DEF Tick, Crash, vars
<1> QED BY <1>2, <1>3, <1>4, <1>5, <1>6, <1>7, <1>8, <1>9 DEF Next

-----------------------------------------------------------------------------
(* The theorems.                                                           *)

\* Before any request there are no rows and no log.
LEMMA InitIInv == Init => IInv
<1> SUFFICES ASSUME Init PROVE IInv
  OBVIOUS
<1>1. TypeOK
  <2>1. 0 \in 0..MaxTime /\ 0 \in 0..MaxFaults
    BY BoundAssumption
  <2> QED BY <2>1, IdleType DEF Init, TypeOK, Outcomes
<1>2. RequestInv
  <2>1. \A h \in Handlers : req[h] = Idle
    BY DEF Init
  <2>2. Idle.pc \notin InFlight
    BY DEF Idle, InFlight
  <2> QED BY <2>1, <2>2, IdleHolds DEF RequestInv, Init
<1>3. (\A f : FlushedBy(f) = {}) /\ (\A c : ReviewsOf(c) = {})
  BY DEF Init, FlushedBy, ReviewsOf
<1>4. GateInv
  BY DEF Init, GateInv
<1>5. RowIsLastReview
  BY <1>3 DEF Init, RowIsLastReview
<1>6. FlushIsPrefix
  BY <1>3 DEF Init, FlushIsPrefix
<1> QED BY <1>1, <1>2, <1>4, <1>5, <1>6 DEF IInv

\* Every step keeps the inductive invariant.
LEMMA StepIInv == IInv /\ [Next]_vars => IInv'
  BY TypeStep, RequestStep, GateStep, RowStep, FlushStep DEF IInv

\* It holds of every state the server reaches.
THEOREM Invariance == Spec => []IInv
<1>1. Init => IInv
  BY InitIInv
<1>2. IInv /\ [Next]_vars => IInv'
  BY StepIInv
<1> QED BY <1>1, <1>2, PTL DEF Spec

\* The types hold: a log of reviews, rows only of cards of the course, requests of
\* handlers, outcomes of flushes.
THEOREM GradingTypesHold == Spec => []TypeOK
<1>1. IInv => TypeOK
  BY DEF IInv
<1> QED BY <1>1, Invariance, PTL

\* Row and log agree: a card has a row when it was reviewed, the row is the outcome
\* of its last review, and it has counted them all unless two requests held the card.
THEOREM RowIsLastReviewHolds == Spec => []RowIsLastReview
<1>1. IInv => RowIsLastReview
  BY DEF IInv
<1> QED BY <1>1, Invariance, PTL

\* What is logged of a flush is the beginning of it, in order: all of it if it was
\* acknowledged, nothing if it was turned away.
THEOREM FlushIsPrefixHolds == Spec => []FlushIsPrefix
<1>1. IInv => FlushIsPrefix
  BY DEF IInv
<1> QED BY <1>1, Invariance, PTL

\* A deck the learner has not opened has no progress, and no shelf draws it open.
THEOREM LockedDeckUntouchedHolds == Spec => []LockedDeckUntouched
<1>1. IInv => LockedDeckUntouched
  <2> SUFFICES ASSUME IInv, NEW d \in Decks, ~Open(d)
               PROVE  /\ CountSeen(progress, d) = 0
                      /\ \A h \in Handlers : ~(At(h, "shown") /\ DrawnOpen(h, d))
    BY DEF LockedDeckUntouched
  <2>1. CountSeen(progress, d) = 0
    BY NothingSeen DEF IInv, GateInv, TypeOK
  <2>2. ASSUME NEW h \in Handlers, At(h, "shown"), DrawnOpen(h, d) PROVE FALSE
    <3>1. PICK seen \in [Decks -> Nat] : seen = req[h].seen
      BY DEF IInv, TypeOK, Request
    <3>2. Met(d, seen) /\ \A p \in Decks : seen[p] <= CountSeen(progress, p)
      BY <2>2, <3>1 DEF DrawnOpen, At, IInv, RequestInv, Holds
    <3> QED BY <3>2, ReadStandingIsBehind DEF IInv
  <2> QED BY <2>1, <2>2
<1> QED BY <1>1, Invariance, PTL

\* An open deck never locks again.
THEOREM GateStaysOpenHolds == Spec => GateStaysOpen
<1>1. IInv /\ [Next]_vars => [\A d \in Decks : Open(d) => Open(d)']_vars
  BY TypeStep, RowsStay, OpenStays DEF IInv
<1> QED BY <1>1, Invariance, PTL DEF Spec, GateStaysOpen
==============================================================================
