------------------------------ MODULE Grading ------------------------------
(***************************************************************************)
(* The study side of the server, for one learner (every table is keyed by  *)
(* the learner first): app/studyapp's handleGrade and handleDecks over     *)
(* studybus, curriculumbus and the study store.                            *)
(*                                                                         *)
(* A flush of answers is graded card by card, each card a read (Get) and a *)
(* later write (Save); the gate is read before the first card.  Flushes    *)
(* and shelf requests run in goroutines of their own - two tabs, or two    *)
(* devices of one learner - and interleave between those store calls.  One *)
(* store call is one action, the store having one connection.              *)
(*                                                                         *)
(* A definition no action uses, placed right before the one it resembles,  *)
(* is a plausible defect of it (README.md, "Mutants").                     *)
(***************************************************************************)
EXTENDS Integers, Sequences, FiniteSets, SequencesExt

CONSTANTS
  Catalog,       \* the decks of the course, in order
  Items,         \* words: those of the decks and those of earlier releases
  ItemsOf,       \* the items a deck has in this release
  Prerequisite,  \* the deck that gates a deck, or None
  AnswersOf,     \* the answers a deck offers
  UnlockNum,     \* the unlock fraction is UnlockNum / UnlockDen
  UnlockDen,
  RoundsUp,      \* sizes of decks at which the product with it rounds above a whole number
  Rounds,        \* flushes a browser may send: [deck, results] (bound)
  Flushes,       \* names of the flushes that are sent (bound)
  Handlers,      \* requests that can be in flight at once (bound)
  MaxTime,       \* the clock stops here (bound)
  MaxFaults,     \* failing store calls and crashes in a run (bound)
  None           \* no row, no value, an answer that was not reported

Decks == ToSet(Catalog)
Cards == Decks \X Items
Ratings == {"again", "hard", "good", "easy"}
Answers == UNION {AnswersOf[d] : d \in Decks}

ASSUME CourseAssumption ==
  /\ Catalog \in Seq(Decks) /\ Catalog # <<>>
  /\ IsFiniteSet(Items) /\ \A d \in Decks : ItemsOf[d] \subseteq Items
  /\ \A d \in Decks : Prerequisite[d] \in Decks \cup {None}
  /\ UnlockDen \in Nat \ {0} /\ UnlockNum \in 1..UnlockDen
  /\ \A n \in RoundsUp : /\ n \in Nat \ {0} /\ UnlockNum < UnlockDen
                        /\ \E k \in 1..n : UnlockNum * n = UnlockDen * k
  /\ None \notin Decks

\* A browser sends a list of results for a deck; the answers in it are its own.
ASSUME BoundAssumption ==
  /\ MaxTime \in Nat /\ MaxFaults \in Nat
  /\ None \notin Rounds \cup Flushes
  /\ \A round \in Rounds :
       /\ round.deck \in Decks
       /\ Len(round.results) \in Nat /\ DOMAIN round.results = 1..Len(round.results)
       /\ \A i \in DOMAIN round.results :
            round.results[i].item \in Items /\ round.results[i].rating \in Ratings

VARIABLES
  now,       \* the clock
  progress,  \* table study_progress: card -> [reps, state, last], or None
  log,       \* table study_review, in the order of insertion
  req,       \* the requests in flight
  faults,    \* how many there have been
  \* What the browsers know, and history.
  sent,      \* the content of each flush, None before it is sent
  outcome,   \* the answer each flush got, "none" while it has got none
  overrun    \* cards that were saved over a row the request had not read

vars == <<now, progress, log, req, faults, sent, outcome, overrun>>

-----------------------------------------------------------------------------
Row == [reps : Nat \ {0}, state : {"review", "relearning"}, last : 0..MaxTime]

ASSUME RowAssumption == None \notin Row

\* A logged answer; "flush" is history, the table does not hold it.
Review == [card : Cards, rating : Ratings, given : Answers \cup {None},
           at : 0..MaxTime, flush : Flushes]

Outcomes == {"none", "ok", "failed", "locked", "refused"}

Request == [pc    : {"idle", "gate", "load", "save", "summary", "shelf", "shown"},
            flush : Flushes \cup {None},
            i     : Nat,                          \* next result, or next deck
            at    : 0..MaxTime,                   \* a.now(), read once
            row   : Row \cup {None},              \* what Get returned
            seen  : [Decks -> Nat]]               \* coverage read so far

Idle == [pc |-> "idle", flush |-> None, i |-> 1, at |-> 0, row |-> None,
         seen |-> [d \in Decks |-> 0]]

TypeOK ==
  /\ now \in 0..MaxTime
  /\ progress \in [Cards -> Row \cup {None}]
  /\ log \in Seq(Review)
  /\ req \in [Handlers -> Request]
  /\ faults \in 0..MaxFaults
  /\ sent \in [Flushes -> Rounds \cup {None}]
  /\ outcome \in [Flushes -> Outcomes]
  /\ overrun \subseteq Cards

Init ==
  /\ now = 0
  /\ progress = [c \in Cards |-> None]
  /\ log = <<>>
  /\ req = [h \in Handlers |-> Idle]
  /\ faults = 0
  /\ sent = [f \in Flushes |-> None]
  /\ outcome = [f \in Flushes |-> "none"]
  /\ overrun = {}

At(h, pc) == req[h].pc = pc

-----------------------------------------------------------------------------
(* The gate: how much of the deck before has been answered.                *)

CountRetained(rows, d) ==
  Cardinality({c \in DOMAIN rows : c[1] = d /\ rows[c] # None /\ rows[c].state = "review"})

\* len(progress): every row of the deck counts, whatever the item.
CountSeen(rows, d) ==
  Cardinality({c \in DOMAIN rows : c[1] = d /\ rows[c] # None})

\* math.Ceil(fraction * size), whose product may come out just above a whole number.
Need(d) ==
  LET size == Cardinality(ItemsOf[d])
  IN  (UnlockNum * size + UnlockDen - 1) \div UnlockDen + (IF size \in RoundsUp THEN 1 ELSE 0)

Met(d, seen) == Prerequisite[d] = None \/ seen[Prerequisite[d]] >= Need(Prerequisite[d])

Open(d) == Met(d, [p \in Decks |-> CountSeen(progress, p)])

-----------------------------------------------------------------------------
(* POST /api/grade                                                         *)

Round(h) == sent[req[h].flush]
Result(h) == Round(h).results[req[h].i]
Card(h) == <<Round(h).deck, Result(h).item>>

Offered(d, results) ==
  \A i \in DOMAIN results : results[i].given \in AnswersOf[d] \cup {None}

PostGrade(h, f, round) ==
  /\ At(h, "idle")
  /\ sent[f] = None
  /\ sent' = [sent EXCEPT ![f] = round]
  /\ req' = [req EXCEPT ![h] = [Idle EXCEPT !.pc = "gate", !.flush = f]]
  /\ UNCHANGED <<now, progress, log, faults, outcome, overrun>>

\* The response leaves, and the goroutine ends.
Answer(h, what) ==
  /\ outcome' = [outcome EXCEPT ![req[h].flush] = what]
  /\ req' = [req EXCEPT ![h] = Idle]

\* The card loop: load the next card, or go on to the summary.
NextCard(h, i) ==
  IF i <= Len(Round(h).results)
  THEN [req[h] EXCEPT !.pc = "load", !.i = i, !.at = IF At(h, "gate") THEN now ELSE @]
  ELSE [req[h] EXCEPT !.pc = "summary", !.i = i]

CheckAnswersOnly(h) ==
  LET d == Round(h).deck
  IN  /\ At(h, "gate")
      /\ IF ~Offered(d, Round(h).results) THEN Answer(h, "refused")
         ELSE /\ req' = [req EXCEPT ![h] = NextCard(h, 1)]
              /\ UNCHANGED outcome
      /\ UNCHANGED <<now, progress, log, faults, sent, overrun>>

\* gateFor reads the coverage of the deck before; the answers are checked next,
\* against the deck and before anything is written.
CheckGate(h) ==
  LET d == Round(h).deck
  IN  /\ At(h, "gate")
      /\ IF ~Open(d) THEN Answer(h, "locked")
         ELSE IF ~Offered(d, Round(h).results) THEN Answer(h, "refused")
         ELSE /\ req' = [req EXCEPT ![h] = NextCard(h, 1)]
              /\ UNCHANGED outcome
      /\ UNCHANGED <<now, progress, log, faults, sent, overrun>>

\* Grade, first half: store.Get.
LoadCard(h) ==
  /\ At(h, "load")
  /\ req' = [req EXCEPT ![h].pc = "save", ![h].row = progress[Card(h)]]
  /\ UNCHANGED <<now, progress, log, faults, sent, outcome, overrun>>

ReviewedFirstUncounted(row, rating, at) ==
  [reps  |-> IF row = None THEN 0 ELSE row.reps + 1,
   state |-> IF rating = "again" THEN "relearning" ELSE "review",
   last  |-> at]

\* What the scheduler makes of the loaded row: its count, its state, its time.
Reviewed(row, rating, at) ==
  [reps  |-> IF row = None THEN 1 ELSE row.reps + 1,
   state |-> IF rating = "again" THEN "relearning" ELSE "review",
   last  |-> at]

SaveCardUnlogged(h) ==
  /\ At(h, "save")
  /\ progress' = [progress EXCEPT ![Card(h)] =
                    Reviewed(req[h].row, Result(h).rating, req[h].at)]
  /\ req' = [req EXCEPT ![h] = NextCard(h, req[h].i + 1)]
  /\ UNCHANGED <<now, log, faults, sent, outcome, overrun>>

\* Grade, second half: store.Save, the row and the log in one transaction.
SaveCard(h) ==
  LET review == [card |-> Card(h), rating |-> Result(h).rating, given |-> Result(h).given,
                 at |-> req[h].at, flush |-> req[h].flush]
  IN  /\ At(h, "save")
      /\ progress' = [progress EXCEPT ![Card(h)] =
                        Reviewed(req[h].row, Result(h).rating, req[h].at)]
      /\ log' = Append(log, review)
      /\ overrun' = overrun \cup {c \in {Card(h)} : progress[c] # req[h].row}
      /\ req' = [req EXCEPT ![h] = NextCard(h, req[h].i + 1)]
      /\ UNCHANGED <<now, faults, sent, outcome>>

\* computeSummary reads the deck once more, and the flush is acknowledged.
Summarise(h) ==
  /\ At(h, "summary")
  /\ Answer(h, "ok")
  /\ UNCHANGED <<now, progress, log, faults, sent, overrun>>

-----------------------------------------------------------------------------
(* GET /api/decks: one read for each deck, the gates worked out at the end. *)

OpenShelf(h) ==
  /\ At(h, "idle")
  /\ req' = [req EXCEPT ![h] = [Idle EXCEPT !.pc = "shelf"]]
  /\ UNCHANGED <<now, progress, log, faults, sent, outcome, overrun>>

ReadStanding(h) ==
  /\ At(h, "shelf")
  /\ LET d == Catalog[req[h].i]
     IN  req' = [req EXCEPT ![h].seen[d] = CountSeen(progress, d),
                            ![h].i = @ + 1,
                            ![h].pc = IF req[h].i = Len(Catalog) THEN "shown" ELSE "shelf"]
  /\ UNCHANGED <<now, progress, log, faults, sent, outcome, overrun>>

\* The gates as the response states them.
DrawnOpen(h, d) == Met(d, req[h].seen)

CloseShelf(h) ==
  /\ At(h, "shown")
  /\ req' = [req EXCEPT ![h] = Idle]
  /\ UNCHANGED <<now, progress, log, faults, sent, outcome, overrun>>

-----------------------------------------------------------------------------
\* One more store call that fails, or one more crash.
Fault == faults < MaxFaults /\ faults' = faults + 1

FailAndGoOn(h) ==
  /\ Fault
  /\ At(h, "save")
  /\ req' = [req EXCEPT ![h] = NextCard(h, req[h].i + 1)]
  /\ UNCHANGED <<now, progress, log, sent, outcome, overrun>>

\* A store call returns an error: the first one ends the flush, and what was
\* saved before it stays.
Fail(h) ==
  /\ Fault
  /\ \/ /\ \/ req[h].pc \in {"load", "save", "summary"}
           \/ At(h, "gate") /\ Prerequisite[Round(h).deck] # None
        /\ Answer(h, "failed")
     \/ At(h, "shelf") /\ req' = [req EXCEPT ![h] = Idle] /\ UNCHANGED outcome
  /\ UNCHANGED <<now, progress, log, sent, overrun>>

Tick ==
  /\ now < MaxTime
  /\ now' = now + 1
  /\ UNCHANGED <<progress, log, req, faults, sent, outcome, overrun>>

\* A crash or a restart: no flush in flight is ever answered.
Crash ==
  /\ Fault
  /\ req' = [h \in Handlers |-> Idle]
  /\ UNCHANGED <<now, progress, log, sent, outcome, overrun>>

Next ==
  \/ \E h \in Handlers :
       \/ \E f \in Flushes, round \in Rounds : PostGrade(h, f, round)
       \/ CheckGate(h)
       \/ LoadCard(h)
       \/ SaveCard(h)
       \/ Summarise(h)
       \/ OpenShelf(h)
       \/ ReadStanding(h)
       \/ CloseShelf(h)
       \/ Fail(h)
  \/ Tick
  \/ Crash

Spec == Init /\ [][Next]_vars

-----------------------------------------------------------------------------
(* Safety.                                                                 *)

\* Where the log has the answers for a card, and those of a flush.
ReviewsOf(c) == {i \in DOMAIN log : log[i].card = c}

FlushedBy(f) == {i \in DOMAIN log : log[i].flush = f}

\* "An implementation must apply both or neither" (studybus.go:44): a card has a
\* row when the log has a review of it, and the row is the outcome of the last one,
\* however flushes interleave, fail or are cut off by a crash.  It has counted
\* every review (fsrs.Card: Reps is the "total reviews applied"), unless two
\* requests held the card at once.
RowIsLastReview ==
  \A c \in Cards :
    /\ progress[c] = None <=> ReviewsOf(c) = {}
    /\ \A i \in ReviewsOf(c) : (\A j \in ReviewsOf(c) : j <= i) =>
         /\ progress[c].state = IF log[i].rating = "again" THEN "relearning" ELSE "review"
         /\ progress[c].last = log[i].at
    /\ c \notin overrun /\ progress[c] # None => progress[c].reps = Cardinality(ReviewsOf(c))

\* "The first storage failure stops the flush": what is logged of a flush is
\* the beginning of it, in order, all of it if it was acknowledged and nothing
\* if it was turned away; and "the log cannot hold a reply the deck does not
\* offer" (studyapp model.go:108).
FlushIsPrefix ==
  \A f \in Flushes :
    IF sent[f] = None THEN FlushedBy(f) = {}
    ELSE LET results == sent[f].results
             deck    == sent[f].deck
             done    == FlushedBy(f)
             nth(i)  == Cardinality({j \in done : j <= i})
         IN  /\ \A i \in done :
                  /\ nth(i) <= Len(results)
                  /\ log[i].card = <<deck, results[nth(i)].item>>
                  /\ log[i].rating = results[nth(i)].rating
             /\ outcome[f] = "ok" => Cardinality(done) = Len(results)
             /\ outcome[f] \in {"locked", "refused"} => done = {}
             /\ done # {} => Offered(deck, results)

\* No progress is ever written in a deck the learner has not opened, although
\* the gate is read once and the cards are saved later; and the shelf, which
\* reads deck by deck, may be behind but never ahead: a deck it draws as open
\* is open.
LockedDeckUntouched ==
  \A d \in Decks : ~Open(d) =>
    /\ CountSeen(progress, d) = 0
    /\ \A h \in Handlers : ~(At(h, "shown") /\ DrawnOpen(h, d))

\* "Coverage only ever goes up": an open deck never locks again.
GateStaysOpen == [][\A d \in Decks : Open(d) => Open(d)']_vars
=============================================================================
