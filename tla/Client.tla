------------------------------- MODULE Client -------------------------------
(***************************************************************************)
(* The browser's side of a round: app/studyapp/static/app.js.              *)
(*                                                                         *)
(* The script is single-threaded, so a handler is one step; but every      *)
(* handler that fetches ends at its await, and the rest of it runs when    *)
(* the answer arrives, on whatever the page has become by then.  The page  *)
(* is a record, and a function of the script is a function on that record; *)
(* the requests in flight are part of it, and may be answered in any       *)
(* order.  The server is external here: a flush may be filed wholly or in  *)
(* part, and its answer may be lost.                                       *)
(*                                                                         *)
(* A definition no action uses, placed right before the one it resembles,  *)
(* is a plausible defect of it (README.md, "Mutants").                     *)
(***************************************************************************)
EXTENDS Integers, Sequences, FiniteSets, SequencesExt

CONSTANTS
  Decks,       \* the course
  NounDeck,    \* the deck the server takes for an empty deck name
  DrillOf,     \* how a deck is answered: its prompt and its answers
  Batches,     \* what a batch may hold: sequences of items
  MaxCalls,    \* requests in flight at once (bound)
  MaxAnswers,  \* answers given (bound)
  MaxRounds,   \* batches received (bound)
  MaxReloads,  \* times the page is closed and opened again (bound)
  Keyboard,    \* whether the learner uses the arrow keys, or only touch
  Patient,     \* whether the learner presses a button only when nothing is pending
  MayFail,     \* whether a request may fail, or be refused
  None

ASSUME ClientAssumption ==
  /\ NounDeck \in Decks /\ None \notin Decks
  /\ {MaxCalls, MaxAnswers, MaxRounds, MaxReloads} \subseteq Nat
  /\ {Keyboard, Patient, MayFail} \subseteq BOOLEAN

VARIABLES
  page,     \* the document and the script's state
  \* History.
  answers,  \* every answer the learner gave, in order
  filed,    \* for each answer, the decks the server has filed it under
  rounds,   \* batches received so far
  reloads,
  gone,     \* answers that went with a page that was closed, or a flush that failed
  crossed   \* answers on the page when the line about another deck was followed

vars == <<page, answers, filed, rounds, reloads, gone, crossed>>

-----------------------------------------------------------------------------
(* The page.                                                               *)

Items == UNION {ToSet(b) : b \in Batches}
Card == [deck : Decks, item : Items, round : 1..MaxRounds, pos : Nat]
Drills == {DrillOf[d] : d \in Decks}
Ids == 1..MaxAnswers

ASSUME BatchAssumption == \A b \in Batches : b \in Seq(Items)
ASSUME NoneAssumption == None \notin Card

Panels == {"status", "panel", "signin", "name", "decks", "intro", "slips",
           "controls", "deckLine"}

Call == [kind : {"batch", "decks", "slips", "line", "nickname"}, deck : Decks \cup {None}]
Flush == [kind : {"grade"}, deck : Decks \cup {None}, results : Seq(Ids),
          then : {"finish", "leave", "rename", "reread", "slips"}]

Page == [shown   : SUBSET Panels,
         deck    : Decks \cup {None},     \* state.deck
         cards   : Seq(Card),             \* state.cards
         index   : Nat,                   \* state.index, counted from 1
         results : Seq(Ids),              \* state.results
         locked  : BOOLEAN,               \* state.locked; state.advance is armed with it
         drawn   : Card \cup {None},      \* the card on the stack
         drill   : Drills,                \* the answers on the buttons
         again   : BOOLEAN,               \* "Next batch" is offered on the panel
         line    : Decks \cup {None},     \* the deck the panel's line on slips leads into;
                                          \* None when it is hidden
         book    : [deck : Decks \cup {None}, from : {"shelf", "deck"}],
                                          \* where the introduction's or profile's button leads
         calls   : Seq(Call \cup Flush)]

Answer == [card : Card, drill : Drills]

TypeOK ==
  /\ page \in Page
  /\ answers \in Seq(Answer)
  /\ filed \in [Ids -> SUBSET Decks]
  /\ rounds \in 0..MaxRounds
  /\ reloads \in 0..MaxReloads
  /\ gone \subseteq Ids
  /\ crossed \subseteq Ids

Show(p, panels) == [p EXCEPT !.shown = @ \cup panels]
Hide(p, panels) == [p EXCEPT !.shown = @ \ panels]
Fetch(p, call) == [p EXCEPT !.calls = Append(@, call)]

DeckOf(name) == IF name = None THEN NounDeck ELSE name

\* drill(): with no deck open, the nouns' one.
ActiveDrill(p) == DrillOf[DeckOf(p.deck)]

CurrentCard(p) == IF p.index <= Len(p.cards) THEN p.cards[p.index] ELSE None

RenderStack(p) == [p EXCEPT !.drawn = CurrentCard(p)]

\* Timers are cleared with it, and a reveal in progress is dropped.
HideEverything(p) == [p EXCEPT !.shown = {}, !.drawn = None, !.locked = FALSE]

ShowSignIn(p) == Show(HideEverything(p), {"signin"})
ShowRename(p) == Show(HideEverything(p), {"name"})

ShowShelf(p) ==
  Fetch(Show([HideEverything(p) EXCEPT !.deck = None], {"status"}),
        [kind |-> "decks", deck |-> None])

ShowIntro(p, d) ==
  Show([HideEverything(p) EXCEPT !.book = [deck |-> d, from |-> "shelf"]], {"intro"})

ShowSlips(p, d, from) ==
  Fetch(Show([HideEverything(p) EXCEPT !.book = [deck |-> d, from |-> from]], {"slips"}),
        [kind |-> "slips", deck |-> d])

LoadBatch(p) ==
  LET cleared == Hide([p EXCEPT !.locked = FALSE],
                      {"panel", "signin", "name", "decks", "intro"})
  IN  Fetch(Show(cleared, {"status"}), [kind |-> "batch", deck |-> p.deck])

StartDeckLate(p, d) == [LoadBatch(Show(HideEverything(p), {"deckLine"})) EXCEPT !.deck = d]

StartDeck(p, d) == LoadBatch(Show([HideEverything(p) EXCEPT !.deck = d], {"deckLine"}))

-----------------------------------------------------------------------------
(* Flushing the answers of a round.                                        *)

\* The whole round, under the name of the deck that is open.
FlushResults(p, then) ==
  Fetch(p, [kind |-> "grade", deck |-> p.deck, results |-> p.results, then |-> then])

FinishBatch(p) ==
  FlushResults(Show(Hide([p EXCEPT !.drawn = None], {"controls"}), {"status"}), "finish")

\* finishEmpty and finishLocked.
EndRound(p) ==
  Show(Hide([p EXCEPT !.drawn = None, !.again = FALSE], {"controls", "status"}), {"panel"})

\* What a press leads to once nothing is left to send.
Onward(p, then, d) ==
  CASE then = "leave"  -> ShowShelf(p)
    [] then = "rename" -> ShowRename(p)
    [] then = "reread" -> ShowIntro(p, d)
    [] then = "slips"  -> ShowSlips(p, d, "deck")

LeaveWithoutFlush(p, then) == Onward([p EXCEPT !.results = <<>>], then, p.deck)

FlushFirst(p, then) ==
  IF p.results # <<>> THEN FlushResults(p, then) ELSE Onward(p, then, p.deck)

-----------------------------------------------------------------------------
(* What the learner does.                                                  *)

Fresh == [shown |-> {}, deck |-> None, cards |-> <<>>, index |-> 1, results |-> <<>>,
          locked |-> FALSE, drawn |-> None, drill |-> DrillOf[NounDeck], again |-> TRUE,
          line |-> None, book |-> [deck |-> None, from |-> "shelf"], calls |-> <<>>]

\* start(), for a learner who is signed in and has a nickname.
Start == ShowShelf(Fresh)

Init ==
  /\ page = Start
  /\ answers = <<>>
  /\ filed = [n \in Ids |-> {}]
  /\ rounds = 0
  /\ reloads = 0
  /\ gone = {}
  /\ crossed = {}

history == <<answers, filed, rounds, reloads, gone, crossed>>

\* A profile, and the line on slips, are shown whenever they come.
Aside == {"slips", "line"}

Waiting == \E i \in DOMAIN page.calls : page.calls[i].kind \notin Aside

Ready == Len(page.calls) < MaxCalls /\ (Patient => ~Waiting /\ ~page.locked)

\* A press of a button that is on the screen.
Press(panel, next) ==
  /\ Ready
  /\ panel \in page.shown
  /\ page' = next
  /\ UNCHANGED history

OpenDeck(d) == \/ Press("decks", StartDeck(page, d))
               \/ Press("decks", ShowIntro(page, d))

ReadProfile(d) == Press("decks", ShowSlips(page, d, "shelf"))

StartFromIntro == Press("intro", StartDeck(page, page.book.deck))

CloseSlips == Press("slips", IF page.book.from = "deck" THEN StartDeck(page, page.book.deck)
                             ELSE ShowShelf(page))

\* The line on the panel leads into the deck it is about, whichever is open.
MoreSlips ==
  /\ Ready
  /\ "panel" \in page.shown /\ page.line # None
  /\ page' = ShowSlips(page, page.line, "deck")
  /\ crossed' = IF page.line = page.deck THEN crossed ELSE crossed \cup ToSet(page.results)
  /\ UNCHANGED <<answers, filed, rounds, reloads, gone>>

Again == page.again /\ Press("panel", LoadBatch(page))

LeaveDeck == \E from \in {"deckLine", "panel", "intro"} :
               Press(from, FlushFirst(page, "leave"))

Reread == page.deck # None /\ Press("deckLine", FlushFirst(page, "reread"))

Slips == page.deck # None /\ Press("deckLine", FlushFirst(page, "slips"))

\* "Change" is in the header, on every screen but the sign-in.
OpenRename ==
  /\ Ready
  /\ "signin" \notin page.shown
  /\ page' = FlushFirst(page, "rename")
  /\ UNCHANGED history

CancelRename == Press("name", ShowShelf(Hide(page, {"name"})))

\* The button is disabled while a name is being saved.
SubmitNickname ==
  /\ \A i \in DOMAIN page.calls : page.calls[i].kind # "nickname"
  /\ Press("name", Fetch(page, [kind |-> "nickname", deck |-> None]))

\* The buttons answer with the drill they were drawn for, a drag and the arrow
\* keys with the active one.
Given(p) ==
  {p.drill : panel \in p.shown \cap {"controls"}}
    \cup {ActiveDrill(p) : c \in {p.drawn} \ {None}}
    \cup {ActiveDrill(p) : d \in IF Keyboard THEN {p.deck} \ {None} ELSE {}}

GiveUnlocked ==
  /\ Patient => ~Waiting
  /\ Len(answers) < MaxAnswers
  /\ CurrentCard(page) # None
  /\ \E d \in Given(page) :
       answers' = Append(answers, [card |-> CurrentCard(page), drill |-> d])
  /\ page' = [page EXCEPT !.locked = TRUE, !.results = Append(@, Len(answers'))]
  /\ UNCHANGED <<filed, rounds, reloads, gone, crossed>>

\* answer(given), on a card that is not being revealed.
Give ==
  /\ ~page.locked
  /\ Patient => ~Waiting
  /\ Len(answers) < MaxAnswers
  /\ CurrentCard(page) # None
  /\ \E d \in Given(page) :
       answers' = Append(answers, [card |-> CurrentCard(page), drill |-> d])
  /\ page' = [page EXCEPT !.locked = TRUE, !.results = Append(@, Len(answers'))]
  /\ UNCHANGED <<filed, rounds, reloads, gone, crossed>>

\* The reveal is over, or an impatient press cuts it short.
Advance ==
  LET next == [page EXCEPT !.locked = FALSE, !.index = @ + 1]
  IN  /\ page.locked
      /\ Len(page.calls) < MaxCalls
      /\ page' = IF CurrentCard(next) = None THEN FinishBatch(next) ELSE RenderStack(next)
      /\ UNCHANGED history

\* What a server has filed of a round when nobody is there to be told.
FileSome(ns, d) ==
  \E k \in 0..Len(ns) :
    filed' = [n \in Ids |-> IF n \in ToSet(SubSeq(ns, 1, k)) THEN filed[n] \cup {d}
                            ELSE filed[n]]

Held == ToSet(page.results) \cup
        UNION {ToSet(c.results) : c \in {c \in ToSet(page.calls) : c.kind = "grade"}}

NewPage ==
  /\ page' = Start
  /\ gone' = gone \cup Held
  /\ UNCHANGED <<answers, filed, rounds, crossed>>

\* The page is closed, reloaded or signed out; another one is opened.
Reload == reloads < MaxReloads /\ reloads' = reloads + 1 /\ NewPage

\* The way on from the sign-in screen is a link, which opens the page anew.
SignInAgain == "signin" \in page.shown /\ UNCHANGED reloads /\ NewPage

-----------------------------------------------------------------------------
(* What the answers to requests do.  Arrives(i, kind) takes call i out.    *)

Arrives(i, kind) == i \in DOMAIN page.calls /\ page.calls[i].kind = kind

Landed(i) == [page EXCEPT !.calls = RemoveAt(@, i)]

Arrive(i, kind, next) ==
  /\ Arrives(i, kind)
  /\ page' = next
  /\ UNCHANGED history

DecksArrive(i) == Arrive(i, "decks", Show(Hide(Landed(i), {"status"}), {"decks"}))

Deal(b, d, r) == [k \in DOMAIN b |-> [deck |-> d, item |-> b[k], round |-> r, pos |-> k]]

BatchUnflushedArrives(i) ==
  /\ Arrives(i, "batch")
  /\ \E b \in IF rounds < MaxRounds THEN Batches ELSE {<<>>} :
       LET p == [Landed(i) EXCEPT !.index = 1,
                   !.cards = Deal(b, DeckOf(page.calls[i].deck), rounds + 1)]
       IN  IF b = <<>> THEN page' = EndRound(p) /\ UNCHANGED rounds
           ELSE /\ page' = RenderStack([Show(Hide(p, {"status"}), {"controls"})
                                          EXCEPT !.drill = ActiveDrill(p)])
                /\ rounds' = rounds + 1
  /\ UNCHANGED <<answers, filed, reloads, gone, crossed>>

\* The rest of loadBatch: a new round, on the page as it is now.
BatchArrives(i) ==
  /\ Arrives(i, "batch")
  /\ \E b \in IF rounds < MaxRounds THEN Batches ELSE {<<>>} :
       LET p == [Landed(i) EXCEPT !.index = 1, !.results = <<>>,
                   !.cards = Deal(b, DeckOf(page.calls[i].deck), rounds + 1)]
       IN  IF b = <<>> THEN page' = EndRound(p) /\ UNCHANGED rounds
           ELSE /\ page' = RenderStack([Show(Hide(p, {"status"}), {"controls"})
                                          EXCEPT !.drill = ActiveDrill(p)])
                /\ rounds' = rounds + 1
  /\ UNCHANGED <<answers, filed, reloads, gone, crossed>>

\* 403, for a deck that is gated.
BatchRefused(i) ==
  /\ MayFail
  /\ Arrives(i, "batch") /\ DeckOf(page.calls[i].deck) # NounDeck
  /\ Arrive(i, "batch", EndRound(Landed(i)))

SlipsArrive(i) == Arrive(i, "slips", Landed(i))

\* showSlipSummary, up to its await: nobody waits for the answer.
AskForLine(p) ==
  IF p.deck = None THEN [p EXCEPT !.line = None]
  ELSE Fetch([p EXCEPT !.line = None], [kind |-> "line", deck |-> p.deck])

\* The rest of it, on whatever the panel shows by then.  With few slips so far, or
\* without an answer, there is no line to show.
LineArrives(i) ==
  \/ Arrive(i, "line", [Landed(i) EXCEPT !.line = page.calls[i].deck])
  \/ Arrive(i, "line", Landed(i))

NicknameArrives(i) ==
  \/ Arrive(i, "nickname", ShowShelf(Hide(Landed(i), {"name"})))
  \/ MayFail /\ Arrive(i, "nickname", Landed(i))

\* A request that needs a session finds it expired.
SessionExpired(i) ==
  /\ MayFail
  /\ \E kind \in {"decks", "batch", "slips", "nickname"} :
       Arrive(i, kind, ShowSignIn(Landed(i)))

\* No connection, or an error on the server.
CallFails(i) ==
  /\ MayFail
  /\ \E kind \in {"decks", "batch"} : Arrive(i, kind, Show(Landed(i), {"status"}))

\* An answer the posted deck does not offer has the whole flush refused.
Accepted(call) ==
  \A k \in DOMAIN call.results :
    answers[call.results[k]].drill = DrillOf[DeckOf(call.deck)]

\* The rest of the handler that flushed.  finishBatch keeps the round's answers
\* for its panel; the others drop them and go on.
AfterFlush(i, offerAgain) ==
  LET call == page.calls[i]
  IN  IF call.then = "finish"
      THEN AskForLine([Show(Hide(Landed(i), {"status"}), {"panel"}) EXCEPT !.again = offerAgain])
      ELSE Onward([Landed(i) EXCEPT !.results = <<>>], call.then, call.deck)

FlushArrives(i) ==
  /\ Arrives(i, "grade")
  /\ LET call == page.calls[i]
     IN  /\ Accepted(call)
         /\ filed' = [n \in Ids |-> IF n \in ToSet(call.results)
                                    THEN filed[n] \cup {DeckOf(call.deck)} ELSE filed[n]]
  /\ \E offerAgain \in BOOLEAN : page' = AfterFlush(i, offerAgain)
  /\ UNCHANGED <<answers, rounds, reloads, gone, crossed>>

\* The server refuses it, fails part of the way, or its answer is lost.
FlushFails(i) ==
  /\ Arrives(i, "grade")
  /\ LET call == page.calls[i]
     IN  IF Accepted(call) THEN MayFail /\ FileSome(call.results, DeckOf(call.deck))
         ELSE UNCHANGED filed
  /\ page' = AfterFlush(i, TRUE)
  /\ gone' = gone \cup ToSet(page.calls[i].results)
  /\ UNCHANGED <<answers, rounds, reloads, crossed>>

-----------------------------------------------------------------------------
Learner ==
  \/ \E d \in Decks : OpenDeck(d) \/ ReadProfile(d)
  \/ StartFromIntro \/ CloseSlips \/ MoreSlips \/ Again
  \/ LeaveDeck \/ Reread \/ Slips
  \/ OpenRename \/ CancelRename \/ SubmitNickname
  \/ Give
  \/ Reload \/ SignInAgain

Arrival ==
  \E i \in DOMAIN page.calls :
    \/ DecksArrive(i) \/ BatchArrives(i) \/ BatchRefused(i)
    \/ SlipsArrive(i) \/ LineArrives(i) \/ NicknameArrives(i)
    \/ SessionExpired(i) \/ CallFails(i)
    \/ FlushArrives(i) \/ FlushFails(i)

Next == Learner \/ Advance \/ Arrival

Spec == Init /\ [][Next]_vars

-----------------------------------------------------------------------------
(* Safety.                                                                 *)

\* What is on the stack, and what the reveal on the screen belongs to, is the
\* card the next answer would grade: "a timer from the last batch cannot advance
\* an index that now points into a fresh set of cards" (app.js:1060), and "locked"
\* swallows double input, so that a card is answered once.
OneAnswerPerCard ==
  /\ TypeOK
  /\ page.drawn # None => page.drawn = CurrentCard(page)
  /\ page.locked => CurrentCard(page) # None /\ page.results # <<>> /\
                      answers[Last(page.results)].card = CurrentCard(page)
  /\ \A m, n \in DOMAIN answers : answers[m].card = answers[n].card => m = n

\* Every answer is filed under the deck its card was dealt from, "naming the deck
\* they belong to" (app.js:1117), unless it was still on the page when the learner
\* followed the line about another deck.
FiledUnderItsDeck ==
  \A n \in DOMAIN answers :
    n \notin crossed => filed[n] \subseteq {answers[n].card.deck}

\* An answer is in the browser, on its way, or filed: it is lost only with a
\* page that is closed, or a flush that failed.
NoAnswerLost ==
  \A n \in DOMAIN answers : n \in Held \cup gone \/ filed[n] # {}

\* A round's answers are sent in the order they were given, and the round is
\* reported only when each of its cards has been answered.
RoundComplete ==
  \A i \in DOMAIN page.calls :
    page.calls[i].kind = "grade" /\ page.calls[i].then = "finish" =>
      [k \in DOMAIN page.calls[i].results |-> answers[page.calls[i].results[k]].card]
        = page.cards
=============================================================================
