---------------------------- MODULE ClientProofs ----------------------------
(***************************************************************************)
(* Proofs about Client, for any course and batches, any bounds, and any    *)
(* failures, of a learner who waits for what is pending and has no arrow   *)
(* keys.  Other learners meet the divergences of README.md.                *)
(***************************************************************************)
EXTENDS Client, TLAPS

-----------------------------------------------------------------------------
(* The inductive invariant: what holds of a page p with the answers a, of  *)
(* which f are filed, g are gone and x have crossed, after r batches.      *)

\* The screens with a way on that is not an answer.
Screens == {"panel", "name", "decks", "intro", "slips"}

\* The calls a learner waits for.
Waits(p) == {i \in DOMAIN p.calls : p.calls[i].kind \notin Aside}

OneCall(p) == \A i, j \in Waits(p) : i = j

Playing(p) == "controls" \in p.shown

\* The answers that the page holds crossed over to the line about another deck.
Astray(p, x) == \A k \in DOMAIN p.results : p.results[k] \in x

\* Each answer that the page holds is filed, or gone.
Settled(p, f, g) == \A k \in DOMAIN p.results : p.results[k] \in g \/ f[p.results[k]] # {}

\* The cards are those of the last batch, in order; a round that is played shows
\* its current card, and has no other way on but the line above it.
BoardInv(p, r) ==
  /\ p.drawn = IF Playing(p) THEN CurrentCard(p) ELSE None
  /\ \A k \in DOMAIN p.cards : p.cards[k].round = r /\ p.cards[k].pos = k
  /\ Playing(p) => /\ p.index \in DOMAIN p.cards
                   /\ p.shown \cap Screens = {}
                   /\ \A k \in DOMAIN p.cards : p.cards[k].deck = DeckOf(p.deck)
  /\ p.locked => Playing(p) /\ Waits(p) = {}

\* The results are answers to cards of the deck that is open, or crossed; while a
\* round is played, those to its cards up to the current one, which nothing else
\* answers.
RoundInv(p, a, r, x) ==
  /\ p.results \in Seq(DOMAIN a)
  /\ \A k \in DOMAIN p.results :
       a[p.results[k]].card.deck = DeckOf(p.deck) \/ p.results[k] \in x
  /\ Playing(p) =>
       /\ Len(p.results) = IF p.locked THEN p.index ELSE p.index - 1
       /\ \A k \in DOMAIN p.results : a[p.results[k]].card = p.cards[k]
       /\ \A n \in DOMAIN a : a[n].card.round = r => a[n].card.pos <= Len(p.results)

\* Which screens leave with nothing to send, or nothing that was not sent.
ScreenInv(p, f, g, x) ==
  /\ p.shown \cap {"name", "decks", "intro"} # {} => p.results = <<>>
  /\ "slips" \in p.shown =>
       p.results = <<>> \/ (p.book.from = "deck" /\ (p.book.deck = p.deck \/ Astray(p, x)))
  /\ p.shown \cap {"panel", "slips"} # {} => Settled(p, f, g)
  /\ ~({"panel", "slips"} \subseteq p.shown)

\* What the page is while call c is pending.
Pending(p, c, a, f, g) ==
  /\ c.kind = "batch" =>
       c.deck = p.deck /\ ~Playing(p) /\ p.shown \cap Screens = {} /\ Settled(p, f, g)
  /\ c.kind \in {"decks", "nickname"} => ~Playing(p) /\ p.results = <<>>
  /\ c.kind = "grade" =>
       /\ c.deck = p.deck /\ c.results = p.results
       /\ c.then = "finish" =>
            /\ ~Playing(p) /\ p.shown \cap Screens = {}
            /\ [k \in DOMAIN p.results |-> a[p.results[k]].card] = p.cards

CallInv(p, a, f, g) == \A i \in Waits(p) : Pending(p, p.calls[i], a, f, g)

\* No answer is lost, as far as the page knows of it.
Kept(p, a, f, g) ==
  \A n \in DOMAIN a : (\E k \in DOMAIN p.results : p.results[k] = n) \/ n \in g \/ f[n] # {}

PageInv(p, a, f, r, g, x) ==
  /\ p \in Page
  /\ OneCall(p)
  /\ BoardInv(p, r)
  /\ RoundInv(p, a, r, x)
  /\ ScreenInv(p, f, g, x)
  /\ CallInv(p, a, f, g)
  /\ Kept(p, a, f, g)

\* Every card is answered once, and filed under its deck only.
AnswerInv ==
  /\ answers \in Seq(Answer) /\ Len(answers) <= MaxAnswers
  /\ filed \in [Ids -> SUBSET Decks]
  /\ rounds \in 0..MaxRounds /\ reloads \in 0..MaxReloads
  /\ gone \subseteq Ids /\ crossed \subseteq Ids
  /\ \A n \in DOMAIN answers : answers[n].card.round <= rounds
  /\ \A m, n \in DOMAIN answers : answers[m].card = answers[n].card => m = n
  /\ \A n \in Ids \ DOMAIN answers : filed[n] = {}
  /\ FiledUnderItsDeck

IInv == AnswerInv /\ PageInv(page, answers, filed, rounds, gone, crossed)

-----------------------------------------------------------------------------
(* The functions of the script, field by field.                            *)

\* q has the round of p, and its stack is covered.
Blank(p, q) ==
  /\ q \in Page
  /\ q.cards = p.cards /\ q.index = p.index /\ q.results = p.results
  /\ q.drawn = None /\ ~q.locked /\ ~Playing(q)

\* q is p, except for what is shown; or except for the calls and what is shown.
SameButShown(p, q) ==
  /\ q \in Page
  /\ q.cards = p.cards /\ q.index = p.index /\ q.results = p.results
  /\ q.drawn = p.drawn /\ q.locked = p.locked
  /\ q.deck = p.deck /\ q.book = p.book /\ q.calls = p.calls

SameButCalls(p, q) ==
  /\ q \in Page
  /\ q.cards = p.cards /\ q.index = p.index /\ q.results = p.results
  /\ q.drawn = p.drawn /\ q.locked = p.locked
  /\ q.deck = p.deck /\ q.book = p.book

\* Showing and hiding panels changes what is shown (show, hide).
LEMMA ShowIs ==
  ASSUME NEW p \in Page, NEW panels \in SUBSET Panels
  PROVE  /\ SameButShown(p, Show(p, panels)) /\ Show(p, panels).shown = p.shown \cup panels
         /\ SameButShown(p, Hide(p, panels)) /\ Hide(p, panels).shown = p.shown \ panels
BY DEF Show, Hide, SameButShown, Page

\* A fetch appends a call, and leaves the page alone.
LEMMA FetchIs ==
  ASSUME NEW p \in Page, NEW c \in Call \cup Flush
  PROVE  /\ Fetch(p, c) \in Page
         /\ Fetch(p, c) = [p EXCEPT !.calls = Append(p.calls, c)]
         /\ Fetch(p, c).calls = Append(p.calls, c)
<1>1. Append(p.calls, c) \in Seq(Call \cup Flush)
  BY DEF Page
<1> QED BY <1>1 DEF Fetch, Page

\* hideEverything() covers the stack.
LEMMA HideIs ==
  ASSUME NEW p \in Page
  PROVE  /\ Blank(p, HideEverything(p))
         /\ HideEverything(p).shown = {} /\ HideEverything(p).deck = p.deck
         /\ HideEverything(p).calls = p.calls /\ HideEverything(p).book = p.book
BY DEF HideEverything, Blank, Playing, Page

\* The screens that are drawn without a request: sign-in, name, introduction.
LEMMA PlainIs ==
  ASSUME NEW p \in Page, NEW d \in Decks \cup {None}
  PROVE  /\ Blank(p, ShowSignIn(p)) /\ ShowSignIn(p).shown = {"signin"}
         /\ ShowSignIn(p).deck = p.deck /\ ShowSignIn(p).calls = p.calls
         /\ Blank(p, ShowRename(p)) /\ ShowRename(p).shown = {"name"}
         /\ ShowRename(p).deck = p.deck /\ ShowRename(p).calls = p.calls
         /\ Blank(p, ShowIntro(p, d)) /\ ShowIntro(p, d).shown = {"intro"}
         /\ ShowIntro(p, d).deck = p.deck /\ ShowIntro(p, d).calls = p.calls
<1>1. PICK h : h = HideEverything(p)
  OBVIOUS
<1>2. /\ Blank(p, h) /\ h.shown = {} /\ h.deck = p.deck /\ h.calls = p.calls
  BY <1>1, HideIs
<1>3. /\ {"signin"} \in SUBSET Panels /\ {"name"} \in SUBSET Panels
      /\ {"intro"} \in SUBSET Panels
  BY DEF Panels
<1>4. PICK b : b = [h EXCEPT !.book = [deck |-> d, from |-> "shelf"]]
  OBVIOUS
<1>5. Blank(p, b) /\ b.shown = {} /\ b.deck = p.deck /\ b.calls = p.calls
  BY <1>2, <1>4 DEF Blank, Page, Playing
<1>6. \A q \in {h, b} : \A s \in {"signin", "name", "intro"} :
        /\ Blank(p, Show(q, {s})) /\ Show(q, {s}).shown = {s}
        /\ Show(q, {s}).deck = p.deck /\ Show(q, {s}).calls = p.calls
  <2> SUFFICES ASSUME NEW q \in {h, b}, NEW s \in {"signin", "name", "intro"}
               PROVE  /\ Blank(p, Show(q, {s})) /\ Show(q, {s}).shown = {s}
                      /\ Show(q, {s}).deck = p.deck /\ Show(q, {s}).calls = p.calls
    OBVIOUS
  <2>1. q \in Page /\ q.shown = {} /\ Blank(p, q) /\ q.deck = p.deck /\ q.calls = p.calls
    BY <1>2, <1>5 DEF Blank
  <2>2. SameButShown(q, Show(q, {s})) /\ Show(q, {s}).shown = {s}
    BY <2>1, <1>3, ShowIs
  <2> QED BY <2>1, <2>2 DEF Blank, SameButShown, Playing
<1>7. ShowSignIn(p) = Show(h, {"signin"}) /\ ShowRename(p) = Show(h, {"name"})
      /\ ShowIntro(p, d) = Show(b, {"intro"})
  BY <1>1, <1>4 DEF ShowSignIn, ShowRename, ShowIntro
<1> QED BY <1>6, <1>7

\* showShelf() closes the deck and asks for the shelf.
LEMMA ShelfIs ==
  ASSUME NEW p \in Page
  PROVE  /\ Blank(p, ShowShelf(p)) /\ ShowShelf(p).shown = {"status"}
         /\ ShowShelf(p).deck = None
         /\ ShowShelf(p).calls = Append(p.calls, [kind |-> "decks", deck |-> None])
<1>1. PICK h : h = [HideEverything(p) EXCEPT !.deck = None]
  OBVIOUS
<1>2. Blank(p, h) /\ h.shown = {} /\ h.deck = None /\ h.calls = p.calls
  BY <1>1, HideIs DEF Blank, Playing, Page
<1>3. PICK s : s = Show(h, {"status"})
  OBVIOUS
<1>4. SameButShown(h, s) /\ s.shown = {"status"}
  BY <1>2, <1>3, ShowIs DEF Blank, Panels
<1>5. Blank(p, s) /\ s.deck = None /\ s.calls = p.calls
  BY <1>2, <1>4 DEF Blank, SameButShown, Playing
<1>6. PICK c : c = [kind |-> "decks", deck |-> None]
  OBVIOUS
<1>7. c \in Call \cup Flush
  BY <1>6 DEF Call
<1>8. ShowShelf(p) = Fetch(s, c)
  BY <1>1, <1>3, <1>6 DEF ShowShelf
<1>9. PICK q : q = Fetch(s, c)
  OBVIOUS
<1>10. q \in Page /\ q = [s EXCEPT !.calls = Append(s.calls, c)] /\ q.calls = Append(s.calls, c)
  BY <1>5, <1>7, <1>9, FetchIs DEF Blank
<1>11. Blank(p, q) /\ q.shown = {"status"} /\ q.deck = None
  BY <1>4, <1>5, <1>10 DEF Blank, Playing, Page
<1> QED BY <1>5, <1>6, <1>8, <1>9, <1>10, <1>11

\* The profile of a deck asks for its slips, and remembers where it came from.
LEMMA SlipsIs ==
  ASSUME NEW p \in Page, NEW d \in Decks \cup {None}, NEW from \in {"shelf", "deck"}
  PROVE  /\ Blank(p, ShowSlips(p, d, from)) /\ ShowSlips(p, d, from).shown = {"slips"}
         /\ ShowSlips(p, d, from).deck = p.deck
         /\ ShowSlips(p, d, from).book = [deck |-> d, from |-> from]
         /\ ShowSlips(p, d, from).calls = Append(p.calls, [kind |-> "slips", deck |-> d])
<1>1. PICK h : h = [HideEverything(p) EXCEPT !.book = [deck |-> d, from |-> from]]
  OBVIOUS
<1>2. /\ Blank(p, h) /\ h.shown = {} /\ h.deck = p.deck /\ h.calls = p.calls
      /\ h.book = [deck |-> d, from |-> from]
  BY <1>1, HideIs DEF Blank, Playing, Page
<1>3. PICK s : s = Show(h, {"slips"})
  OBVIOUS
<1>4. SameButShown(h, s) /\ s.shown = {"slips"}
  BY <1>2, <1>3, ShowIs DEF Blank, Panels
<1>5. Blank(p, s) /\ s.deck = p.deck /\ s.calls = p.calls /\ s.book = h.book
  BY <1>2, <1>4 DEF Blank, SameButShown, Playing
<1>6. PICK c : c = [kind |-> "slips", deck |-> d]
  OBVIOUS
<1>7. c \in Call \cup Flush
  BY <1>6 DEF Call
<1>8. ShowSlips(p, d, from) = Fetch(s, c)
  BY <1>1, <1>3, <1>6 DEF ShowSlips
<1>9. PICK q : q = Fetch(s, c)
  OBVIOUS
<1>10. q \in Page /\ q = [s EXCEPT !.calls = Append(s.calls, c)] /\ q.calls = Append(s.calls, c)
  BY <1>5, <1>7, <1>9, FetchIs DEF Blank
<1>11. Blank(p, q) /\ q.shown = {"slips"} /\ q.deck = p.deck /\ q.book = h.book
  BY <1>4, <1>5, <1>10 DEF Blank, Playing, Page
<1> QED BY <1>2, <1>5, <1>6, <1>8, <1>9, <1>10, <1>11

\* loadBatch(), up to its await: no reveal is left, the panels go, a batch of the
\* deck that is open is asked for.
LEMMA LoadIs ==
  ASSUME NEW p \in Page, p.drawn = None, ~Playing(p)
  PROVE  /\ Blank(p, LoadBatch(p)) /\ LoadBatch(p).deck = p.deck
         /\ LoadBatch(p).shown =
              (p.shown \ {"panel", "signin", "name", "decks", "intro"}) \cup {"status"}
         /\ LoadBatch(p).calls = Append(p.calls, [kind |-> "batch", deck |-> p.deck])
<1>1. PICK u : u = [p EXCEPT !.locked = FALSE]
  OBVIOUS
<1>2. Blank(p, u) /\ u.shown = p.shown /\ u.deck = p.deck /\ u.calls = p.calls
  BY <1>1 DEF Blank, Playing, Page
<1>3. PICK h : h = Hide(u, {"panel", "signin", "name", "decks", "intro"})
  OBVIOUS
<1>4. /\ SameButShown(u, h)
      /\ h.shown = p.shown \ {"panel", "signin", "name", "decks", "intro"}
  BY <1>2, <1>3, ShowIs DEF Blank, Panels
<1>5. Blank(p, h) /\ h.deck = p.deck /\ h.calls = p.calls
  BY <1>2, <1>4 DEF Blank, SameButShown, Playing
<1>6. PICK s : s = Show(h, {"status"})
  OBVIOUS
<1>7. SameButShown(h, s) /\ s.shown = h.shown \cup {"status"}
  BY <1>5, <1>6, ShowIs DEF Blank, Panels
<1>8. Blank(p, s) /\ s.deck = p.deck /\ s.calls = p.calls
  BY <1>5, <1>7 DEF Blank, SameButShown, Playing
<1>9. PICK c : c = [kind |-> "batch", deck |-> p.deck]
  OBVIOUS
<1>10. c \in Call \cup Flush
  BY <1>9 DEF Call, Page
<1>11. LoadBatch(p) = Fetch(s, c)
  BY <1>1, <1>3, <1>6, <1>9 DEF LoadBatch
<1>12. PICK q : q = Fetch(s, c)
  OBVIOUS
<1>13. q \in Page /\ q = [s EXCEPT !.calls = Append(s.calls, c)] /\ q.calls = Append(s.calls, c)
  BY <1>8, <1>10, <1>12, FetchIs DEF Blank
<1>14. Blank(p, q) /\ q.shown = s.shown /\ q.deck = p.deck
  BY <1>8, <1>13 DEF Blank, Playing, Page
<1> QED BY <1>4, <1>7, <1>8, <1>9, <1>11, <1>12, <1>13, <1>14

\* startDeck(d) opens d and asks for a batch of it.
LEMMA StartIs ==
  ASSUME NEW p \in Page, NEW d \in Decks \cup {None}
  PROVE  /\ Blank(p, StartDeck(p, d)) /\ StartDeck(p, d).deck = d
         /\ StartDeck(p, d).shown = {"deckLine", "status"}
         /\ StartDeck(p, d).calls = Append(p.calls, [kind |-> "batch", deck |-> d])
<1>1. PICK h : h = [HideEverything(p) EXCEPT !.deck = d]
  OBVIOUS
<1>2. Blank(p, h) /\ h.shown = {} /\ h.deck = d /\ h.calls = p.calls
  BY <1>1, HideIs DEF Blank, Playing, Page
<1>3. PICK s : s = Show(h, {"deckLine"})
  OBVIOUS
<1>4. SameButShown(h, s) /\ s.shown = {"deckLine"}
  BY <1>2, <1>3, ShowIs DEF Blank, Panels
<1>5. Blank(p, s) /\ s.deck = d /\ s.calls = p.calls
  BY <1>2, <1>4 DEF Blank, SameButShown, Playing
<1>6. PICK q : q = LoadBatch(s)
  OBVIOUS
<1>7. /\ Blank(s, q) /\ q.deck = d /\ q.shown = {"deckLine", "status"}
      /\ q.calls = Append(p.calls, [kind |-> "batch", deck |-> d])
  BY <1>4, <1>5, <1>6, LoadIs DEF Blank
<1>8. StartDeck(p, d) = q
  BY <1>1, <1>3, <1>6 DEF StartDeck
<1> QED BY <1>5, <1>7, <1>8 DEF Blank

-----------------------------------------------------------------------------
(* What the functions of the script preserve.                              *)

\* Covering the stack keeps the round, as long as its answers keep their deck.
LEMMA BlankGood ==
  ASSUME NEW p, NEW q, NEW a, NEW f, NEW r, NEW g, NEW x, PageInv(p, a, f, r, g, x),
         Blank(p, q), q.deck = p.deck \/ Astray(p, x)
  PROVE  /\ q \in Page /\ BoardInv(q, r) /\ RoundInv(q, a, r, x) /\ Kept(q, a, f, g)
         /\ Settled(q, f, g) <=> Settled(p, f, g)
<1>1. BoardInv(q, r)
  BY DEF PageInv, Blank, BoardInv
<1>2. RoundInv(q, a, r, x)
  BY DEF PageInv, Blank, RoundInv, Astray
<1>3. Kept(q, a, f, g) /\ (Settled(q, f, g) <=> Settled(p, f, g))
  BY DEF PageInv, Blank, Kept, Settled
<1> QED BY <1>1, <1>2, <1>3 DEF Blank

\* A page whose calls are those of one that waits for nothing.
LEMMA NoCall ==
  ASSUME NEW p, NEW q, NEW a, NEW f, NEW g, NEW x, Waits(p) = {}, q.calls = p.calls
  PROVE  Waits(q) = {} /\ OneCall(q) /\ CallInv(q, a, f, g)
BY DEF Waits, OneCall, CallInv

\* A page that waits for nothing but the call that was just made.
LEMMA OneMore ==
  ASSUME NEW p, NEW q, NEW a, NEW f, NEW g, NEW c, p \in Page, Waits(p) = {},
         q.calls = Append(p.calls, c), Pending(q, c, a, f, g)
  PROVE  OneCall(q) /\ CallInv(q, a, f, g)
<1>1. p.calls \in Seq(Call \cup Flush)
  BY DEF Page
<1>2. /\ DOMAIN q.calls = 1..(Len(p.calls) + 1) /\ q.calls[Len(p.calls) + 1] = c
      /\ \A i \in DOMAIN p.calls : q.calls[i] = p.calls[i]
      /\ DOMAIN p.calls = 1..Len(p.calls) /\ Len(p.calls) \in Nat
  BY <1>1
<1>3. \A i \in Waits(q) : i = Len(p.calls) + 1
  BY <1>2 DEF Waits
<1>4. \A i \in Waits(q) : q.calls[i] = c
  BY <1>2, <1>3
<1>5. OneCall(q)
  BY <1>3 DEF OneCall
<1> QED BY <1>4, <1>5 DEF CallInv

\* The shelf, with no answers left to send.
LEMMA ShelfGood ==
  ASSUME NEW p, NEW a, NEW f, NEW r, NEW g, NEW x, PageInv(p, a, f, r, g, x),
         Waits(p) = {}, p.results = <<>>
  PROVE  PageInv(ShowShelf(p), a, f, r, g, x)
<1>1. PICK q : q = ShowShelf(p)
  OBVIOUS
<1>2. PICK c : c = [kind |-> "decks", deck |-> None]
  OBVIOUS
<1>3. p \in Page
  BY DEF PageInv
<1>4. Blank(p, q) /\ q.shown = {"status"} /\ q.calls = Append(p.calls, c)
  BY <1>1, <1>2, <1>3, ShelfIs
<1>5. q \in Page /\ BoardInv(q, r) /\ RoundInv(q, a, r, x) /\ Kept(q, a, f, g)
  <2>1. Astray(p, x)
    BY DEF Astray
  <2> QED BY <1>4, <2>1, BlankGood
<1>6. ScreenInv(q, f, g, x)
  BY <1>4 DEF ScreenInv
<1>7. Pending(q, c, a, f, g)
  BY <1>2, <1>4 DEF Pending, Playing, Blank
<1>8. OneCall(q) /\ CallInv(q, a, f, g)
  BY <1>3, <1>4, <1>7, OneMore
<1> QED BY <1>1, <1>5, <1>6, <1>8 DEF PageInv

\* The sign-in screen, over anything.
LEMMA SignInGood ==
  ASSUME NEW p, NEW a, NEW f, NEW r, NEW g, NEW x, PageInv(p, a, f, r, g, x)
  PROVE  PageInv(ShowSignIn(p), a, f, r, g, x)
<1>1. PICK q : q = ShowSignIn(p)
  OBVIOUS
<1>2. p \in Page
  BY DEF PageInv
<1>3. Blank(p, q) /\ q.shown = {"signin"} /\ q.calls = p.calls /\ q.deck = p.deck
  BY <1>1, <1>2, PlainIs
<1>4. /\ q \in Page /\ BoardInv(q, r) /\ RoundInv(q, a, r, x) /\ Kept(q, a, f, g)
      /\ Settled(q, f, g) <=> Settled(p, f, g)
  BY <1>3, BlankGood
<1>5. ScreenInv(q, f, g, x)
  BY <1>3 DEF ScreenInv
<1>6. Waits(q) = Waits(p) /\ OneCall(q)
  BY <1>3 DEF PageInv, Waits, OneCall
<1>7. q.shown \cap Screens = {} /\ q.results = p.results /\ q.cards = p.cards /\ ~Playing(q)
  BY <1>3 DEF Blank, Screens
<1>8. CallInv(q, a, f, g)
  <2> SUFFICES ASSUME NEW i \in Waits(p)
               PROVE  Pending(q, p.calls[i], a, f, g)
    BY <1>3, <1>6 DEF CallInv
  <2>1. Pending(p, p.calls[i], a, f, g)
    BY DEF PageInv, CallInv
  <2> QED BY <1>3, <1>4, <1>7, <2>1 DEF Pending
<1> QED BY <1>1, <1>4, <1>5, <1>6, <1>8 DEF PageInv

\* The name and the introduction, with no answers left to send.
LEMMA PlainGood ==
  ASSUME NEW p, NEW a, NEW f, NEW r, NEW g, NEW x, PageInv(p, a, f, r, g, x),
         Waits(p) = {}, p.results = <<>>, NEW d \in Decks \cup {None}
  PROVE  /\ PageInv(ShowRename(p), a, f, r, g, x)
         /\ PageInv(ShowIntro(p, d), a, f, r, g, x)
<1>1. p \in Page
  BY DEF PageInv
<1>2. ASSUME NEW q, NEW s \in {"name", "intro"},
             Blank(p, q), q.shown = {s}, q.calls = p.calls, q.deck = p.deck
      PROVE  PageInv(q, a, f, r, g, x)
  <2>1. q \in Page /\ BoardInv(q, r) /\ RoundInv(q, a, r, x) /\ Kept(q, a, f, g)
    BY <1>2, BlankGood
  <2>2. ScreenInv(q, f, g, x)
    BY <1>2 DEF ScreenInv, Blank
  <2>3. OneCall(q) /\ CallInv(q, a, f, g)
    BY <1>2, NoCall
  <2> QED BY <2>1, <2>2, <2>3 DEF PageInv
<1> QED BY <1>1, <1>2, PlainIs

\* The profile of a deck: with no answers, or with answers that were sent, and of the
\* deck that is open unless they crossed.
LEMMA SlipsGood ==
  ASSUME NEW p, NEW a, NEW f, NEW r, NEW g, NEW x, PageInv(p, a, f, r, g, x), Waits(p) = {},
         NEW d \in Decks \cup {None}, NEW from \in {"shelf", "deck"},
         p.results = <<>>
           \/ (from = "deck" /\ (d = p.deck \/ Astray(p, x)) /\ Settled(p, f, g))
  PROVE  PageInv(ShowSlips(p, d, from), a, f, r, g, x)
<1>1. PICK q : q = ShowSlips(p, d, from)
  OBVIOUS
<1>2. PICK c : c = [kind |-> "slips", deck |-> d]
  OBVIOUS
<1>3. p \in Page
  BY DEF PageInv
<1>4. /\ Blank(p, q) /\ q.shown = {"slips"} /\ q.calls = Append(p.calls, c)
      /\ q.deck = p.deck /\ q.book = [deck |-> d, from |-> from]
  <2>1. /\ Blank(p, ShowSlips(p, d, from)) /\ ShowSlips(p, d, from).shown = {"slips"}
        /\ ShowSlips(p, d, from).deck = p.deck
        /\ ShowSlips(p, d, from).book = [deck |-> d, from |-> from]
        /\ ShowSlips(p, d, from).calls = Append(p.calls, [kind |-> "slips", deck |-> d])
    BY <1>3, SlipsIs, ZenonT(60)
  <2> QED BY <1>1, <1>2, <2>1
<1>5. /\ q \in Page /\ BoardInv(q, r) /\ RoundInv(q, a, r, x) /\ Kept(q, a, f, g)
      /\ Settled(q, f, g) <=> Settled(p, f, g)
  BY <1>4, BlankGood
<1>6. p.results = <<>> => Settled(p, f, g)
  BY DEF Settled
<1>7. ScreenInv(q, f, g, x)
  BY <1>4, <1>5, <1>6 DEF ScreenInv, Blank, Astray
<1>8. Pending(q, c, a, f, g)
  BY <1>2 DEF Pending
<1>9. OneCall(q) /\ CallInv(q, a, f, g)
  BY <1>3, <1>4, <1>8, OneMore
<1> QED BY <1>1, <1>5, <1>7, <1>9 DEF PageInv

\* A batch is asked for when the answers on the page were sent and no way on but
\* the panel's is shown.
LEMMA LoadGood ==
  ASSUME NEW p, NEW a, NEW f, NEW r, NEW g, NEW x, PageInv(p, a, f, r, g, x), Waits(p) = {},
         ~Playing(p), "slips" \notin p.shown, Settled(p, f, g)
  PROVE  PageInv(LoadBatch(p), a, f, r, g, x)
<1>1. PICK q : q = LoadBatch(p)
  OBVIOUS
<1>2. PICK c : c = [kind |-> "batch", deck |-> p.deck]
  OBVIOUS
<1>3. p \in Page /\ p.drawn = None
  BY DEF PageInv, BoardInv
<1>4. /\ Blank(p, q) /\ q.calls = Append(p.calls, c) /\ q.deck = p.deck
      /\ q.shown = (p.shown \ {"panel", "signin", "name", "decks", "intro"}) \cup {"status"}
  BY <1>1, <1>2, <1>3, LoadIs
<1>5. /\ q \in Page /\ BoardInv(q, r) /\ RoundInv(q, a, r, x) /\ Kept(q, a, f, g)
      /\ Settled(q, f, g)
  BY <1>4, BlankGood
<1>6. q.shown \cap Screens = {}
  BY <1>4 DEF Screens
<1>7. ScreenInv(q, f, g, x)
  BY <1>6 DEF ScreenInv, Screens
<1>8. Pending(q, c, a, f, g)
  BY <1>2, <1>4, <1>5, <1>6 DEF Pending, Blank
<1>9. OneCall(q) /\ CallInv(q, a, f, g)
  BY <1>3, <1>4, <1>8, OneMore
<1> QED BY <1>1, <1>5, <1>7, <1>9 DEF PageInv

\* Opening a deck once the answers were sent: another one with none left, or crossed.
LEMMA StartGood ==
  ASSUME NEW p, NEW a, NEW f, NEW r, NEW g, NEW x, PageInv(p, a, f, r, g, x), Waits(p) = {},
         NEW d \in Decks \cup {None}, Settled(p, f, g), d = p.deck \/ Astray(p, x)
  PROVE  PageInv(StartDeck(p, d), a, f, r, g, x)
<1>1. PICK q : q = StartDeck(p, d)
  OBVIOUS
<1>2. PICK c : c = [kind |-> "batch", deck |-> d]
  OBVIOUS
<1>3. p \in Page
  BY DEF PageInv
<1>4. /\ Blank(p, q) /\ q.calls = Append(p.calls, c) /\ q.deck = d
      /\ q.shown = {"deckLine", "status"}
  BY <1>1, <1>2, <1>3, StartIs
<1>5. /\ q \in Page /\ BoardInv(q, r) /\ RoundInv(q, a, r, x) /\ Kept(q, a, f, g)
      /\ Settled(q, f, g)
  BY <1>4, BlankGood
<1>6. q.shown \cap Screens = {}
  BY <1>4 DEF Screens
<1>7. ScreenInv(q, f, g, x)
  BY <1>6 DEF ScreenInv, Screens
<1>8. Pending(q, c, a, f, g)
  BY <1>2, <1>4, <1>5, <1>6 DEF Pending, Blank
<1>9. OneCall(q) /\ CallInv(q, a, f, g)
  BY <1>3, <1>4, <1>8, OneMore
<1> QED BY <1>1, <1>5, <1>7, <1>9 DEF PageInv

\* What a press leads to once nothing is left to send.
LEMMA OnwardGood ==
  ASSUME NEW p, NEW a, NEW f, NEW r, NEW g, NEW x, PageInv(p, a, f, r, g, x), Waits(p) = {},
         p.results = <<>>, NEW then \in {"leave", "rename", "reread", "slips"},
         NEW d \in Decks \cup {None}
  PROVE  PageInv(Onward(p, then, d), a, f, r, g, x)
<1>1. CASE then = "leave"
  BY <1>1, ShelfGood DEF Onward
<1>2. CASE then = "rename"
  BY <1>2, PlainGood DEF Onward
<1>3. CASE then = "reread"
  BY <1>3, PlainGood DEF Onward
<1>4. CASE then = "slips"
  BY <1>4, SlipsGood DEF Onward
<1> QED BY <1>1, <1>2, <1>3, <1>4

\* flushResults() posts the whole round, under the deck that is open.
LEMMA FlushIs ==
  ASSUME NEW p \in Page, NEW then \in {"finish", "leave", "rename", "reread", "slips"},
         NEW q, q = FlushResults(p, then)
  PROVE  /\ SameButCalls(p, q) /\ q.shown = p.shown
         /\ q.calls = Append(p.calls, [kind |-> "grade", deck |-> p.deck,
                                       results |-> p.results, then |-> then])
<1>1. PICK c : c = [kind |-> "grade", deck |-> p.deck, results |-> p.results, then |-> then]
  OBVIOUS
<1>2. c \in Call \cup Flush
  BY <1>1 DEF Flush, Page
<1>3. q = Fetch(p, c)
  BY <1>1 DEF FlushResults
<1>4. q \in Page /\ q = [p EXCEPT !.calls = Append(p.calls, c)] /\ q.calls = Append(p.calls, c)
  BY <1>2, <1>3, FetchIs
<1> QED BY <1>1, <1>4 DEF SameButCalls, Page

\* A press during a round, or after it: its answers are sent first, if there are any.
LEMMA FlushFirstGood ==
  ASSUME NEW p, NEW a, NEW f, NEW r, NEW g, NEW x, PageInv(p, a, f, r, g, x), Waits(p) = {},
         ~p.locked, NEW then \in {"leave", "rename", "reread", "slips"}
  PROVE  PageInv(FlushFirst(p, then), a, f, r, g, x)
<1>1. p \in Page /\ p.deck \in Decks \cup {None}
  BY DEF PageInv, Page
<1>2. CASE p.results = <<>>
  <2>1. FlushFirst(p, then) = Onward(p, then, p.deck)
    BY <1>2 DEF FlushFirst
  <2> QED BY <1>1, <1>2, <2>1, OnwardGood
<1>3. CASE p.results # <<>>
  <2>1. PICK q : q = FlushResults(p, then)
    OBVIOUS
  <2>2. PICK c : c = [kind |-> "grade", deck |-> p.deck, results |-> p.results, then |-> then]
    OBVIOUS
  <2>3. SameButCalls(p, q) /\ q.shown = p.shown /\ q.calls = Append(p.calls, c)
    BY <1>1, <2>1, <2>2, FlushIs
  <2>4. BoardInv(q, r)
    BY <2>3 DEF PageInv, BoardInv, SameButCalls, Playing, CurrentCard
  <2>5. RoundInv(q, a, r, x) /\ ScreenInv(q, f, g, x) /\ Kept(q, a, f, g)
    BY <2>3 DEF PageInv, RoundInv, ScreenInv, Kept, Settled, Astray, SameButCalls, Playing
  <2>6. Pending(q, c, a, f, g)
    BY <2>2, <2>3 DEF Pending, SameButCalls
  <2>7. OneCall(q) /\ CallInv(q, a, f, g)
    BY <1>1, <2>3, <2>6, OneMore
  <2>8. FlushFirst(p, then) = q
    BY <1>3, <2>1 DEF FlushFirst
  <2> QED BY <2>3, <2>4, <2>5, <2>7, <2>8 DEF PageInv, SameButCalls
<1> QED BY <1>2, <1>3

\* What RemoveAt leaves of a sequence.
LEMMA RemoveAtIs ==
  ASSUME NEW S, NEW s \in Seq(S), NEW i \in DOMAIN s
  PROVE  /\ RemoveAt(s, i) \in Seq(S)
         /\ DOMAIN RemoveAt(s, i) = 1..(Len(s) - 1)
         /\ \A j \in 1..(Len(s) - 1) : RemoveAt(s, i)[j] = s[IF j < i THEN j ELSE j + 1]
<1>1. i \in 1..Len(s) /\ Len(s) \in Nat
  OBVIOUS
<1>2. PICK l : l = SubSeq(s, 1, i - 1)
  OBVIOUS
<1>3. PICK h : h = SubSeq(s, i + 1, Len(s))
  OBVIOUS
<1>4. l \in Seq(S) /\ Len(l) = i - 1 /\ \A j \in 1..(i - 1) : l[j] = s[j]
  BY <1>1, <1>2
<1>5. h \in Seq(S) /\ Len(h) = Len(s) - i /\ \A j \in 1..(Len(s) - i) : h[j] = s[j + i]
  BY <1>1, <1>3
<1>6. /\ l \o h \in Seq(S) /\ Len(l \o h) = Len(s) - 1
      /\ \A j \in 1..(Len(s) - 1) : (l \o h)[j] = IF j <= i - 1 THEN l[j] ELSE h[j - (i - 1)]
  <2>1. /\ l \o h \in Seq(S) /\ Len(l \o h) = Len(l) + Len(h)
        /\ \A j \in 1..(Len(l) + Len(h)) :
             (l \o h)[j] = IF j <= Len(l) THEN l[j] ELSE h[j - Len(l)]
    BY <1>4, <1>5
  <2>2. Len(l) = i - 1 /\ Len(l) + Len(h) = Len(s) - 1
    BY <1>1, <1>4, <1>5
  <2> QED BY <2>1, <2>2
<1>7. \A j \in 1..(Len(s) - 1) : (l \o h)[j] = s[IF j < i THEN j ELSE j + 1]
  <2> SUFFICES ASSUME NEW j \in 1..(Len(s) - 1)
               PROVE  (l \o h)[j] = s[IF j < i THEN j ELSE j + 1]
    OBVIOUS
  <2>1. CASE j < i
    BY <1>1, <1>4, <1>6, <2>1
  <2>2. CASE ~(j < i)
    <3>1. (l \o h)[j] = h[j - (i - 1)] /\ j - (i - 1) \in 1..(Len(s) - i)
      BY <1>1, <1>6, <2>2
    <3>2. PICK m \in 1..(Len(s) - i) : m = j - (i - 1)
      BY <3>1
    <3>3. h[m] = s[m + i] /\ m + i = j + 1
      BY <1>1, <1>5, <3>2
    <3> QED BY <2>2, <3>1, <3>2, <3>3
  <2> QED BY <2>1, <2>2
<1>8. RemoveAt(s, i) = l \o h
  BY <1>2, <1>3 DEF RemoveAt
<1>9. DOMAIN (l \o h) = 1..(Len(s) - 1)
  BY <1>6
<1> QED BY <1>6, <1>7, <1>8, <1>9

\* A call that has landed is gone; if it was waited for, nothing else is.
LEMMA LandedGood ==
  ASSUME NEW p, NEW a, NEW f, NEW r, NEW g, NEW x, PageInv(p, a, f, r, g, x),
         NEW i \in DOMAIN p.calls, NEW q, q = [p EXCEPT !.calls = RemoveAt(@, i)]
  PROVE  /\ PageInv(q, a, f, r, g, x) /\ SameButCalls(p, q) /\ q.shown = p.shown
         /\ p.calls[i].kind \notin Aside => Waits(q) = {}
<1>1. p \in Page /\ p.calls \in Seq(Call \cup Flush)
  BY DEF PageInv, Page
<1>2. PICK s : s = RemoveAt(p.calls, i)
  OBVIOUS
<1>3. /\ s \in Seq(Call \cup Flush) /\ DOMAIN s = 1..(Len(p.calls) - 1)
      /\ \A j \in 1..(Len(p.calls) - 1) : s[j] = p.calls[IF j < i THEN j ELSE j + 1]
      /\ i \in 1..Len(p.calls) /\ Len(p.calls) \in Nat /\ DOMAIN p.calls = 1..Len(p.calls)
  BY <1>1, <1>2, RemoveAtIs
<1>4. q.calls = s /\ SameButCalls(p, q) /\ q.shown = p.shown
  BY <1>1, <1>2, <1>3 DEF SameButCalls, Page
<1>5. DEFINE At(j) == IF j < i THEN j ELSE j + 1
<1>6. \A j \in Waits(q) : At(j) \in Waits(p) /\ At(j) # i /\ q.calls[j] = p.calls[At(j)]
                          /\ j \in Int
  BY <1>3, <1>4 DEF Waits
<1>7. \A j, k \in Int : At(j) = At(k) => j = k
  BY <1>3
<1>8. OneCall(q)
  BY <1>6, <1>7 DEF OneCall, PageInv
<1>9. p.calls[i].kind \notin Aside => Waits(q) = {}
  BY <1>6 DEF OneCall, PageInv, Waits
<1>10. Waits(p) = {} => Waits(q) = {}
  BY <1>6
<1>11. BoardInv(q, r)
  BY <1>4, <1>10 DEF PageInv, BoardInv, SameButCalls, Playing, CurrentCard
<1>12. RoundInv(q, a, r, x) /\ ScreenInv(q, f, g, x) /\ Kept(q, a, f, g)
  BY <1>4 DEF PageInv, RoundInv, ScreenInv, Kept, Settled, Astray, SameButCalls, Playing
<1>13. CallInv(q, a, f, g)
  <2> SUFFICES ASSUME NEW j \in Waits(q)
               PROVE  Pending(q, q.calls[j], a, f, g)
    BY DEF CallInv
  <2>1. PICK c : c = q.calls[j]
    OBVIOUS
  <2>2. Pending(p, c, a, f, g)
    BY <1>6, <2>1 DEF PageInv, CallInv
  <2>3. Pending(q, c, a, f, g)
    BY <1>4, <2>2 DEF Pending, SameButCalls, Playing, Settled
  <2> QED BY <2>1, <2>3
<1> QED BY <1>4, <1>8, <1>9, <1>11, <1>12, <1>13 DEF PageInv, SameButCalls

\* Panels without a way on may come and go, and the others may go.
LEMMA ShownGood ==
  ASSUME NEW p, NEW q, NEW a, NEW f, NEW r, NEW g, NEW x, PageInv(p, a, f, r, g, x),
         SameButShown(p, q), Playing(q) <=> Playing(p),
         q.shown \cap Screens \subseteq p.shown
  PROVE  PageInv(q, a, f, r, g, x) /\ Waits(q) = Waits(p)
<1>1. Waits(q) = Waits(p)
  BY DEF Waits, SameButShown
<1>2. BoardInv(q, r)
  <2>1. CurrentCard(q) = CurrentCard(p)
    BY DEF CurrentCard, SameButShown
  <2> QED BY <1>1, <2>1 DEF PageInv, BoardInv, SameButShown
<1>3. RoundInv(q, a, r, x) /\ Kept(q, a, f, g)
  BY DEF PageInv, RoundInv, Kept, SameButShown
<1>4. ScreenInv(q, f, g, x)
  <2>1. \A s \in Screens : s \in q.shown => s \in p.shown
    OBVIOUS
  <2>2. /\ q.shown \cap {"name", "decks", "intro"} # {} => p.shown \cap {"name", "decks", "intro"} # {}
        /\ q.shown \cap {"panel", "slips"} # {} => p.shown \cap {"panel", "slips"} # {}
        /\ "slips" \in q.shown => "slips" \in p.shown
        /\ {"panel", "slips"} \subseteq q.shown => {"panel", "slips"} \subseteq p.shown
    BY <2>1 DEF Screens
  <2> QED BY <2>2 DEF PageInv, ScreenInv, Settled, Astray, SameButShown
<1>5. OneCall(q)
  BY <1>1 DEF PageInv, OneCall
<1>6. CallInv(q, a, f, g)
  <2> SUFFICES ASSUME NEW i \in Waits(p)
               PROVE  Pending(q, p.calls[i], a, f, g)
    BY <1>1 DEF CallInv, SameButShown
  <2>1. Pending(p, p.calls[i], a, f, g)
    BY DEF PageInv, CallInv
  <2> QED BY <2>1 DEF Pending, SameButShown, Settled
<1> QED BY <1>1, <1>2, <1>3, <1>4, <1>5, <1>6 DEF PageInv, SameButShown

\* The panel at the end of a round, once its answers were sent.
LEMMA PanelGood ==
  ASSUME NEW p, NEW q, NEW a, NEW f, NEW r, NEW g, NEW x, PageInv(p, a, f, r, g, x),
         Waits(p) = {}, ~Playing(p), p.shown \cap Screens = {}, Settled(p, f, g),
         SameButShown(p, q), ~Playing(q), q.shown \cap Screens = {"panel"}
  PROVE  PageInv(q, a, f, r, g, x)
<1>1. BoardInv(q, r)
  BY DEF PageInv, BoardInv, SameButShown
<1>2. RoundInv(q, a, r, x) /\ Kept(q, a, f, g)
  BY DEF PageInv, RoundInv, Kept, SameButShown
<1>3. ScreenInv(q, f, g, x)
  BY DEF ScreenInv, SameButShown, Settled, Screens
<1>4. OneCall(q) /\ CallInv(q, a, f, g)
  BY NoCall DEF SameButShown
<1> QED BY <1>1, <1>2, <1>3, <1>4 DEF PageInv, SameButShown

\* finishEmpty and finishLocked.
LEMMA EndGood ==
  ASSUME NEW p, NEW a, NEW f, NEW r, NEW g, NEW x, PageInv(p, a, f, r, g, x),
         Waits(p) = {}, ~Playing(p), p.shown \cap Screens = {}, Settled(p, f, g)
  PROVE  PageInv(EndRound(p), a, f, r, g, x)
<1>1. p \in Page /\ p.drawn = None
  BY DEF PageInv, BoardInv
<1>2. PICK u : u = [p EXCEPT !.drawn = None, !.again = FALSE]
  OBVIOUS
<1>3. SameButShown(p, u) /\ u.shown = p.shown
  BY <1>1, <1>2 DEF SameButShown, Page
<1>4. PICK h : h = Hide(u, {"controls", "status"})
  OBVIOUS
<1>5. SameButShown(u, h) /\ h.shown = p.shown \ {"controls", "status"}
  BY <1>3, <1>4, ShowIs DEF SameButShown, Panels
<1>6. PICK s : s = Show(h, {"panel"})
  OBVIOUS
<1>7. SameButShown(h, s) /\ s.shown = h.shown \cup {"panel"}
  BY <1>5, <1>6, ShowIs DEF SameButShown, Panels
<1>8. SameButShown(p, s)
  BY <1>3, <1>5, <1>7 DEF SameButShown
<1>9. ~Playing(s) /\ s.shown \cap Screens = {"panel"}
  BY <1>5, <1>7 DEF Playing, Screens
<1>10. EndRound(p) = s
  BY <1>2, <1>4, <1>6 DEF EndRound
<1> QED BY <1>8, <1>9, <1>10, PanelGood

\* More may be filed or gone.
LEMMA GrowGood ==
  ASSUME NEW p, NEW a, NEW f, NEW r, NEW g, NEW x, PageInv(p, a, f, r, g, x),
         NEW e, NEW l, g \subseteq l,
         \A n \in DOMAIN a : f[n] # {} => e[n] # {}
  PROVE  PageInv(p, a, e, r, l, x)
<1>1. \A k \in DOMAIN p.results : p.results[k] \in DOMAIN a
  BY DEF PageInv, RoundInv
<1>2. Settled(p, f, g) => Settled(p, e, l)
  BY <1>1 DEF Settled
<1>3. ScreenInv(p, e, l, x) /\ Kept(p, a, e, l)
  BY <1>2 DEF PageInv, ScreenInv, Kept
<1>4. \A c : Pending(p, c, a, f, g) => Pending(p, c, a, e, l)
  BY <1>2 DEF Pending
<1>5. CallInv(p, a, e, l)
  BY <1>4 DEF PageInv, CallInv
<1> QED BY <1>3, <1>5 DEF PageInv

\* More may have crossed.
LEMMA CrossGood ==
  ASSUME NEW p, NEW a, NEW f, NEW r, NEW g, NEW x, PageInv(p, a, f, r, g, x),
         NEW y, x \subseteq y
  PROVE  PageInv(p, a, f, r, g, y)
<1>1. RoundInv(p, a, r, y)
  BY DEF PageInv, RoundInv
<1>2. ScreenInv(p, f, g, y)
  BY DEF PageInv, ScreenInv, Astray
<1> QED BY <1>1, <1>2 DEF PageInv

\* Every way on begins by covering the screen.
LEMMA OnwardHidden ==
  ASSUME NEW p \in Page, NEW then \in {"leave", "rename", "reread", "slips"},
         NEW d \in Decks \cup {None}
  PROVE  Onward(p, then, d) = Onward(HideEverything(p), then, d)
<1>1. HideEverything(HideEverything(p)) = HideEverything(p)
  BY DEF HideEverything, Page
<1> QED BY <1>1 DEF Onward, ShowShelf, ShowRename, ShowIntro, ShowSlips

\* The line is hidden and asked for; nobody waits for it.
LEMMA LineGood ==
  ASSUME NEW p, NEW a, NEW f, NEW r, NEW g, NEW x, PageInv(p, a, f, r, g, x), Waits(p) = {}
  PROVE  PageInv(AskForLine(p), a, f, r, g, x)
<1>1. PICK h : h = [p EXCEPT !.line = None]
  OBVIOUS
<1>2. p \in Page
  BY DEF PageInv
<1>3. SameButShown(p, h) /\ h.shown = p.shown
  BY <1>1, <1>2 DEF SameButShown, Page
<1>4. PageInv(h, a, f, r, g, x) /\ Waits(h) = {} /\ h \in Page
  BY <1>3, ShownGood DEF Playing, PageInv
<1>5. CASE p.deck = None
  BY <1>1, <1>4, <1>5 DEF AskForLine
<1>6. CASE p.deck # None
  <2>1. PICK c : c = [kind |-> "line", deck |-> p.deck]
    OBVIOUS
  <2>2. c \in Call \cup Flush
    BY <1>2, <2>1 DEF Call, Page
  <2>3. PICK q : q = Fetch(h, c)
    OBVIOUS
  <2>4. q \in Page /\ q = [h EXCEPT !.calls = Append(h.calls, c)] /\ q.calls = Append(h.calls, c)
    BY <1>4, <2>2, <2>3, FetchIs
  <2>5. SameButCalls(h, q) /\ q.shown = h.shown
    BY <1>4, <2>4 DEF SameButCalls, Page
  <2>6. Pending(q, c, a, f, g)
    BY <2>1 DEF Pending
  <2>7. OneCall(q) /\ CallInv(q, a, f, g)
    BY <1>4, <2>4, <2>6, OneMore
  <2>8. ~h.locked \/ Waits(q) = {}
    <3>1. c.kind \in Aside
      BY <2>1 DEF Aside
    <3>2. h.calls \in Seq(Call \cup Flush)
      BY <1>4 DEF Page
    <3>3. \A i \in DOMAIN q.calls : q.calls[i] = c \/ (i \in DOMAIN h.calls /\ q.calls[i] = h.calls[i])
      BY <2>4, <3>2
    <3> QED BY <1>4, <3>1, <3>3 DEF Waits
  <2>9. BoardInv(q, r)
    BY <1>4, <2>5, <2>8 DEF PageInv, BoardInv, SameButCalls, Playing, CurrentCard
  <2>10. RoundInv(q, a, r, x) /\ ScreenInv(q, f, g, x) /\ Kept(q, a, f, g)
    BY <1>4, <2>5 DEF PageInv, RoundInv, ScreenInv, Kept, Settled, Astray, SameButCalls, Playing
  <2>11. AskForLine(p) = q
    BY <1>1, <1>6, <2>1, <2>3 DEF AskForLine
  <2> QED BY <2>4, <2>7, <2>9, <2>10, <2>11 DEF PageInv
<1> QED BY <1>5, <1>6

\* The rest of the handler that flushed, once each answer it sent is filed or gone.
LEMMA AfterFlushGood ==
  ASSUME NEW a, NEW f, NEW r, NEW g, NEW x, NEW e, NEW l, NEW i, NEW offerAgain \in BOOLEAN,
         PageInv(page, a, f, r, g, x), i \in DOMAIN page.calls, page.calls[i].kind = "grade",
         g \subseteq l, \A n \in DOMAIN a : f[n] # {} => e[n] # {},
         Settled(page, e, l)
  PROVE  PageInv(AfterFlush(i, offerAgain), a, e, r, l, x)
<1>1. PageInv(page, a, e, r, l, x)
  BY GrowGood
<1>2. PICK c : c = page.calls[i]
  OBVIOUS
<1>3. i \in Waits(page) /\ Pending(page, c, a, e, l)
  BY <1>1, <1>2 DEF PageInv, CallInv, Waits, Aside
<1>4. c \in Flush
  BY <1>2 DEF PageInv, Page, Call
<1>5. PICK p : p = Landed(i)
  OBVIOUS
<1>6. PageInv(p, a, e, r, l, x) /\ SameButCalls(page, p) /\ p.shown = page.shown /\ Waits(p) = {}
  BY <1>1, <1>5, LandedGood DEF Landed, Aside
<1>7. p \in Page /\ Settled(p, e, l)
  BY <1>6 DEF PageInv, Settled, SameButCalls
<1>8. CASE c.then = "finish"
  <2>1. ~Playing(p) /\ p.shown \cap Screens = {}
    BY <1>2, <1>3, <1>6, <1>8 DEF Pending, Playing
  <2>2. PICK h : h = Hide(p, {"status"})
    OBVIOUS
  <2>3. SameButShown(p, h) /\ h.shown = p.shown \ {"status"}
    BY <1>7, <2>2, ShowIs DEF Panels
  <2>4. PICK s : s = Show(h, {"panel"})
    OBVIOUS
  <2>5. SameButShown(h, s) /\ s.shown = h.shown \cup {"panel"}
    BY <2>3, <2>4, ShowIs DEF SameButShown, Panels
  <2>6. PICK q : q = [s EXCEPT !.again = offerAgain]
    OBVIOUS
  <2>7. SameButShown(s, q) /\ q.shown = s.shown
    BY <2>5, <2>6 DEF SameButShown, Page
  <2>8. SameButShown(p, q)
    BY <2>3, <2>5, <2>7 DEF SameButShown
  <2>9. ~Playing(q) /\ q.shown \cap Screens = {"panel"}
    BY <2>1, <2>3, <2>5, <2>7 DEF Playing, Screens
  <2>10. PageInv(q, a, e, r, l, x) /\ Waits(q) = {}
    BY <1>6, <1>7, <2>1, <2>8, <2>9, PanelGood DEF SameButShown, Waits
  <2>11. AfterFlush(i, offerAgain) = AskForLine(q)
    BY <1>2, <1>5, <1>8, <2>2, <2>4, <2>6 DEF AfterFlush
  <2> QED BY <2>10, <2>11, LineGood
<1>9. CASE c.then # "finish"
  <2>1. c.then \in {"leave", "rename", "reread", "slips"} /\ c.deck \in Decks \cup {None}
    BY <1>4, <1>9 DEF Flush
  <2>2. PICK s : s = [p EXCEPT !.results = <<>>]
    OBVIOUS
  <2>3. /\ s \in Page /\ s.results = <<>> /\ s.calls = p.calls /\ s.cards = p.cards
        /\ s.deck = p.deck
    <3>1. <<>> \in Seq(Ids)
      OBVIOUS
    <3> QED BY <1>7, <2>2, <3>1 DEF Page
  <2>4. PICK h : h = HideEverything(s)
    OBVIOUS
  <2>5. Blank(s, h) /\ h.shown = {} /\ h.calls = p.calls /\ h.deck = p.deck
    BY <2>3, <2>4, HideIs
  <2>6. h \in Page /\ h.results = <<>> /\ h.cards = p.cards /\ h.drawn = None
        /\ ~h.locked /\ ~Playing(h)
    BY <2>3, <2>5 DEF Blank
  <2>7. BoardInv(h, r)
    BY <1>6, <2>6 DEF BoardInv, PageInv
  <2>8. RoundInv(h, a, r, x)
    BY <2>6 DEF RoundInv
  <2>9. ScreenInv(h, e, l, x)
    BY <2>5 DEF ScreenInv
  <2>10. Waits(h) = {} /\ OneCall(h) /\ CallInv(h, a, e, l)
    BY <1>6, <2>5, NoCall
  <2>11. Kept(h, a, e, l)
    BY <1>6, <1>7 DEF Kept, Settled, PageInv
  <2>12. PageInv(h, a, e, r, l, x)
    BY <2>6, <2>7, <2>8, <2>9, <2>10, <2>11 DEF PageInv
  <2>13. AfterFlush(i, offerAgain) = Onward(s, c.then, c.deck)
    BY <1>2, <1>5, <1>9, <2>2 DEF AfterFlush
  <2>14. Onward(s, c.then, c.deck) = Onward(h, c.then, c.deck)
    BY <2>1, <2>3, <2>4, OnwardHidden
  <2> QED BY <2>1, <2>6, <2>10, <2>12, <2>13, <2>14, OnwardGood
<1> QED BY <1>8, <1>9

-----------------------------------------------------------------------------
(* The steps of a learner who waits, and touches.                          *)

Good(p) == PageInv(p, answers, filed, rounds, gone, crossed)

\* The learner waits exactly if a call is pending that is waited for.
LEMMA WaitingIs == ~Waiting <=> Waits(page) = {}
BY DEF Waiting, Waits

\* A fresh page, for the history there is, if nothing is held by it alone.
LEMMA FreshGood ==
  ASSUME NEW a, NEW f, NEW r, NEW g, NEW x, a \in Seq(Answer),
         \A n \in DOMAIN a : n \in g \/ f[n] # {}
  PROVE  PageInv(Start, a, f, r, g, x)
<1>1. Fresh \in Page
  <2>1. /\ <<>> \in Seq(Card) /\ <<>> \in Seq(Ids) /\ <<>> \in Seq(Call \cup Flush)
    OBVIOUS
  <2>2. DrillOf[NounDeck] \in Drills
    BY ClientAssumption DEF Drills
  <2> QED BY <2>1, <2>2 DEF Fresh, Page
<1>2. /\ Fresh.shown = {} /\ Fresh.cards = <<>> /\ Fresh.results = <<>> /\ Fresh.calls = <<>>
      /\ Fresh.drawn = None /\ Fresh.locked = FALSE
  BY DEF Fresh
<1>3. Waits(Fresh) = {} /\ OneCall(Fresh) /\ CallInv(Fresh, a, f, g)
  BY <1>2 DEF Waits, OneCall, CallInv
<1>4. BoardInv(Fresh, r) /\ ScreenInv(Fresh, f, g, x)
  BY <1>2 DEF BoardInv, ScreenInv, Playing
<1>5. RoundInv(Fresh, a, r, x)
  <2>1. <<>> \in Seq(DOMAIN a)
    OBVIOUS
  <2> QED BY <1>2, <2>1 DEF RoundInv, Playing
<1>6. Kept(Fresh, a, f, g)
  BY DEF Kept
<1>7. PageInv(Fresh, a, f, r, g, x)
  BY <1>1, <1>3, <1>4, <1>5, <1>6 DEF PageInv
<1> QED BY <1>2, <1>3, <1>7, ShelfGood DEF Start

\* A press: the page waits for nothing, and no answer is being revealed.
LEMMA PressGood ==
  ASSUME IInv, NEW panel, NEW next, Press(panel, next), Good(next)
  PROVE  IInv'
<1>1. page' = next /\ UNCHANGED <<answers, filed, rounds, reloads, gone, crossed>>
  BY DEF Press, history
<1>2. AnswerInv'
  BY <1>1 DEF IInv, AnswerInv, FiledUnderItsDeck
<1> QED BY <1>1, <1>2 DEF IInv, Good

\* What a patient press finds.
LEMMA ReadyIs ==
  ASSUME Patient, IInv, Ready
  PROVE  Good(page) /\ Waits(page) = {} /\ ~page.locked /\ page \in Page
BY WaitingIs DEF Ready, IInv, Good, PageInv

\* A press that begins with a screen of the shelf, an introduction or a profile.
LEMMA ShelfSteps ==
  ASSUME Patient, IInv,
         \/ \E d \in Decks : OpenDeck(d) \/ ReadProfile(d)
         \/ StartFromIntro \/ CloseSlips
  PROVE  IInv'
<1>1. Ready
  BY DEF OpenDeck, ReadProfile, StartFromIntro, CloseSlips, Press
<1>2. Good(page) /\ Waits(page) = {} /\ page \in Page
  BY <1>1, ReadyIs
<1>3. ScreenInv(page, filed, gone, crossed) /\ RoundInv(page, answers, rounds, crossed)
  BY <1>2 DEF Good, PageInv
<1>4. page.results = <<>> => Settled(page, filed, gone) /\ Astray(page, crossed)
  BY DEF Settled, Astray
<1>5. page.book.deck \in Decks \cup {None} /\ page.book.from \in {"shelf", "deck"}
  BY <1>2 DEF Page
<1>6. ASSUME NEW d \in Decks, OpenDeck(d)
      PROVE  IInv'
  <2>1. page.results = <<>>
    BY <1>3, <1>6 DEF OpenDeck, Press, ScreenInv
  <2>2. Good(StartDeck(page, d)) /\ Good(ShowIntro(page, d))
    BY <1>2, <1>4, <2>1, StartGood, PlainGood DEF Good
  <2> QED BY <1>6, <2>2, PressGood DEF OpenDeck
<1>7. ASSUME NEW d \in Decks, ReadProfile(d)
      PROVE  IInv'
  <2>1. page.results = <<>>
    BY <1>3, <1>7 DEF ReadProfile, Press, ScreenInv
  <2>2. Good(ShowSlips(page, d, "shelf"))
    BY <1>2, <2>1, SlipsGood DEF Good
  <2> QED BY <1>7, <2>2, PressGood DEF ReadProfile
<1>8. CASE StartFromIntro
  <2>1. page.results = <<>>
    BY <1>3, <1>8 DEF StartFromIntro, Press, ScreenInv
  <2>2. Good(StartDeck(page, page.book.deck))
    BY <1>2, <1>4, <1>5, <2>1, StartGood DEF Good
  <2> QED BY <1>8, <2>2, PressGood DEF StartFromIntro
<1>9. CASE CloseSlips
  <2>1. "slips" \in page.shown
    BY <1>9 DEF CloseSlips, Press
  <2>2. /\ Settled(page, filed, gone)
        /\ \/ page.results = <<>>
           \/ page.book.from = "deck" /\ (page.book.deck = page.deck \/ Astray(page, crossed))
    BY <1>3, <2>1 DEF ScreenInv
  <2>3. CASE page.book.from = "deck"
    <3>1. Good(StartDeck(page, page.book.deck))
      BY <1>2, <1>4, <1>5, <2>2, StartGood DEF Good
    <3> QED BY <1>9, <2>3, <3>1, PressGood DEF CloseSlips
  <2>4. CASE page.book.from # "deck"
    <3>1. Good(ShowShelf(page))
      BY <1>2, <2>2, <2>4, ShelfGood DEF Good
    <3> QED BY <1>9, <2>4, <3>1, PressGood DEF CloseSlips
  <2> QED BY <2>3, <2>4
<1> QED BY <1>6, <1>7, <1>8, <1>9

\* A press in a round, or at its end, or about a name.
LEMMA RoundSteps ==
  ASSUME Patient, IInv,
         MoreSlips \/ Again \/ LeaveDeck \/ Reread \/ Slips
           \/ OpenRename \/ CancelRename \/ SubmitNickname
  PROVE  IInv'
<1>1. Ready
  BY DEF MoreSlips, Again, LeaveDeck, Reread, Slips, OpenRename, CancelRename,
         SubmitNickname, Press
<1>2. Good(page) /\ Waits(page) = {} /\ page \in Page /\ ~page.locked
  BY <1>1, ReadyIs
<1>3. ScreenInv(page, filed, gone, crossed) /\ BoardInv(page, rounds)
  BY <1>2 DEF Good, PageInv
<1>4. \A then \in {"leave", "rename", "reread", "slips"} : Good(FlushFirst(page, then))
  BY <1>2, FlushFirstGood DEF Good
<1>5. page.deck \in Decks \cup {None}
  BY <1>2 DEF Page
<1>6. CASE MoreSlips
  <2>1. /\ page' = ShowSlips(page, page.line, "deck") /\ crossed \subseteq crossed'
        /\ page.line = page.deck \/ crossed' = crossed \cup ToSet(page.results)
        /\ UNCHANGED <<answers, filed, rounds, reloads, gone>>
    BY <1>6 DEF MoreSlips
  <2>2. crossed' \subseteq Ids
    BY <1>2, <1>6 DEF MoreSlips, IInv, AnswerInv, Page, ToSet
  <2>3. page.line = page.deck \/ Astray(page, crossed')
    BY <2>1 DEF Astray, ToSet
  <2>4. Settled(page, filed, gone)
    BY <1>3, <1>6 DEF MoreSlips, ScreenInv
  <2>5. PageInv(page, answers, filed, rounds, gone, crossed')
    BY <1>2, <2>1, CrossGood DEF Good
  <2>6. page.line \in Decks \cup {None}
    BY <1>2 DEF Page
  <2>7. PageInv(ShowSlips(page, page.line, "deck"), answers, filed, rounds, gone, crossed')
    BY <1>2, <2>3, <2>4, <2>5, <2>6, SlipsGood
  <2>8. AnswerInv'
    BY <2>1, <2>2 DEF IInv, AnswerInv, FiledUnderItsDeck
  <2> QED BY <2>1, <2>7, <2>8 DEF IInv
<1>7. CASE Again
  <2>1. "panel" \in page.shown
    BY <1>7 DEF Again, Press
  <2>2. Settled(page, filed, gone) /\ "slips" \notin page.shown /\ ~Playing(page)
    BY <1>3, <2>1 DEF ScreenInv, BoardInv, Screens
  <2>3. Good(LoadBatch(page))
    BY <1>2, <2>2, LoadGood DEF Good
  <2> QED BY <1>7, <2>3, PressGood DEF Again
<1>8. CASE LeaveDeck
  BY <1>4, <1>8, PressGood DEF LeaveDeck
<1>9. CASE Reread
  BY <1>4, <1>9, PressGood DEF Reread
<1>10. CASE Slips
  BY <1>4, <1>10, PressGood DEF Slips
<1>11. CASE OpenRename
  <2>1. /\ page' = FlushFirst(page, "rename")
        /\ UNCHANGED <<answers, filed, rounds, reloads, gone, crossed>>
    BY <1>11 DEF OpenRename, history
  <2>2. AnswerInv'
    BY <2>1 DEF IInv, AnswerInv, FiledUnderItsDeck
  <2> QED BY <1>4, <2>1, <2>2 DEF IInv, Good
<1>12. CASE CancelRename
  <2>1. page.results = <<>>
    BY <1>3, <1>12 DEF CancelRename, Press, ScreenInv
  <2>2. PICK h : h = Hide(page, {"name"})
    OBVIOUS
  <2>3. SameButShown(page, h) /\ h.shown = page.shown \ {"name"}
    BY <1>2, <2>2, ShowIs DEF Panels
  <2>4. Good(h) /\ Waits(h) = {} /\ h.results = <<>>
    BY <1>2, <2>1, <2>3, ShownGood DEF Good, Playing, SameButShown
  <2>5. Good(ShowShelf(h))
    BY <2>4, ShelfGood DEF Good
  <2> QED BY <1>12, <2>2, <2>5, PressGood DEF CancelRename
<1>13. CASE SubmitNickname
  <2>1. page.results = <<>> /\ ~Playing(page)
    BY <1>3, <1>13 DEF SubmitNickname, Press, ScreenInv, BoardInv, Screens
  <2>2. PICK c : c = [kind |-> "nickname", deck |-> None]
    OBVIOUS
  <2>3. c \in Call \cup Flush
    BY <2>2 DEF Call
  <2>4. PICK q : q = Fetch(page, c)
    OBVIOUS
  <2>5. q \in Page /\ q = [page EXCEPT !.calls = Append(page.calls, c)]
        /\ q.calls = Append(page.calls, c)
    BY <1>2, <2>3, <2>4, FetchIs
  <2>6. SameButCalls(page, q) /\ q.shown = page.shown
    BY <1>2, <2>5 DEF SameButCalls, Page
  <2>7. Pending(q, c, answers, filed, gone)
    BY <2>1, <2>2, <2>6 DEF Pending, SameButCalls, Playing
  <2>8. OneCall(q) /\ CallInv(q, answers, filed, gone)
    BY <1>2, <2>5, <2>7, OneMore
  <2>9. BoardInv(q, rounds)
    BY <1>2, <1>3, <2>1, <2>6 DEF BoardInv, SameButCalls, Playing
  <2>10. /\ RoundInv(q, answers, rounds, crossed) /\ ScreenInv(q, filed, gone, crossed)
         /\ Kept(q, answers, filed, gone)
    BY <1>2, <2>6 DEF Good, PageInv, RoundInv, ScreenInv, Kept, Settled, Astray,
                          SameButCalls, Playing
  <2>11. Good(q)
    BY <2>5, <2>8, <2>9, <2>10 DEF Good, PageInv
  <2> QED BY <1>13, <2>2, <2>4, <2>11, PressGood DEF SubmitNickname
<1> QED BY <1>6, <1>7, <1>8, <1>9, <1>10, <1>11, <1>12, <1>13

\* A page that is opened anew: what the old one held is gone.
LEMMA NewPageStep ==
  ASSUME IInv, NewPage, reloads' \in 0..MaxReloads
  PROVE  IInv'
<1>1. page' = Start /\ gone' = gone \cup Held /\ UNCHANGED <<answers, filed, rounds, crossed>>
  BY DEF NewPage
<1>2. \A i \in DOMAIN page.calls : page.calls[i].kind = "grade" =>
        page.calls[i].results = page.results
  BY DEF IInv, PageInv, CallInv, Pending, Waits, Aside
<1>3. Held = ToSet(page.results)
  BY <1>2 DEF Held, ToSet
<1>4. ToSet(page.results) \subseteq Ids
  BY DEF IInv, PageInv, Page, ToSet
<1>5. \A n \in DOMAIN answers : n \in gone' \/ filed'[n] # {}
  BY <1>1, <1>3 DEF IInv, PageInv, Kept, ToSet
<1>6. AnswerInv'
  BY <1>1, <1>3, <1>4 DEF IInv, AnswerInv, FiledUnderItsDeck
<1>7. PageInv(Start, answers, filed, rounds, gone', crossed)
  BY <1>1, <1>5, FreshGood DEF IInv, AnswerInv
<1> QED BY <1>1, <1>6, <1>7 DEF IInv

\* An answer is to the current card of a round that is played: the buttons are shown
\* and the card is drawn during a round only.
LEMMA GiveStep ==
  ASSUME Patient, ~Keyboard, IInv, Give
  PROVE  IInv'
<1>1. PICK d \in Given(page) :
        answers' = Append(answers, [card |-> CurrentCard(page), drill |-> d])
  BY DEF Give
<1>2. /\ ~page.locked /\ Waits(page) = {} /\ Len(answers) < MaxAnswers
      /\ CurrentCard(page) # None /\ UNCHANGED <<filed, rounds, reloads, gone, crossed>>
      /\ page' = [page EXCEPT !.locked = TRUE, !.results = Append(@, Len(answers'))]
  BY WaitingIs DEF Give
<1>3. /\ page \in Page /\ BoardInv(page, rounds) /\ RoundInv(page, answers, rounds, crossed)
      /\ ScreenInv(page, filed, gone, crossed) /\ Kept(page, answers, filed, gone)
      /\ answers \in Seq(Answer)
  BY DEF IInv, AnswerInv, PageInv
<1>4. Playing(page) /\ d \in Drills
  <2>1. page.drill \in Drills
    BY <1>3 DEF Page
  <2>2. ActiveDrill(page) \in Drills
    BY <1>3, ClientAssumption DEF ActiveDrill, DeckOf, Drills, Page
  <2>3. "controls" \in page.shown \/ page.drawn # None
    BY DEF Given
  <2>4. Playing(page)
    BY <1>3, <2>3 DEF BoardInv, Playing
  <2>5. d \in {page.drill, ActiveDrill(page)}
    BY DEF Given
  <2> QED BY <2>1, <2>2, <2>4, <2>5
<1>5. PICK n : n = Len(answers) + 1
  OBVIOUS
<1>6. PICK x : x = [card |-> CurrentCard(page), drill |-> d]
  OBVIOUS
<1>7. page.index \in DOMAIN page.cards /\ CurrentCard(page) = page.cards[page.index]
      /\ CurrentCard(page) \in Card
  BY <1>3, <1>4 DEF BoardInv, CurrentCard, Page
<1>8. x \in Answer /\ x.card = page.cards[page.index] /\ x.card \in Card
  BY <1>4, <1>6, <1>7 DEF Answer
<1>9. /\ answers' \in Seq(Answer) /\ Len(answers') = n /\ answers'[n] = x
      /\ DOMAIN answers' = (DOMAIN answers) \cup {n} /\ n \notin DOMAIN answers
      /\ \A m \in DOMAIN answers : answers'[m] = answers[m]
      /\ n \in Ids /\ DOMAIN answers = 1..Len(answers)
  <2>1. answers' = Append(answers, x)
    BY <1>1, <1>6
  <2>2. Len(answers) \in Nat /\ DOMAIN answers = 1..Len(answers)
    BY <1>3
  <2>3. /\ answers' \in Seq(Answer) /\ Len(answers') = n /\ answers'[n] = x
        /\ DOMAIN answers' = 1..n
        /\ \A m \in DOMAIN answers : answers'[m] = answers[m]
    BY <1>3, <1>5, <1>8, <2>1, <2>2
  <2>4. DOMAIN answers' = (DOMAIN answers) \cup {n} /\ n \notin DOMAIN answers
    BY <1>5, <2>2, <2>3
  <2>5. n \in Ids
    BY <1>2, <1>5, <2>2, ClientAssumption DEF Ids
  <2> QED BY <2>2, <2>3, <2>4, <2>5
<1>10. page.results \in Seq(DOMAIN answers) /\ page.results \in Seq(Ids)
       /\ Len(page.results) \in Nat
  BY <1>3 DEF RoundInv, Page
<1>11. PICK s : s = Append(page.results, n)
  OBVIOUS
<1>12. /\ s \in Seq(DOMAIN answers') /\ s \in Seq(Ids) /\ Len(s) = Len(page.results) + 1
       /\ s[Len(page.results) + 1] = n /\ DOMAIN s = (DOMAIN page.results) \cup {Len(page.results) + 1}
       /\ \A k \in DOMAIN page.results : s[k] = page.results[k]
  <2>1. page.results \in Seq(DOMAIN answers')
    <3>1. \A k \in DOMAIN page.results : page.results[k] \in DOMAIN answers'
      BY <1>9, <1>10
    <3> QED BY <1>10, <3>1
  <2>2. n \in DOMAIN answers'
    BY <1>9
  <2>3. s \in Seq(DOMAIN answers') /\ s \in Seq(Ids)
    BY <1>9, <1>10, <1>11, <2>1, <2>2
  <2> QED BY <1>10, <1>11, <2>3
<1>13. PICK q : q = page'
  OBVIOUS
<1>14. /\ q \in Page /\ q.results = s /\ q.locked = TRUE /\ q.shown = page.shown
       /\ q.cards = page.cards /\ q.index = page.index /\ q.deck = page.deck
       /\ q.drawn = page.drawn /\ q.calls = page.calls /\ q.book = page.book
  <2>1. q = [page EXCEPT !.locked = TRUE, !.results = s]
    BY <1>2, <1>9, <1>11, <1>13
  <2> QED BY <1>3, <1>12, <2>1 DEF Page
<1>15. /\ Len(page.results) = page.index - 1 /\ page.index \in Nat
       /\ page.shown \cap Screens = {}
       /\ \A k \in DOMAIN page.cards :
            /\ page.cards[k].deck = DeckOf(page.deck)
            /\ page.cards[k].round = rounds /\ page.cards[k].pos = k
  BY <1>2, <1>3, <1>4 DEF BoardInv, RoundInv, Page
<1>16. Len(page.results) + 1 = page.index
  BY <1>15
<1>17. Waits(q) = {} /\ OneCall(q) /\ CallInv(q, answers', filed, gone)
  BY <1>2, <1>14, NoCall
<1>18. BoardInv(q, rounds)
  <2>1. CurrentCard(q) = CurrentCard(page) /\ (Playing(q) <=> Playing(page))
    BY <1>14 DEF CurrentCard, Playing
  <2> QED BY <1>3, <1>4, <1>14, <1>17, <2>1 DEF BoardInv
<1>19. ScreenInv(q, filed, gone, crossed)
  <2>1. q.shown \cap Screens = {}
    BY <1>14, <1>15
  <2> QED BY <2>1 DEF ScreenInv, Screens
<1>20. RoundInv(q, answers', rounds, crossed)
  <2>1. \A k \in DOMAIN page.results : page.results[k] \in DOMAIN answers
    BY <1>10
  <2>2. \A k \in DOMAIN s : answers'[s[k]].card =
          IF k \in DOMAIN page.results THEN answers[page.results[k]].card ELSE x.card
    BY <1>9, <1>10, <1>12, <2>1
  <2>3. \A k \in DOMAIN s : answers'[s[k]].card = page.cards[k]
    BY <1>3, <1>4, <1>8, <1>12, <1>16, <2>2 DEF RoundInv
  <2>4. \A k \in DOMAIN s :
          answers'[s[k]].card.deck = DeckOf(page.deck) \/ s[k] \in crossed
    <3>1. \A k \in DOMAIN page.results :
            \/ answers[page.results[k]].card.deck = DeckOf(page.deck)
            \/ page.results[k] \in crossed
      BY <1>3 DEF RoundInv
    <3>2. x.card.deck = DeckOf(page.deck)
      BY <1>7, <1>8, <1>15
    <3> SUFFICES ASSUME NEW k \in DOMAIN s
                 PROVE  answers'[s[k]].card.deck = DeckOf(page.deck) \/ s[k] \in crossed
      OBVIOUS
    <3>3. CASE k \in DOMAIN page.results
      BY <1>12, <2>2, <3>1, <3>3
    <3>4. CASE k \notin DOMAIN page.results
      BY <2>2, <3>2, <3>4
    <3> QED BY <3>3, <3>4
  <2>5. x.card.pos = page.index
    BY <1>7, <1>8, <1>15
  <2>6. \A m \in DOMAIN answers' :
          answers'[m].card.round = rounds => answers'[m].card.pos <= Len(s)
    <3> SUFFICES ASSUME NEW m \in DOMAIN answers', answers'[m].card.round = rounds
                 PROVE  answers'[m].card.pos <= Len(s)
      OBVIOUS
    <3>1. CASE m = n
      BY <1>9, <1>12, <1>15, <1>16, <2>5, <3>1
    <3>2. CASE m # n
      <4>1. m \in DOMAIN answers /\ answers'[m] = answers[m]
        BY <1>9, <3>2
      <4>2. answers[m].card.pos <= Len(page.results) /\ answers[m].card.pos \in Nat
        <5>1. answers[m] \in Answer
          BY <1>3, <4>1
        <5>2. answers[m].card.pos \in Nat
          BY <5>1 DEF Answer, Card
        <5>3. answers[m].card.round = rounds
          BY <3>2, <4>1
        <5> QED BY <1>3, <1>4, <4>1, <5>2, <5>3 DEF RoundInv
      <4> QED BY <1>10, <1>12, <4>1, <4>2
    <3> QED BY <3>1, <3>2
  <2>7. Len(s) = page.index
    BY <1>12, <1>16
  <2>8. s \in Seq(DOMAIN answers')
    BY <1>12
  <2> QED BY <1>14, <2>3, <2>4, <2>6, <2>7, <2>8 DEF RoundInv
<1>21. Kept(q, answers', filed, gone)
  <2> SUFFICES ASSUME NEW m \in DOMAIN answers'
               PROVE  (\E k \in DOMAIN s : s[k] = m) \/ m \in gone \/ filed[m] # {}
    BY <1>14 DEF Kept
  <2>1. CASE m = n
    BY <1>12, <2>1
  <2>2. CASE m # n
    BY <1>3, <1>9, <1>12, <2>2 DEF Kept
  <2> QED BY <2>1, <2>2
<1>22. PageInv(q, answers', filed, rounds, gone, crossed)
  BY <1>14, <1>17, <1>18, <1>19, <1>20, <1>21 DEF PageInv
<1>23. AnswerInv'
  <2>1. \A m \in DOMAIN answers : answers[m].card # x.card
    <3> SUFFICES ASSUME NEW m \in DOMAIN answers, answers[m].card = x.card
                 PROVE  FALSE
      OBVIOUS
    <3>1. answers[m].card.round = rounds /\ answers[m].card.pos = page.index
      BY <1>7, <1>8, <1>15
    <3>2. page.index <= Len(page.results)
      BY <1>3, <1>4, <3>1 DEF RoundInv
    <3> QED BY <1>15, <3>2
  <2>2. \A k, m \in DOMAIN answers' : answers'[k].card = answers'[m].card => k = m
    BY <1>9, <2>1 DEF IInv, AnswerInv
  <2>3. rounds \in Nat
    BY DEF IInv, AnswerInv
  <2>4. \A m \in DOMAIN answers' : answers'[m].card.round <= rounds
    BY <1>7, <1>8, <1>9, <1>15, <2>3 DEF IInv, AnswerInv
  <2>5. \A m \in Ids \ DOMAIN answers' : filed[m] = {}
    BY <1>9 DEF IInv, AnswerInv
  <2>6. filed[n] = {}
    BY <1>9 DEF IInv, AnswerInv
  <2>7. \A m \in DOMAIN answers' :
          m \notin crossed => filed[m] \subseteq {answers'[m].card.deck}
    <3>1. \A m \in DOMAIN answers :
            m \notin crossed => filed[m] \subseteq {answers[m].card.deck}
      BY DEF IInv, AnswerInv, FiledUnderItsDeck
    <3> QED BY <1>9, <2>6, <3>1
  <2>8. Len(answers') <= MaxAnswers
    BY <1>2, <1>3, <1>5, <1>9, ClientAssumption
  <2> QED BY <1>2, <1>9, <2>2, <2>4, <2>5, <2>7, <2>8 DEF IInv, AnswerInv, FiledUnderItsDeck
<1> QED BY <1>2, <1>13, <1>22, <1>23 DEF IInv

\* After a reveal the next card is drawn, or the round is sent, answered whole.
LEMMA AdvanceStep ==
  ASSUME IInv, Advance
  PROVE  IInv'
<1>1. PICK x : x = [page EXCEPT !.locked = FALSE, !.index = @ + 1]
  OBVIOUS
<1>2. /\ page.locked /\ UNCHANGED <<answers, filed, rounds, reloads, gone, crossed>>
      /\ page' = IF CurrentCard(x) = None THEN FinishBatch(x) ELSE RenderStack(x)
  BY <1>1 DEF Advance, history
<1>3. /\ page \in Page /\ BoardInv(page, rounds) /\ RoundInv(page, answers, rounds, crossed)
      /\ ScreenInv(page, filed, gone, crossed) /\ Kept(page, answers, filed, gone)
  BY DEF IInv, PageInv
<1>4. Playing(page) /\ Waits(page) = {} /\ page.index \in DOMAIN page.cards
      /\ page.shown \cap Screens = {} /\ Len(page.results) = page.index
  BY <1>2, <1>3 DEF BoardInv, RoundInv
<1>5. /\ x \in Page /\ x.index = page.index + 1 /\ ~x.locked /\ x.shown = page.shown
      /\ x.cards = page.cards /\ x.results = page.results /\ x.deck = page.deck
      /\ x.calls = page.calls /\ x.book = page.book
  <2>1. page.index + 1 \in Nat
    BY <1>3 DEF Page
  <2>2. x = [page EXCEPT !.locked = FALSE, !.index = page.index + 1]
    BY <1>1
  <2> QED BY <1>3, <2>1, <2>2 DEF Page
<1>6. page.cards \in Seq(Card) /\ page.index \in Nat /\ Len(page.cards) \in Nat
      /\ DOMAIN page.cards = 1..Len(page.cards)
  BY <1>3 DEF Page
<1>7. AnswerInv'
  BY <1>2 DEF IInv, AnswerInv, FiledUnderItsDeck
<1>8. SUFFICES Good(page')
  BY <1>2, <1>7 DEF IInv, Good
<1>9. CASE x.index <= Len(x.cards)
  <2>1. CurrentCard(x) = page.cards[page.index + 1] /\ CurrentCard(x) \in Card
        /\ page.index + 1 \in DOMAIN page.cards
    BY <1>5, <1>6, <1>9 DEF CurrentCard
  <2>2. PICK q : q = RenderStack(x)
    OBVIOUS
  <2>3. q = [x EXCEPT !.drawn = CurrentCard(x)]
    BY <2>2 DEF RenderStack
  <2>4. /\ q \in Page /\ q.drawn = CurrentCard(x) /\ q.index = page.index + 1 /\ ~q.locked
        /\ q.shown = page.shown /\ q.cards = page.cards /\ q.results = page.results
        /\ q.deck = page.deck /\ q.calls = page.calls /\ q.book = page.book
    BY <1>5, <2>1, <2>3 DEF Page
  <2>5. CurrentCard(q) = CurrentCard(x) /\ Playing(q)
    BY <1>4, <1>5, <2>4 DEF CurrentCard, Playing
  <2>6. BoardInv(q, rounds)
    BY <1>3, <1>4, <2>1, <2>4, <2>5 DEF BoardInv
  <2>7. RoundInv(q, answers, rounds, crossed)
    BY <1>3, <1>4, <1>6, <2>4 DEF RoundInv
  <2>8. ScreenInv(q, filed, gone, crossed) /\ Kept(q, answers, filed, gone)
    BY <1>3, <2>4 DEF ScreenInv, Kept, Settled, Astray
  <2>9. OneCall(q) /\ CallInv(q, answers, filed, gone)
    BY <1>4, <2>4, NoCall
  <2>10. page' = q
    BY <1>2, <2>1, <2>2, NoneAssumption
  <2> QED BY <2>4, <2>6, <2>7, <2>8, <2>9, <2>10 DEF Good, PageInv
<1>10. CASE ~(x.index <= Len(x.cards))
  <2>1. CurrentCard(x) = None /\ page.index = Len(page.cards)
    BY <1>4, <1>5, <1>6, <1>10 DEF CurrentCard
  <2>2. PICK u : u = [x EXCEPT !.drawn = None]
    OBVIOUS
  <2>3. /\ u \in Page /\ u.drawn = None /\ u.index = x.index /\ ~u.locked
        /\ u.shown = page.shown /\ u.cards = page.cards /\ u.results = page.results
        /\ u.deck = page.deck /\ u.calls = page.calls /\ u.book = page.book
    BY <1>5, <2>2 DEF Page
  <2>4. PICK h : h = Hide(u, {"controls"})
    OBVIOUS
  <2>5. SameButShown(u, h) /\ h.shown = page.shown \ {"controls"}
    BY <2>3, <2>4, ShowIs DEF Panels
  <2>6. PICK s : s = Show(h, {"status"})
    OBVIOUS
  <2>7. SameButShown(h, s) /\ s.shown = h.shown \cup {"status"}
    BY <2>5, <2>6, ShowIs DEF SameButShown, Panels
  <2>8. SameButShown(u, s) /\ ~Playing(s) /\ s.shown \cap Screens = {}
    BY <1>4, <2>5, <2>7 DEF SameButShown, Playing, Screens
  <2>9. PICK q : q = FlushResults(s, "finish")
    OBVIOUS
  <2>10. PICK c : c = [kind |-> "grade", deck |-> s.deck, results |-> s.results,
                       then |-> "finish"]
    OBVIOUS
  <2>11. SameButCalls(s, q) /\ q.shown = s.shown /\ q.calls = Append(s.calls, c)
    BY <2>8, <2>9, <2>10, FlushIs DEF SameButShown
  <2>12. /\ q \in Page /\ q.drawn = None /\ ~q.locked /\ ~Playing(q)
         /\ q.shown \cap Screens = {} /\ q.cards = page.cards /\ q.results = page.results
         /\ q.deck = page.deck /\ q.calls = Append(page.calls, c)
         /\ c.deck = page.deck /\ c.results = page.results
    BY <2>3, <2>8, <2>10, <2>11 DEF SameButShown, SameButCalls, Playing
  <2>13. BoardInv(q, rounds)
    BY <1>3, <2>12 DEF BoardInv
  <2>14. RoundInv(q, answers, rounds, crossed) /\ Kept(q, answers, filed, gone)
    BY <1>3, <2>12 DEF RoundInv, Kept
  <2>15. ScreenInv(q, filed, gone, crossed)
    BY <2>12 DEF ScreenInv, Screens
  <2>16. [k \in DOMAIN page.results |-> answers[page.results[k]].card] = page.cards
    <3>1. page.results \in Seq(DOMAIN answers)
      BY <1>3 DEF RoundInv
    <3>2. DOMAIN page.results = DOMAIN page.cards
      BY <1>4, <1>6, <2>1, <3>1
    <3>3. \A k \in DOMAIN page.results : answers[page.results[k]].card = page.cards[k]
      BY <1>3, <1>4 DEF RoundInv
    <3> QED BY <1>6, <3>2, <3>3
  <2>17. Pending(q, c, answers, filed, gone)
    BY <2>10, <2>12, <2>16 DEF Pending
  <2>18. OneCall(q) /\ CallInv(q, answers, filed, gone)
    BY <1>3, <1>4, <2>12, <2>17, OneMore
  <2>19. FinishBatch(x) = q
    BY <2>2, <2>4, <2>6, <2>9 DEF FinishBatch
  <2>20. page' = q
    BY <1>2, <2>1, <2>19
  <2> QED BY <2>12, <2>13, <2>14, <2>15, <2>18, <2>20 DEF Good, PageInv
<1> QED BY <1>9, <1>10

-----------------------------------------------------------------------------
(* The answers to requests.                                                *)

\* A call that is waited for: what the page is, and what it is without the call.
LEMMA ArrivalIs ==
  ASSUME IInv, NEW i, Arrives(i, page.calls[i].kind), page.calls[i].kind \notin Aside
  PROVE  /\ i \in DOMAIN page.calls /\ Pending(page, page.calls[i], answers, filed, gone)
         /\ Good(Landed(i)) /\ Waits(Landed(i)) = {} /\ Landed(i) \in Page
         /\ SameButCalls(page, Landed(i)) /\ Landed(i).shown = page.shown
<1>1. i \in DOMAIN page.calls /\ i \in Waits(page)
  BY DEF Arrives, Waits
<1>2. Pending(page, page.calls[i], answers, filed, gone)
  BY <1>1 DEF IInv, PageInv, CallInv
<1>3. PICK q : q = Landed(i)
  OBVIOUS
<1>4. Good(q) /\ Waits(q) = {} /\ SameButCalls(page, q) /\ q.shown = page.shown
  BY <1>1, <1>3, LandedGood DEF IInv, Good, Landed
<1> QED BY <1>1, <1>2, <1>3, <1>4 DEF Good, PageInv

\* An answer that changes nothing but the page.
LEMMA ArriveGood ==
  ASSUME IInv, NEW i, NEW kind, NEW next, Arrive(i, kind, next), Good(next)
  PROVE  IInv'
<1>1. page' = next /\ UNCHANGED <<answers, filed, rounds, reloads, gone, crossed>>
  BY DEF Arrive, history
<1>2. AnswerInv'
  BY <1>1 DEF IInv, AnswerInv, FiledUnderItsDeck
<1> QED BY <1>1, <1>2 DEF IInv, Good

\* The shelf, the slips, the name, and what refuses or fails.
LEMMA PlainArrivals ==
  ASSUME IInv, NEW i,
         \/ DecksArrive(i) \/ BatchRefused(i) \/ NicknameArrives(i)
         \/ SlipsArrive(i) \/ LineArrives(i)
         \/ SessionExpired(i) \/ CallFails(i)
  PROVE  IInv'
<1>1. CASE DecksArrive(i)
  <2>1. Arrives(i, "decks") /\ page.calls[i].kind = "decks"
    BY <1>1 DEF DecksArrive, Arrive, Arrives
  <2>2. PICK p : p = Landed(i)
    OBVIOUS
  <2>3. /\ Good(p) /\ Waits(p) = {} /\ p \in Page /\ SameButCalls(page, p)
        /\ p.shown = page.shown /\ ~Playing(page) /\ page.results = <<>>
    BY <2>1, <2>2, ArrivalIs DEF Pending, Aside
  <2>4. PICK h : h = Hide(p, {"status"})
    OBVIOUS
  <2>5. SameButShown(p, h) /\ h.shown = p.shown \ {"status"}
    BY <2>3, <2>4, ShowIs DEF Panels
  <2>6. PICK q : q = Show(h, {"decks"})
    OBVIOUS
  <2>7. SameButShown(h, q) /\ q.shown = h.shown \cup {"decks"}
    BY <2>5, <2>6, ShowIs DEF SameButShown, Panels
  <2>8. SameButShown(p, q) /\ ~Playing(q) /\ ~Playing(p) /\ p.results = <<>>
    BY <2>3, <2>5, <2>7 DEF SameButShown, SameButCalls, Playing
  <2>9. BoardInv(q, rounds)
    BY <2>3, <2>8 DEF Good, PageInv, BoardInv, SameButShown
  <2>10. RoundInv(q, answers, rounds, crossed) /\ Kept(q, answers, filed, gone)
    BY <2>3, <2>8 DEF Good, PageInv, RoundInv, Kept, SameButShown
  <2>11. ScreenInv(q, filed, gone, crossed)
    <3>1. q.results = <<>> /\ Settled(q, filed, gone)
      BY <2>8 DEF SameButShown, Settled
    <3>2. ~({"panel", "slips"} \subseteq q.shown)
      BY <2>3, <2>5, <2>7 DEF Good, PageInv, ScreenInv
    <3> QED BY <3>1, <3>2 DEF ScreenInv
  <2>12. OneCall(q) /\ CallInv(q, answers, filed, gone)
    BY <2>3, <2>8, NoCall DEF SameButShown
  <2>13. Good(q)
    BY <2>8, <2>9, <2>10, <2>11, <2>12 DEF Good, PageInv, SameButShown
  <2>14. Arrive(i, "decks", q)
    BY <1>1, <2>2, <2>4, <2>6 DEF DecksArrive
  <2> QED BY <2>13, <2>14, ArriveGood
<1>2. CASE BatchRefused(i)
  <2>1. Arrives(i, "batch") /\ page.calls[i].kind = "batch"
    BY <1>2 DEF BatchRefused, Arrives
  <2>2. PICK p : p = Landed(i)
    OBVIOUS
  <2>3. /\ Good(p) /\ Waits(p) = {} /\ SameButCalls(page, p) /\ p.shown = page.shown
        /\ ~Playing(page) /\ page.shown \cap Screens = {} /\ Settled(page, filed, gone)
    BY <2>1, <2>2, ArrivalIs DEF Pending, Aside
  <2>4. Good(EndRound(p))
    BY <2>3, EndGood DEF Good, SameButCalls, Settled, Playing
  <2> QED BY <1>2, <2>2, <2>4, ArriveGood DEF BatchRefused
<1>3. CASE SlipsArrive(i)
  <2>1. Good(Landed(i))
    BY <1>3, LandedGood DEF SlipsArrive, Arrive, Arrives, IInv, Good, Landed
  <2> QED BY <1>3, <2>1, ArriveGood DEF SlipsArrive
<1>4. CASE NicknameArrives(i)
  <2>1. Arrives(i, "nickname") /\ page.calls[i].kind = "nickname"
    BY <1>4 DEF NicknameArrives, Arrive, Arrives
  <2>2. PICK p : p = Landed(i)
    OBVIOUS
  <2>3. /\ Good(p) /\ Waits(p) = {} /\ p \in Page /\ SameButCalls(page, p)
        /\ page.results = <<>>
    BY <2>1, <2>2, ArrivalIs DEF Pending, Aside
  <2>4. PICK h : h = Hide(p, {"name"})
    OBVIOUS
  <2>5. SameButShown(p, h) /\ h.shown = p.shown \ {"name"}
    BY <2>3, <2>4, ShowIs DEF Panels
  <2>6. Good(h) /\ Waits(h) = {} /\ h.results = <<>>
    BY <2>3, <2>5, ShownGood DEF Good, Playing, SameButShown, SameButCalls
  <2>7. Good(ShowShelf(h))
    BY <2>6, ShelfGood DEF Good
  <2> QED BY <1>4, <2>2, <2>3, <2>4, <2>7, ArriveGood DEF NicknameArrives
<1>5. CASE SessionExpired(i)
  <2>1. PICK kind : Arrive(i, kind, ShowSignIn(Landed(i)))
    BY <1>5 DEF SessionExpired
  <2>2. Good(Landed(i))
    BY <2>1, LandedGood DEF Arrive, Arrives, IInv, Good, Landed
  <2>3. Good(ShowSignIn(Landed(i)))
    BY <2>2, SignInGood DEF Good
  <2> QED BY <2>1, <2>3, ArriveGood
<1>6. CASE CallFails(i)
  <2>1. PICK kind : Arrive(i, kind, Show(Landed(i), {"status"}))
    BY <1>6 DEF CallFails
  <2>2. PICK p : p = Landed(i)
    OBVIOUS
  <2>3. Good(p) /\ p \in Page
    BY <2>1, <2>2, LandedGood DEF Arrive, Arrives, IInv, Good, Landed, PageInv
  <2>4. PICK q : q = Show(p, {"status"})
    OBVIOUS
  <2>5. SameButShown(p, q) /\ q.shown = p.shown \cup {"status"}
    BY <2>3, <2>4, ShowIs DEF Panels
  <2>6. Good(q)
    BY <2>3, <2>5, ShownGood DEF Good, Playing, Screens
  <2> QED BY <2>1, <2>2, <2>4, <2>6, ArriveGood
<1>7. CASE LineArrives(i)
  <2>1. PICK l : l = Landed(i)
    OBVIOUS
  <2>2. /\ i \in DOMAIN page.calls /\ page.calls[i].kind = "line"
        /\ page.calls[i] \in Call \cup Flush
    BY <1>7 DEF LineArrives, Arrive, Arrives, IInv, PageInv, Page
  <2>3. Good(l) /\ l \in Page
    BY <2>1, <2>2, LandedGood DEF IInv, Good, Landed, PageInv
  <2>4. page.calls[i].deck \in Decks \cup {None}
    BY <2>2 DEF Call, Flush
  <2>5. PICK q : q = [l EXCEPT !.line = page.calls[i].deck]
    OBVIOUS
  <2>6. SameButShown(l, q) /\ q.shown = l.shown
    BY <2>4, <2>5, <2>3 DEF SameButShown, Page
  <2>7. Good(q)
    BY <2>6, <2>3, ShownGood DEF Good, Playing
  <2> QED BY <1>7, <2>1, <2>5, <2>7, <2>3, ArriveGood DEF LineArrives
<1> QED BY <1>1, <1>2, <1>3, <1>4, <1>5, <1>6, <1>7

\* The cards of a batch.
LEMMA DealIs ==
  ASSUME NEW b \in Seq(Items), NEW d \in Decks, NEW r \in Nat, b = <<>> \/ r \in 1..MaxRounds
  PROVE  /\ Deal(b, d, r) \in Seq(Card) /\ DOMAIN Deal(b, d, r) = 1..Len(b)
         /\ \A k \in DOMAIN Deal(b, d, r) :
              /\ Deal(b, d, r)[k].round = r /\ Deal(b, d, r)[k].pos = k
              /\ Deal(b, d, r)[k].deck = d
<1>1. DOMAIN b = 1..Len(b) /\ Len(b) \in Nat
  OBVIOUS
<1>2. \A k \in DOMAIN b : [deck |-> d, item |-> b[k], round |-> r, pos |-> k] \in Card
  BY <1>1 DEF Card
<1>3. PICK s : s = Deal(b, d, r)
  OBVIOUS
<1>4. s = [k \in 1..Len(b) |-> [deck |-> d, item |-> b[k], round |-> r, pos |-> k]]
  BY <1>1, <1>3 DEF Deal
<1>5. s \in Seq(Card) /\ DOMAIN s = 1..Len(b)
  BY <1>1, <1>2, <1>4
<1>6. \A k \in DOMAIN s : s[k].round = r /\ s[k].pos = k /\ s[k].deck = d
  BY <1>4, <1>5
<1> QED BY <1>3, <1>5, <1>6

\* A batch arrives on a page that waits for nothing else, and whose answers were
\* sent: it is a new round, of the deck that is open, or the end of it.
LEMMA BatchStep ==
  ASSUME IInv, NEW i, BatchArrives(i)
  PROVE  IInv'
<1>1. Arrives(i, "batch") /\ page.calls[i].kind = "batch"
      /\ UNCHANGED <<answers, filed, reloads, gone, crossed>>
  BY DEF BatchArrives, Arrives
<1>2. PICK l : l = Landed(i)
  OBVIOUS
<1>3. /\ Good(l) /\ Waits(l) = {} /\ l \in Page /\ SameButCalls(page, l)
      /\ l.shown = page.shown /\ page.calls[i].deck = page.deck
      /\ ~Playing(page) /\ page.shown \cap Screens = {} /\ Settled(page, filed, gone)
  BY <1>1, <1>2, ArrivalIs DEF Pending, Aside
<1>4. ~Playing(l) /\ l.shown \cap Screens = {} /\ Settled(l, filed, gone)
      /\ l.deck = page.calls[i].deck
  BY <1>3 DEF SameButCalls, Playing, Settled
<1>5. PICK b \in IF rounds < MaxRounds THEN Batches ELSE {<<>>} :
        LET p == [l EXCEPT !.index = 1, !.results = <<>>,
                    !.cards = Deal(b, DeckOf(page.calls[i].deck), rounds + 1)]
        IN  IF b = <<>> THEN page' = EndRound(p) /\ UNCHANGED rounds
            ELSE /\ page' = RenderStack([Show(Hide(p, {"status"}), {"controls"})
                                           EXCEPT !.drill = ActiveDrill(p)])
                 /\ rounds' = rounds + 1
  BY <1>2 DEF BatchArrives
<1>6. PICK d : d = DeckOf(page.calls[i].deck)
  OBVIOUS
<1>7. d \in Decks /\ d = DeckOf(l.deck)
  BY <1>3, <1>4, <1>6, ClientAssumption DEF DeckOf, Page
<1>8. /\ rounds \in 0..MaxRounds /\ b \in Seq(Items) /\ rounds \in Nat
      /\ b = <<>> \/ rounds + 1 \in 1..MaxRounds
  <2>1. <<>> \in Seq(Items)
    OBVIOUS
  <2>2. rounds \in 0..MaxRounds /\ MaxRounds \in Nat
    BY ClientAssumption DEF IInv, AnswerInv
  <2>3. b \in Seq(Items) /\ (b = <<>> \/ rounds < MaxRounds)
    BY <1>5, <2>1, BatchAssumption
  <2> QED BY <2>2, <2>3
<1>9. PICK s : s = Deal(b, d, rounds + 1)
  OBVIOUS
<1>10. /\ s \in Seq(Card) /\ DOMAIN s = 1..Len(b)
       /\ \A k \in DOMAIN s : s[k].round = rounds + 1 /\ s[k].pos = k /\ s[k].deck = d
  BY <1>7, <1>8, <1>9, DealIs
<1>11. PICK p : p = [l EXCEPT !.index = 1, !.results = <<>>, !.cards = s]
  OBVIOUS
<1>12. IF b = <<>> THEN page' = EndRound(p) /\ UNCHANGED rounds
       ELSE /\ page' = RenderStack([Show(Hide(p, {"status"}), {"controls"})
                                      EXCEPT !.drill = ActiveDrill(p)])
            /\ rounds' = rounds + 1
  BY <1>5, <1>6, <1>9, <1>11
<1>13. /\ p \in Page /\ p.index = 1 /\ p.results = <<>> /\ p.cards = s /\ p.deck = l.deck
       /\ p.drawn = l.drawn /\ p.locked = l.locked /\ p.shown = l.shown
       /\ p.calls = l.calls /\ p.book = l.book
  <2>1. <<>> \in Seq(Ids)
    OBVIOUS
  <2> QED BY <1>3, <1>10, <1>11, <2>1 DEF Page
<1>14. ~Playing(p) /\ l.drawn = None /\ ~l.locked
  BY <1>3, <1>4, <1>13 DEF Playing, Good, PageInv, BoardInv
<1>15. Settled(p, filed, gone)
  BY <1>13 DEF Settled
<1>16. \A q : q.results = <<>> => Kept(q, answers, filed, gone)
  BY <1>3, <1>4 DEF Kept, Settled, Good, PageInv
<1>17. <<>> \in Seq(DOMAIN answers)
  OBVIOUS
<1>18. CASE b = <<>>
  <2>1. page' = EndRound(p) /\ rounds' = rounds
    BY <1>12, <1>18
  <2>2. s = <<>>
    BY <1>10, <1>18
  <2>3. BoardInv(p, rounds)
    BY <1>13, <1>14, <2>2 DEF BoardInv
  <2>4. RoundInv(p, answers, rounds, crossed)
    BY <1>13, <1>14, <1>17 DEF RoundInv
  <2>5. ScreenInv(p, filed, gone, crossed) /\ p.shown \cap Screens = {}
    BY <1>4, <1>13 DEF ScreenInv, Screens
  <2>6. Waits(p) = {} /\ OneCall(p) /\ CallInv(p, answers, filed, gone)
    BY <1>3, <1>13, NoCall
  <2>7. PageInv(p, answers, filed, rounds, gone, crossed)
    BY <1>13, <1>16, <2>3, <2>4, <2>5, <2>6 DEF PageInv
  <2>8. Good(EndRound(p))
    BY <1>14, <1>15, <2>5, <2>6, <2>7, EndGood DEF Good
  <2>9. AnswerInv'
    BY <1>1, <2>1 DEF IInv, AnswerInv, FiledUnderItsDeck
  <2> QED BY <1>1, <2>1, <2>8, <2>9 DEF IInv, Good
<1>19. CASE b # <<>>
  <2>1. PICK h : h = Hide(p, {"status"})
    OBVIOUS
  <2>2. SameButShown(p, h) /\ h.shown = l.shown \ {"status"}
    BY <1>13, <2>1, ShowIs DEF Panels
  <2>3. PICK u : u = Show(h, {"controls"})
    OBVIOUS
  <2>4. SameButShown(h, u) /\ u.shown = h.shown \cup {"controls"}
    BY <2>2, <2>3, ShowIs DEF SameButShown, Panels
  <2>5. ActiveDrill(p) \in Drills
    BY <1>13, ClientAssumption DEF ActiveDrill, DeckOf, Drills, Page
  <2>6. PICK v : v = [u EXCEPT !.drill = ActiveDrill(p)]
    OBVIOUS
  <2>7. /\ v \in Page /\ v.index = 1 /\ v.results = <<>> /\ v.cards = s /\ v.deck = l.deck
        /\ ~v.locked /\ v.shown = u.shown /\ v.calls = l.calls /\ v.book = l.book
    BY <1>13, <1>14, <2>2, <2>4, <2>5, <2>6 DEF SameButShown, Page
  <2>8. 1 \in DOMAIN s /\ 1 <= Len(s) /\ s[1] \in Card
    BY <1>8, <1>10, <1>19
  <2>9. PICK q : q = RenderStack(v)
    OBVIOUS
  <2>10. CurrentCard(v) = s[1]
    BY <2>7, <2>8 DEF CurrentCard
  <2>11. /\ q \in Page /\ q.index = 1 /\ q.results = <<>> /\ q.cards = s /\ q.deck = l.deck
         /\ ~q.locked /\ q.shown = u.shown /\ q.calls = l.calls /\ q.book = l.book
         /\ q.drawn = s[1]
    BY <2>7, <2>8, <2>9, <2>10 DEF RenderStack, Page
  <2>12. Playing(q) /\ q.shown \cap Screens = {}
    BY <1>4, <2>2, <2>4, <2>11 DEF Playing, Screens
  <2>13. CurrentCard(q) = s[1]
    BY <2>8, <2>11 DEF CurrentCard
  <2>14. BoardInv(q, rounds + 1)
    BY <1>7, <1>10, <2>8, <2>11, <2>12, <2>13 DEF BoardInv
  <2>15. RoundInv(q, answers, rounds + 1, crossed)
    <3>1. \A n \in DOMAIN answers : answers[n].card.round # rounds + 1
      <4> SUFFICES ASSUME NEW n \in DOMAIN answers
                   PROVE  answers[n].card.round # rounds + 1
        OBVIOUS
      <4>1. answers[n] \in Answer /\ answers[n].card.round <= rounds
        BY DEF IInv, AnswerInv
      <4>2. answers[n].card.round \in Nat
        BY <4>1 DEF Answer, Card
      <4> QED BY <1>8, <4>1, <4>2
    <3>2. Len(q.results) = 0 /\ DOMAIN q.results = {}
      BY <2>11
    <3> QED BY <1>17, <2>11, <3>1, <3>2 DEF RoundInv
  <2>16. ScreenInv(q, filed, gone, crossed)
    BY <2>12 DEF ScreenInv, Screens
  <2>17. OneCall(q) /\ CallInv(q, answers, filed, gone)
    BY <1>3, <2>11, NoCall
  <2>18. page' = q /\ rounds' = rounds + 1
    BY <1>12, <1>19, <2>1, <2>3, <2>6, <2>9
  <2>19. PageInv(q, answers, filed, rounds + 1, gone, crossed)
    BY <1>16, <2>11, <2>14, <2>15, <2>16, <2>17 DEF PageInv
  <2>20. AnswerInv'
    <3>1. rounds' \in 0..MaxRounds
      BY <1>8, <1>19, <2>18, ClientAssumption
    <3>2. \A n \in DOMAIN answers : answers[n].card.round <= rounds + 1
      <4> SUFFICES ASSUME NEW n \in DOMAIN answers
                   PROVE  answers[n].card.round <= rounds + 1
        OBVIOUS
      <4>1. answers[n] \in Answer /\ answers[n].card.round <= rounds
        BY DEF IInv, AnswerInv
      <4>2. answers[n].card.round \in Nat
        BY <4>1 DEF Answer, Card
      <4> QED BY <1>8, <4>1, <4>2
    <3> QED BY <1>1, <2>18, <3>1, <3>2 DEF IInv, AnswerInv, FiledUnderItsDeck
  <2> QED BY <1>1, <2>18, <2>19, <2>20 DEF IInv
<1> QED BY <1>18, <1>19

\* What a flush files keeps to the deck of the cards.
LEMMA FiledStep ==
  ASSUME IInv, NEW d \in Decks, NEW S, S \subseteq DOMAIN answers,
         \A n \in S : answers[n].card.deck = d \/ n \in crossed,
         filed' = [n \in Ids |-> IF n \in S THEN filed[n] \cup {d} ELSE filed[n]],
         gone' \subseteq Ids, UNCHANGED <<answers, rounds, reloads, crossed>>
  PROVE  /\ AnswerInv'
         /\ \A n \in DOMAIN answers : filed[n] # {} => filed'[n] # {}
         /\ \A n \in S : filed'[n] # {}
<1>1. DOMAIN answers \subseteq Ids /\ filed \in [Ids -> SUBSET Decks]
  <2>1. DOMAIN answers = 1..Len(answers) /\ Len(answers) \in Nat
        /\ Len(answers) <= MaxAnswers
    BY DEF IInv, AnswerInv
  <2> QED BY <2>1, ClientAssumption DEF Ids, IInv, AnswerInv
<1>2. filed' \in [Ids -> SUBSET Decks]
  BY <1>1
<1>3. \A n \in Ids : filed'[n] = IF n \in S THEN filed[n] \cup {d} ELSE filed[n]
  OBVIOUS
<1>4. FiledUnderItsDeck'
  <2> SUFFICES ASSUME NEW n \in DOMAIN answers, n \notin crossed
               PROVE  filed'[n] \subseteq {answers[n].card.deck}
    BY DEF FiledUnderItsDeck
  <2>1. filed[n] \subseteq {answers[n].card.deck}
    BY DEF IInv, AnswerInv, FiledUnderItsDeck
  <2> QED BY <1>1, <1>3, <2>1
<1>5. \A n \in Ids \ DOMAIN answers : filed'[n] = {}
  BY <1>3 DEF IInv, AnswerInv
<1>6. AnswerInv'
  BY <1>2, <1>4, <1>5 DEF IInv, AnswerInv
<1> QED BY <1>1, <1>3, <1>6

\* A flush that arrives files every answer of the page, and one that fails files some
\* and gives the rest up; the answers are to cards of the deck it names.
LEMMA FlushStep ==
  ASSUME IInv, NEW i, FlushArrives(i) \/ FlushFails(i)
  PROVE  IInv'
<1>1. Arrives(i, "grade") /\ page.calls[i].kind = "grade" /\ i \in DOMAIN page.calls
      /\ UNCHANGED <<answers, rounds, reloads, crossed>>
  BY DEF FlushArrives, FlushFails, Arrives
<1>2. PICK c : c = page.calls[i]
  OBVIOUS
<1>3. c.deck = page.deck /\ c.results = page.results
  BY <1>1, <1>2, ArrivalIs DEF Pending, Aside
<1>4. PICK d : d = DeckOf(page.deck)
  OBVIOUS
<1>5. d \in Decks
  BY <1>4, ClientAssumption DEF IInv, PageInv, Page, DeckOf
<1>6. PICK S : S = ToSet(page.results)
  OBVIOUS
<1>7. S \subseteq DOMAIN answers /\ S \subseteq Ids
      /\ \A n \in S : answers[n].card.deck = d \/ n \in crossed
  BY <1>4, <1>6 DEF IInv, PageInv, RoundInv, Page, ToSet
<1>8. gone \subseteq Ids
  BY DEF IInv, AnswerInv
<1>9. \A k \in DOMAIN page.results : page.results[k] \in S
  BY <1>6 DEF ToSet
<1>10. CASE FlushArrives(i)
  <2>1. filed' = [n \in Ids |-> IF n \in S THEN filed[n] \cup {d} ELSE filed[n]]
    BY <1>2, <1>3, <1>4, <1>6, <1>10 DEF FlushArrives
  <2>2. gone' = gone
    BY <1>10 DEF FlushArrives
  <2>3. /\ AnswerInv' /\ \A n \in S : filed'[n] # {}
        /\ \A n \in DOMAIN answers : filed[n] # {} => filed'[n] # {}
    BY <1>1, <1>5, <1>7, <1>8, <2>1, <2>2, FiledStep
  <2>4. Settled(page, filed', gone')
    BY <1>9, <2>3 DEF Settled
  <2>5. PICK offerAgain \in BOOLEAN : page' = AfterFlush(i, offerAgain)
    BY <1>10 DEF FlushArrives
  <2>6. PageInv(page, answers, filed, rounds, gone, crossed)
    BY DEF IInv
  <2>7. PageInv(AfterFlush(i, offerAgain), answers, filed', rounds, gone', crossed)
    BY <1>1, <2>2, <2>3, <2>4, <2>6, AfterFlushGood
  <2> QED BY <1>1, <2>3, <2>5, <2>7 DEF IInv
<1>11. CASE FlushFails(i)
  <2>1. PICK T : /\ T \subseteq S
                 /\ filed' = [n \in Ids |-> IF n \in T THEN filed[n] \cup {d} ELSE filed[n]]
    <3>1. CASE Accepted(c)
      <4>1. FileSome(page.results, d)
        BY <1>2, <1>3, <1>4, <1>11, <3>1 DEF FlushFails
      <4>2. PICK k \in 0..Len(page.results) :
              filed' = [n \in Ids |-> IF n \in ToSet(SubSeq(page.results, 1, k))
                                      THEN filed[n] \cup {d} ELSE filed[n]]
        BY <4>1 DEF FileSome
      <4>3. ToSet(SubSeq(page.results, 1, k)) \subseteq S
        <5>1. page.results \in Seq(Ids) /\ Len(page.results) \in Nat
              /\ DOMAIN page.results = 1..Len(page.results)
          BY DEF IInv, PageInv, Page
        <5>2. /\ DOMAIN SubSeq(page.results, 1, k) = 1..k
              /\ \A j \in 1..k : SubSeq(page.results, 1, k)[j] = page.results[j]
          BY <5>1
        <5> QED BY <1>6, <5>1, <5>2 DEF ToSet
      <4> QED BY <4>2, <4>3
    <3>2. CASE ~Accepted(c)
      <4>1. filed' = filed
        BY <1>2, <1>11, <3>2 DEF FlushFails
      <4>2. PICK T : T = {}
        OBVIOUS
      <4>3. PICK e : e = [n \in Ids |-> IF n \in T THEN filed[n] \cup {d} ELSE filed[n]]
        OBVIOUS
      <4>4. filed \in [Ids -> SUBSET Decks]
        BY DEF IInv, AnswerInv
      <4>5. e = filed
        BY <4>2, <4>3, <4>4
      <4>6. T \subseteq S
        BY <4>2
      <4> QED BY <4>1, <4>3, <4>5, <4>6
    <3> QED BY <3>1, <3>2
  <2>2. gone' = gone \cup S
    BY <1>2, <1>3, <1>6, <1>11 DEF FlushFails
  <2>3. gone' \subseteq Ids /\ T \subseteq DOMAIN answers
        /\ \A n \in T : answers[n].card.deck = d \/ n \in crossed
    BY <1>7, <1>8, <2>1, <2>2
  <2>4. /\ AnswerInv'
        /\ \A n \in DOMAIN answers : filed[n] # {} => filed'[n] # {}
    BY <1>1, <1>5, <2>1, <2>3, FiledStep
  <2>5. Settled(page, filed', gone')
    BY <1>9, <2>2 DEF Settled
  <2>6. page' = AfterFlush(i, TRUE)
    BY <1>11 DEF FlushFails
  <2>7. PageInv(page, answers, filed, rounds, gone, crossed) /\ gone \subseteq gone'
    BY <2>2 DEF IInv
  <2>8. PageInv(AfterFlush(i, TRUE), answers, filed', rounds, gone', crossed)
    BY <1>1, <2>4, <2>5, <2>7, AfterFlushGood
  <2> QED BY <1>1, <2>4, <2>6, <2>8 DEF IInv
<1> QED BY <1>10, <1>11

-----------------------------------------------------------------------------
(* The theorems.                                                           *)

\* The invariant holds at first.
LEMMA IInvInit == Init => IInv
<1> SUFFICES ASSUME Init PROVE IInv
  OBVIOUS
<1>1. /\ page = Start /\ answers = <<>> /\ filed = [n \in Ids |-> {}] /\ rounds = 0
      /\ reloads = 0 /\ gone = {} /\ crossed = {}
  BY DEF Init
<1>2. answers \in Seq(Answer) /\ Len(answers) = 0 /\ DOMAIN answers = {}
  BY <1>1
<1>3. filed \in [Ids -> SUBSET Decks] /\ \A n \in Ids : filed[n] = {}
  BY <1>1
<1>4. AnswerInv
  BY <1>1, <1>2, <1>3, ClientAssumption DEF AnswerInv, FiledUnderItsDeck
<1>5. PageInv(page, answers, filed, rounds, gone, crossed)
  BY <1>1, <1>2, FreshGood
<1> QED BY <1>4, <1>5 DEF IInv

\* Every step of a patient learner and of the server keeps the invariant.
LEMMA IInvNext ==
  ASSUME Patient, ~Keyboard, IInv, [Next]_vars
  PROVE  IInv'
<1>1. CASE \E d \in Decks : OpenDeck(d) \/ ReadProfile(d)
  BY <1>1, ShelfSteps
<1>2. CASE StartFromIntro \/ CloseSlips
  BY <1>2, ShelfSteps
<1>3. CASE \/ MoreSlips \/ Again \/ LeaveDeck \/ Reread \/ Slips
           \/ OpenRename \/ CancelRename \/ SubmitNickname
  BY <1>3, RoundSteps
<1>4. CASE Give
  BY <1>4, GiveStep
<1>5. CASE Reload \/ SignInAgain
  <2>1. NewPage /\ reloads' \in 0..MaxReloads
    BY <1>5, ClientAssumption DEF Reload, SignInAgain, IInv, AnswerInv
  <2> QED BY <2>1, NewPageStep
<1>6. CASE Advance
  BY <1>6, AdvanceStep
<1>7. CASE Arrival
  <2>1. PICK i \in DOMAIN page.calls :
          \/ DecksArrive(i) \/ BatchArrives(i) \/ BatchRefused(i)
          \/ SlipsArrive(i) \/ LineArrives(i) \/ NicknameArrives(i)
          \/ SessionExpired(i) \/ CallFails(i)
          \/ FlushArrives(i) \/ FlushFails(i)
    BY <1>7 DEF Arrival
  <2> QED BY <2>1, PlainArrivals, BatchStep, FlushStep
<1>8. CASE UNCHANGED vars
  <2>1. AnswerInv'
    BY <1>8 DEF IInv, AnswerInv, FiledUnderItsDeck, vars
  <2> QED BY <1>8, <2>1 DEF IInv, vars
<1> QED BY <1>1, <1>2, <1>3, <1>4, <1>5, <1>6, <1>7, <1>8 DEF Next, Learner

\* The inductive invariant, of a learner who waits and touches.
THEOREM Invariance == ASSUME Patient, ~Keyboard PROVE Spec => []IInv
<1>1. IInv /\ [Next]_vars => IInv'
  BY IInvNext
<1> QED BY <1>1, IInvInit, PTL DEF Spec

\* What is drawn is what the next answer grades, and no card is answered twice:
\* "locked" and the reset of the timers in app.js.
THEOREM OneAnswerPerCardHolds == ASSUME Patient, ~Keyboard PROVE Spec => []OneAnswerPerCard
<1>1. IInv => OneAnswerPerCard
  <2> SUFFICES ASSUME IInv PROVE OneAnswerPerCard
    OBVIOUS
  <2>1. page \in Page /\ BoardInv(page, rounds) /\ RoundInv(page, answers, rounds, crossed)
    BY DEF IInv, PageInv
  <2>2. TypeOK /\ \A m, n \in DOMAIN answers : answers[m].card = answers[n].card => m = n
    BY <2>1 DEF IInv, AnswerInv, TypeOK
  <2>3. page.drawn # None => page.drawn = CurrentCard(page)
    BY <2>1 DEF BoardInv
  <2>4. ASSUME page.locked
        PROVE  /\ CurrentCard(page) # None /\ page.results # <<>>
               /\ answers[Last(page.results)].card = CurrentCard(page)
    <3>1. /\ Playing(page) /\ page.index \in DOMAIN page.cards
          /\ Len(page.results) = page.index
          /\ \A k \in DOMAIN page.results : answers[page.results[k]].card = page.cards[k]
      BY <2>1, <2>4 DEF BoardInv, RoundInv
    <3>2. /\ page.cards \in Seq(Card) /\ page.results \in Seq(Ids)
      BY <2>1 DEF Page
    <3>3. CurrentCard(page) = page.cards[page.index] /\ CurrentCard(page) \in Card
          /\ page.index \in Nat /\ page.index >= 1
      BY <3>1, <3>2 DEF CurrentCard
    <3>4. page.index \in DOMAIN page.results /\ page.results # <<>>
      BY <3>1, <3>2, <3>3
    <3>5. Last(page.results) = page.results[page.index]
      BY <3>1 DEF Last
    <3> QED BY <3>1, <3>3, <3>4, <3>5, NoneAssumption
  <2> QED BY <2>2, <2>3, <2>4 DEF OneAnswerPerCard
<1> QED BY <1>1, Invariance, PTL

\* An answer is filed under the deck of its card: flush names the deck that is open, and
\* that is the deck of the round until its answers are gone from the page, or until the
\* learner follows the line about another deck with them still held (showSlipSummary).
THEOREM FiledUnderItsDeckHolds == ASSUME Patient, ~Keyboard PROVE Spec => []FiledUnderItsDeck
<1>1. IInv => FiledUnderItsDeck
  BY DEF IInv, AnswerInv
<1> QED BY <1>1, Invariance, PTL

\* No answer leaves the page but with a flush, or with the page: loadBatch and the
\* handlers that go on drop results that were sent.
THEOREM NoAnswerLostHolds == ASSUME Patient, ~Keyboard PROVE Spec => []NoAnswerLost
<1>1. IInv => NoAnswerLost
  BY DEF IInv, PageInv, Kept, NoAnswerLost, Held, ToSet
<1> QED BY <1>1, Invariance, PTL

\* A round is reported when it is over, whole and in order (finishBatch).
THEOREM RoundCompleteHolds == ASSUME Patient, ~Keyboard PROVE Spec => []RoundComplete
<1>1. IInv => RoundComplete
  <2> SUFFICES ASSUME IInv, NEW i \in DOMAIN page.calls,
                      page.calls[i].kind = "grade", page.calls[i].then = "finish"
               PROVE  [k \in DOMAIN page.calls[i].results |->
                         answers[page.calls[i].results[k]].card] = page.cards
    BY DEF RoundComplete
  <2>1. Pending(page, page.calls[i], answers, filed, gone)
    BY DEF IInv, PageInv, CallInv, Waits, Aside
  <2>2. page.calls[i].results = page.results
        /\ [k \in DOMAIN page.results |-> answers[page.results[k]].card] = page.cards
    BY <2>1 DEF Pending
  <2> QED BY <2>2
<1> QED BY <1>1, Invariance, PTL
=============================================================================
