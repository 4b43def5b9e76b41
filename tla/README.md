# A verification of uebung

uebung is a German trainer: a Go server over SQLite, a page of plain JavaScript,
and a few shell scripts that deploy it. This directory holds TLA+ modules of it,
the configurations that check them with TLC, and proofs that TLAPS checks.
Paths below are relative to the repository's root.

    tlc  -workers 2 -config MCIdentity.cfg MCIdentity.tla     # a run
    tlapm IdentityProofs.tla                                  # the proofs

## The system

A learner asks for a link by mail, follows it to a page with a button, and holds a
session cookie. They choose a name, or accept the one that is offered. The course
is a list of decks; some are locked until enough of another has been answered. The
page fetches a batch of cards, the learner answers them without the network, and
the page posts the whole round at its end (a *flush*). The server passes each answer
through a spaced-repetition scheduler, stores the card's new row and logs the
review in one transaction. A release replaces the one binary on the host.

| Component | State it keeps | Operations | What makes it hard | Module |
|---|---|---|---|---|
| Sign-in (`business/domain/identity`) | tables `users`, `login_tokens`, `sessions` | RequestLogin, Peek, Redeem, Authenticate, Logout, Purge | one request is several store calls; requests, the purge and crashes fall between them; times are compared as text | `Identity` |
| Confirmation nonce (`confirm.go`) | one cookie for a browser | set, match, clear | tabs share it; answers are late or lost; forms from elsewhere | `Confirm` |
| Rate limiter (`limiter.go`, `clientip.go`) | a count and a window for each key | allow, sweep | the edge of a window; growth; who a caller is behind a proxy | `Limiter` |
| Nicknames (`identitybus`, `nicknamer`, `types/nickname`) | `users.nickname`, unique by its fold | suggest, set, skip | two learners want one name; a skip or a sign-in beside a claim; the rules read one text in several forms | `Nicknames`, `Naming` |
| Grading (`business/domain/study`) | tables `study_progress`, `study_review` | Grade, Batch, Progress, Confusions | read and write of one card are two calls; two tabs | `Grading`, `Rounds` |
| Study handlers (`app/studyapp`) | none | decks, batch, grade, summary, confusion | a gate that is read before rows are written; partial flushes; a limit that is applied before words are dropped | `Grading`, `Rounds`, `Course` |
| Unlock rule (`curriculumbus`) | none | Gate | what counts as coverage, over time and over releases | `Grading`, `Course` |
| Course, vocabulary, triggers (`seeddb`) | read-only tables | load and check | what is checked at a start and what only later; answers older than the course | `Course` |
| Scheduler (`foundation/fsrs`) | none | Review | reviews on the same day, rounding to days | `Rounds` |
| Page (`app/studyapp/static/app.js`) | `state`, the DOM, timers, fetches | every button, key and drag | what an `await` finds when it resumes | `Client` |
| Stores' schemas (`sqlitedb`) | the database file | Open, migrations, Check | a crash between two statements; two starts at once | `Migration` |
| Claim (`cmd/uebung-claim`) | the study tables | Reassign | rows on both sides; a server that runs | `Migration` |
| Deployment, watchdog (`deploy/`) | binaries, process, pid file, lock | deploy, roll back, start, stop | the watchdog between stop and start; a cut half way | `Deploy` |
| Wiring (`cmd/uebung/main.go`) | the purge's ticker | start, purge, stop | the order of a start | `Migration`, `Identity` |

How they interact: the page calls the study and auth handlers over HTTP; the study
handlers ask identity for the user of the cookie, curriculum for the gate and the
study domain for rows; both domains keep a store each, over one SQLite file opened
with **one connection** (`foundation/sqldb`). So a statement or a transaction is
atomic, nothing longer is. That is the granularity of every server action here.
Between releases the same file is handed from one binary to the next.

The modules meet at these boundaries instead of in one big composition:
`Confirm` has of Redeem what a browser can tell apart, the look at the link, the claim and the
session, with a failure after each, and leaves the accounts to `Identity`; `Nicknames` begins where `Identity`'s Authenticate ends and has
sign-in's `SaveUser` as the row's other writer; `NicknameTexts` puts `Naming` beside `Nicknames`, and
`MCNicknames` requires its abstract names, keys and proposals to be those of texts;
`Grading` has flushes that overlap on one day, `Rounds` one flush after another over
many days, `Course` many releases; `Client` has the server as an environment that
files, refuses or fails; `Deploy` has a start that serves or does not, and what a start does to
the file is `Migration`'s.

## Modules

| Module | What it is |
|---|---|
| `Identity` | sign-in: the server's requests, its purge, the clock, crashes |
| `MagicLink` | what sign-in promises, abstractly |
| `IdentityRefinement` | the mapping under which Identity implements MagicLink |
| `IdentityProofs` | the inductive invariant of Identity, its theorems and the refinement |
| `Confirm` | the page between a link and a session: browsers, tabs, one nonce cookie |
| `Limiter` | the two budgets in front of a mail |
| `Nicknames` | who is called what: the three handlers and the sign-in beside them |
| `Naming` | what a name is: normalising, checking, folding, screening, generating, as operators |
| `NicknameTexts` | the two together: what `Nicknames` builds on, said of texts |
| `Grading` | one learner's flushes and shelf, over the progress table and the log |
| `Rounds` | batches and intervals of one deck over days |
| `Course` | the authored course, what loads of it, and releases that change it |
| `Client` | the page: its record of state, its handlers, its fetches |
| `Migration` | the database file: starts, claims, crashes between statements |
| `Deploy` | a deployment, the supervisor, the watchdog |
| `SigninProofs` | the same for Confirm and Limiter |
| `LearningProofs` | the same for Course and Rounds |
| `NicknamesProofs` | the same for Nicknames, and the theorems about Naming |
| `GradingProofs`, `ClientProofs`, `MigrationProofs`, `DeployProofs` | the same for these |
| `MC...` | instances for TLC |

### Identity

Variables `users`, `tokens` and `sessions` are the three tables, a missing row
being `None`. `req[h]` is a goroutine that serves a request: its `pc` names the
call it makes next, the other fields are the locals it holds (`at` is the one
reading of the clock that `RequestLogin` and `Redeem` use throughout). An action is
one store call with the code around it, up to the next call:

- RequestLogin: `RequestLogin`, `FindAccount` or `MintAccount`, `CreateAccount` or
  `CreateAccountRefused` (the UNIQUE constraint), `SaveLoginToken`, `SendLoginLink`.
- Redeem: `Redeem`, `LoadToken`, `MarkLoginTokenUsed` (the conditional UPDATE),
  `LoadUser`, `VerifyUser` (the upsert of the row that was loaded), `SaveSession`,
  `SetSessionCookie`.
- `Authenticate`, `LoadSession`, `LoadAccount`; `Logout`, `DeleteSession`; `Reply`.
- `StartPurge`, `PurgeTokens`, `PurgeSessions`: two DELETEs with one stamp.
- `Fail`, `PurgeError`: any call may return an error; `Crash` empties every `req`.

A login secret is drawn when its request starts and a session secret when its row
is written; a random draw commutes with everything else. `mailbox` is what the
learners' inboxes hold, `cookies` the secrets that browsers were given (a copy may
be used for ever), and `drawn`, `origin`, `revoked` and the field `clean` are history.

Time is in ticks, `TicksPerSecond` of them to the second, because the store writes
RFC 3339 text without trailing zeros and compares it as text: `TextLeq` is that
comparison, `FractionRank` the place of a fraction within its second.

### Confirm

`cookie[b]` is the one confirmation cookie of a browser, `tabs[b]` the pages it shows,
`calls` what is in flight, in either direction and in any order; a response may be
`Lose`d after the server has done its part. `Follow` opens a link (GET), `HandleConfirm`
peeks at it and renders a page with a nonce, `PageArrives` stores cookie and page;
`Submit` posts the page with the cookie the browser has then, `ForeignPost` the same
form from another site, with or without the cookie (SameSite). `HandleCallback`
compares the nonce and begins Redeem, which looks at the link; the request goes on as
"redeeming" to `ClaimLink` (the conditional UPDATE, where another request may have been
first) and as "claimed" to `SignIn`. `Fail` ends it before or after the claim; after it the
link is spent, nobody is signed in, and the browser reads "expired".
`CallbackAnswered` clears the cookie of a sign-in. `rendered`, `accepted`, `wasted` (pages whose
link was claimed in vain) and `fresh` are history.

### Limiter

`byIP` and `byEmail` are the two maps of `limiter`s. `Request` is `handleRequest`: the key
from `ClientIP` (socket, or what the proxy appended last to a header that the caller
may have begun), `Allow` on the first limiter, `Sweep` of that one, `Allow` on the second, the mail. `proxied`
is chosen at the start; `Restart` forgets both maps, not the mails that have left; `ClockTicks` is the clock.
History are `asked`, `last`, `mailed` and `restarted`: for each key, how many mails had left before each instant,
and how many restarts there had been, so that what happened within
a window is the difference of two numbers (`InWindow`) and not a sum over the history.
Its definitions begin with `Limiter`, and those of `Rounds` with `Rounds`, where another component
has one of that name: each shares a module of proofs with another component.

### Nicknames and Naming

`users` are the name columns, `req[h]` a request between its store calls: `Me` and
`Suggest` read, `PostNickname` and `PostSkip` lead to `Claim` (`SetNickname`'s UPDATE with
its NOT EXISTS and the unique index), a skip that finds its name taken goes to
`GenerateName` and `Retry` within `SuggestAttempts`; `SignIn`, `SaveUser` is the upsert of a row
loaded earlier, which does not write the name columns. `Fail` and `Crash` end a
request anywhere. `Lull` is a moment with no request in flight, after which history
is forgotten and the bounds on requests and faults begin anew: the state it leaves
is one the bounds would never have let a run reach otherwise. `claimed`, `renamed` and
`held` are history.

In `Naming` a text is a sequence of runes out of a few of each class (a letter in both
cases, a digit, separators, others), and each function of the packages is an
operator: `NormalizeSpace`, `CheckRunes`, `Fold`, `FoldedWords`, `Listed`, `Parse`, `Build`,
`Generate`, and `Loadable`, the sums that the generator's `New` checks of its word lists.
`FoldedWords` scans a text rune by rune, as the code does, and `Fold` maps it whole: that the two agree is
something to prove. The eszett, which folds to two letters, is the rune `"sz"`.
`NicknameTexts` says what the rest builds on (`TextsHold`) over every text up to a length; the run takes five runes.
`MCNicknames` requires that the names of `Nicknames` are accepted texts, that two of them
have one key exactly if their texts fold alike, and that its generator proposes
what `Generate` gives.

### Grading

`progress` is `study_progress` (count, state and time of a row; the other columns are
`Rounds`'), `log` is `study_review`. A flush is `PostGrade`, `CheckGate` (the gate, then every
answer against the deck), and for each card `LoadCard` and `SaveCard` (row and log in one
transaction), then `Summarise`. The shelf is `OpenShelf`, one `ReadStanding` for each
deck, and `CloseShelf`. The learner is left out: each table has the learner as the
first column of its key, so learners do not meet. `sent`, `outcome`, the flush's
name in the log and `overrun` are history, `faults` counts failing calls and crashes;
`overrun` holds cards that were saved over a row that the request had not read.

### Rounds

One `deck`, the set of words of the running release, whose order is that of `Deck`; its `row`s; and a
`page` of cards. `HandleBatch` is the handler with
`Business.Batch`: due rows by due time up to the limit, then unseen words in deck order
up to two limits, then the words that have left the deck are dropped from what was
taken; for an empty page the time of the next card. What a loop of the code keeps of a list is the
members it keeps, in the order of the list (`InOrderOf`). `Learn` answers the first card of
the page with any rating: `Review` gives the state, and the interval `Again` (a tick)
or the whole days of *any* stability, at least one and at most the cap
(`IntervalDays`). Time is relative: a row keeps how long ago it was reviewed,
up to a day, and how long it has to wait, and of rows that are due only their order.
So the state space is finite without a bound on the clock, and liveness means what
it says. `Drop` takes a word from the deck; its row stays.

### Course

A release is a course as authored: decks with drill, answers, prerequisite, the
answers its introduction explains, items; and nouns. `Starts` is what `Catalog` accepts
(a bad course never replaces a running one), `Loads` what a request then accepts of the rows
(`Cases` are the three that `gcase.Parse` accepts, whatever the deck lists as its answers),
`Size`, `Coverage`, `Need` and `Met` the gate, `Cell` the confusion grid.
`Need` is `math.Ceil` of a floating-point product (`Asked`). The product of a fraction and the size of a deck
is off by far less than the distance to the next whole number unless it is one, and then may come out just above
it: 0.28 of 25 is asked for as 8. `RoundsUp` are the sizes at which that happens,
any set of them in the proofs; four fifths, the fraction of the runs, has none.
`Batch` says what a request for cards comes to; `Jammed` is a deck with as many `Orphans`, rows
of words it has lost, as a batch has cards: its batches may be empty for ever (divergence 9).
`Release` replaces the course, a page fetched under an earlier one may still be
posted, and `Grade` is the handler's check of gate and answers followed by the rows.

### Client

The script has one thread, so a handler is one step, up to its `await`; the rest
of it is another step that finds the page as it is by then. `page` is the
document and `state` together: what is shown, `state.deck`, `state.cards`,
`state.index`, `state.results`, `state.locked`, the card drawn on the stack, the
drill on the buttons, and the calls in flight. A function of the script is a
function from page to page (`ShowShelf`, `StartDeck`, `FlushFirst`...), an event is
an action (`OpenDeck`, `Give`, `Advance`, `LeaveDeck`...), and a response is an action
(`BatchArrives`, `FlushArrives`...), in any order. The server is external here: it may
refuse, fail, file a part of a flush, or file it and have the answer lost. Drags are
answers like taps; the sign-in form, the profile grid, the geometry of a drag and
the counters in the header are left out.

The panel of a finished round asks for a line about slips (`AskForLine`), and nothing waits for
the answer. When it comes (`LineArrives`) the line is shown on whatever the panel is about by then,
and its button (`MoreSlips`) leads into the deck that was asked about: `page.line`, which need not be
`page.deck`. Only another finished round hides it. `crossed` is history: the answers that were
on the page when the line about another deck was followed.

### Migration

`file` is what is committed: the columns of each table, the rows by owner, the log,
the index; `tx` is the open transaction. A process's `todo` is the rest of its work, a
list of statements and of looks (`PRAGMA table_info`) that put statements in front of
the rest: `ServerTodo` is the study store's Open, then the identity store's, then the
port; `ClaimTodo` is `uebung-claim`. `Rebuild` is the transaction that gives the progress
table its new key. A statement is executed, or fails, or its process dies (`Die`);
a transaction that is not committed leaves nothing. A server that `Listen`s writes:
`Grade`, `SignIn`. `studied` is history: cards that have ever been answered.

### Deploy

`disk` are the four file names, each with a release or none, `proc` the process and the
release it was started from, `lock` the supervisor's. A deployment is an action for
each command that changes the host: `Upload`, `StopOld`, `Backup`, `MoveAside`, `Swap`,
`StartNew`, `CheckHealth`, `CheckPublic`, `RemovePrevious`, and on failure `StopFailed`, `SetAside`,
`PutBack`, `StartOld`. The supervisor is `supervise.sh`, as with `SUPERVISOR=nohup`; the default of
`deploy.sh`, systemd, has no cron that comes between, and its units are not modelled. `Watchdog` is cron's start under the lock, `Launch`, `Exec` and `Boot`
what a start becomes; `quality` says what each release turns out to be (it serves,
runs without being healthy, or exits). `Die` and `Cut` are the faults. `excuse` is history:
whether the watchdog started something between a deployment's steps (`crossed`),
whether a deployment was cut off after its swap (`cut`).

## Runs

| Run | Asks | Bounds |
|---|---|---|
| `MCIdentity` | the safety of sign-in, and that it implements `MagicLink` | 2 addresses, accounts, links, sessions and requests at once; half-second ticks, a link and a session live for one of them; any call of a request may fail; a crash |
| `IdentityLive` | a good link is honoured; expired rows go | 1 link, 2 sessions, 2 requests, a crash, purges that fail |
| `Confirm` | only a browser's own page spends a link, and its last page can be sent | 2 browsers, 2 links, 3 pages, 2 calls in flight or under way, 3 instants; a call may fail at any step; a cookie lives for one tick, a link for two |
| `Limiter` | how many mails, and who is not turned away | 2 machines, 2 addresses, budgets of 1 for a machine and 2 for an address, windows of 2 ticks, 4 instants, 1 restart |
| `Nicknames` | claims, skips and sign-ins; the rules for texts | 2 accounts, 2 requests at once, 3 requests and a fault between two lulls, 4 names with 3 keys, texts up to 5 runes |
| `MCGrading` | the log, the rows and the gate | 2 decks, 3 flushes out of 5 contents, 2 requests, 2 instants, one fault: a call that fails or a crash |
| `Rounds` | batches, their order, the promised time, starvation | 3 words, batches of 2 with 1 new word, days of 2 ticks, stabilities of 0 to 3 days, intervals of at most 2, 2 words dropped |
| `Course` | the grid, the gates and what opens, over releases | 14 courses of up to 3 decks, 2 releases after the first, 2 answers, batches of 1 card |
| `ClientPatient` | rounds are whole, once answered, under their deck, not lost | 2 decks, batches of 0 to 2 cards, 3 answers, 2 rounds, 2 calls in flight, 1 reload, calls that fail |
| `Migration` | nothing is lost, a claim is whole, a later start completes | the files of 5 releases, 2 processes, 2 words, 1 claim, 2 faults |
| `MigrationHalfNamed` | that no interrupted start locks the server out; it may, see *Divergences* | the file before nicknames, 1 fault |
| `Deploy` | a good binary is kept, what runs is installed, the site comes back | 3 releases, deployed in any order and any number of times, 2 faults |

Why the bounds are enough to be of use. Every hazard of sign-in is about two
requests that meet on one address, one link or one session, or one request and the
purge; two links and two sessions are needed to confuse them with each other, and
two ticks to a second to see a time misplaced within it. What the bound leaves
open is closed by the proofs. In `Confirm` a second browser is needed for a page that is
not one's own, three pages for one that is neither the first nor the last. In
`Limiter` four instants hold two windows, a budget of two shows the one mail that
opens a window late, and one restart gives an address the five mails that are less than three budgets. In `Nicknames` a third request is what wins the name in the middle
of a claim and a skip; the lull lets a history of any length come before. In grading,
two requests are needed to overlap, three flushes to open a deck, use it and try to
close it again; the deck that gates has two words of which four fifths, rounded up,
are needed. In `Rounds` a batch holds two of the three words, so that one is always left
out, and two dropped words are what fills a batch. A course of three decks has a
chain of two prerequisites; with batches of one card, one dropped word clogs a deck. On the page two calls in flight are what is needed for
one to overtake another, two rounds for a leftover of the first to reach the
second, and three answers to end a round and begin the next. In `Migration` a second
fault interrupts the start that repairs what the first one left. In `Deploy` three
releases are a good one, one that replaces it and one that fails.

In `Client`, `Patient` is a learner who presses a button only when nothing is pending,
and not during a reveal, and `Keyboard = FALSE` one who has no arrow keys. They are not
properties of the code: they mark where its guarantees end; set to `FALSE` and `TRUE`
they show divergences 3 to 6. Its learner does press buttons while the line about slips is on its way,
because nothing on the page shows that it is: what comes of that is `crossed`. `excuse` in `Deploy`, `overrun` in `Grading`, `Clogged` in `Rounds`,
`Stranded` in `Course` and `HalfNamed` in `Migration` mark such ends too, and each is described
under *Divergences*.

Symmetry is used in safety runs only, over values that the code treats as opaque.
Deadlock is checked in every run: the page always has a button, an idle server
always has a purge to start or a shelf to draw, cron always comes again, a browser can follow
a link or lose what is in flight, a request for a mail can
be made whatever the clock says.

### Properties by name

| Run | Property | What it says |
|---|---|---|
| `MCIdentity` | `SingleUse` | a link opens at most one session |
| | `SessionsVerified` | a session's account exists and is verified |
| | `SessionBelongsToInbox` | a session is for the account of the address whose inbox the link went to |
| | `SessionFromLiveLink` | the link behind a session was in time when it was checked |
| | `OneAccountPerAddress` | no two accounts share an address |
| | `SignOutSticks` | a session that was signed out is not granted to a later request |
| | `PurgedAreDue` | a purge removes only rows of the second it runs in, or older |
| | `ImplementsMagicLink` | each store call of a redeem is a step of the promise or changes nothing it mentions: the claim spends the link, the session's row opens the session, and between the two a failure or a crash may leave a spent link without a session, which the promise admits |
| `IdentityLive` | `LiveLinkHonoured`, `ExpiredRowsPurged` | a claimable link opens a session; a due row goes away |
| `Confirm` | `OwnPageOnly` | only a page rendered for this browser spends a link or signs in, each link once; a link that is spent in vain met a failure after its claim |
| | `LatestPageWorks` | the last page can be submitted, whatever the other tabs were answered |
| `Limiter` | `SlidingBudget` | any window of time sees fewer than two budgets, and one more for each restart within it; what is counted for callers is swept |
| | `FreshCallerServed` | a caller who was quiet, for an address nobody asked for, is served |
| `Nicknames` | `ClaimsAreFair` | keys are unique; "taken" is said only of a name somebody else has had; a skip gets the name on its button unless that is gone |
| | `NameIsLastClaimed` | a sign-in with a row it read earlier does not bring an old name back |
| | `SkipKeepsName` | a skip replaces a name only if it was chosen after the skip arrived |
| | `TextsHold` | an accepted name is accepted again when loaded, its screened words make its key, spacing does not hide a listed word, a generated name fits |
| `MCGrading` | `RowIsLastReview` | the row of a card and the log agree: state, time, count |
| | `FlushIsPrefix` | what is logged of a flush is its beginning, in order; all of it if acknowledged, nothing if refused |
| | `LockedDeckUntouched` | nothing is written in a locked deck, and the shelf draws none as open |
| | `GateStaysOpen` | an open deck stays open |
| `Rounds` | `NothingPassedOver` | a batch leaves out only what is less due, and a success is not asked again on its day |
| | `EmptyMeansDone` | an empty batch means there is nothing to do, until exactly the time it promises |
| | `NothingStarves` | a card that is due is answered in the end, however often others are failed |
| `Course` | `GridIsTheDeck` | the grid counts only answers about words the deck has now, each under the word's present answer |
| | `RemovalsNeverLock` | dropping or exchanging words never locks a deck that was open |
| | `CourseOpens` | a learner who goes on opens every deck of the shelf that is not behind a broken, clogged or miscounted one |
| `ClientPatient` | `FiledUnderItsDeck`, `NoAnswerLost` | an answer is kept until it is filed, under its deck (unless `crossed`) |
| | `OneAnswerPerCard` | what is drawn is what is graded, once; a reveal belongs to the card it was armed for |
| | `RoundComplete` | a round is reported whole, in order |
| `Migration` | `NoCardLost` | a card that was ever answered has a row; a server that listens can run its queries |
| | `ClaimIsWhole` | a claim has moved all it could, with the log |
| | `ComesBack` | after faults, a later start completes what was cut off, the nickname columns apart |
| `MigrationHalfNamed` | `ComesBackAlways` | the same without that exception: violated |
| `Deploy` | `GoodBinaryKept` | a binary that serves stays on the host until another was seen to |
| | `RunsWhatIsInstalled` | the process is of the file called `uebung`; nothing runs during copy and renames; "deployed" is true |
| | `ComesBack` | a host with a good binary serves again after any fault |

The type invariants of the other modules are the first conjunct of one of their
properties.

### Fairness

- `Identity`. `RequestFairness`: a goroutine that was started is run, and its store call
  ends. `PurgeFairness`: the ticker of `purgeLoop` comes back whatever the last purge
  returned, so a purge is started again (weak); each DELETE is tried again and again and
  does not fail for ever (strong, because a failure ends the attempt and disables
  it). `ClockFairness`: time passes. Nothing makes a learner ask for, submit or close
  anything, a crash may intervene (one, in the run), and the server retries no request.
  `LiveLinkHonoured` is checked without failing calls, as a store that fails may burn a
  link, and it excuses a crash.
- `Migration`: cron starts a server that is down, every five minutes; a process that was
  started goes on. Both weak. Faults are bounded, so in the end there are none.
- `Rounds`: a learner who goes on: a page that was fetched is worked through, another one
  is asked for, time passes. This is an assumption about the learner, and the one under
  which starvation would be the code's fault. No rating is promised.
- `Course`: the learner gets round to every card of a deck that is open and not clogged (weak for each). That
  a batch shows it in the end is the learner's doing: fewer strays than a batch has cards leave room, what comes
  due is shown (`Rounds`), and what is answered well is not due again on its day.
- `Deploy`: cron, the process it launches, and a deployment go on; nothing makes anybody
  deploy, and a deployment may be cut off.

The other modules have no liveness property: nothing in them is retried.

### Mutants

A definition that no action uses, right before the one it resembles, is a
plausible defect of it: a guard that was dropped, a count that starts at zero, a
reset in the wrong place. Each property of a passing run is violated when one of
these takes the place of the definition after it: `SessionForNobody`,
`UnclaimedOrUsed`, `SaveUserInsertOnly`, `FindAnyAccount`, `IsRedeemableForEver`,
`EmailUnconstrained`, `ClearCookieOnly`, `NotYetExpired`, `LoadVerifiedUser`,
`PurgeTokensOnly` (Identity); `ConfirmNoncePresent`, `CallbackClearsAlways` (Confirm);
`AllowOneMore`, `ClientIPSocket` (Limiter); `KeyAsTyped`, `SaveUserWhole`,
`PostSkipOverName` (Nicknames); `ListedWord` (Naming); `ReviewedFirstUncounted`,
`SaveCardUnlogged`, `FailAndGoOn`, `CheckAnswersOnly`, `CountRetained` (Grading);
`IntervalFromZero`, `UnseenOfTheFirst`, `SoonestLast` (Rounds); `ValidAnswersButEmpty`,
`CoverageOfDeck`, `MetWhenPassed` (Course); `GiveUnlocked`, `StartDeckLate`,
`LeaveWithoutFlush`, `BatchUnflushedArrives` (Client); `RebuildUnprotected`, `LogLeftBehind`,
`AddAnswersByLast` (Migration); `MoveAsideOver`, `StopAndLeave`, `WatchdogPolite` (Deploy).
`PROJECT.json` pairs them.

## Proofs

Eight modules for the ten components the theorems are about: `SigninProofs` and `LearningProofs` are
about two each, which share no state. A theorem holds for every value of the
constants that satisfies the assumptions: any number of addresses, accounts, links, requests,
processes, cards, releases, faults, and any clock.

| Module | Theorem | Property |
|---|---|---|
| `IdentityProofs` | `TypeCorrect` | `TypeOK` |
| | `LinkOpensOneSession` | `SingleUse` |
| | `SessionsAreVerified` | `SessionsVerified` |
| | `SessionOfTheInbox` | `SessionBelongsToInbox` |
| | `SessionInTime` | `SessionFromLiveLink` |
| | `AddressIsUnique` | `OneAccountPerAddress` |
| | `SignOutIsFinal` | `SignOutSticks` |
| | `PurgedAreDueHolds` | `PurgedAreDue` (an action property) |
| | `ImplementsMagicLinkHolds` | `ImplementsMagicLink` (the refinement) |
| `SigninProofs` | `OwnPageOnlyHolds` | `OwnPageOnly` |
| | `LatestPageWorksHolds` | `LatestPageWorks` |
| | `SlidingBudgetHolds` | `SlidingBudget` |
| | `FreshCallerServedHolds` | `FreshCallerServed` |
| `NicknamesProofs` | `ClaimsAreFairHolds` | `ClaimsAreFair` |
| | `NameIsLastClaimedHolds` | `NameIsLastClaimed` |
| | `SkipKeepsNameHolds` | `SkipKeepsName` (an action property) |
| | `WordsAreTheKey` | the words that are screened spell the key, for a text of any length |
| | `SpacingIsNoHelp` | a listed word is refused however it is spaced or capitalised, for any lists and any length |
| | `NamesParseAgain` | an accepted name reads back as itself, for a text of any length |
| | `NamesFit` | what is generated is no shorter and no longer than a name may be, for any lists that load |
| | `TextsHoldHolds` | `TextsHold` |
| `GradingProofs` | `GradingTypesHold` | `TypeOK` |
| | `RowIsLastReviewHolds` | `RowIsLastReview` |
| | `FlushIsPrefixHolds` | `FlushIsPrefix` |
| | `LockedDeckUntouchedHolds` | `LockedDeckUntouched` |
| | `GateStaysOpenHolds` | `GateStaysOpen` (an action property) |
| `LearningProofs` | `GridIsTheDeckHolds` | `GridIsTheDeck` |
| | `RemovalsNeverLockHolds` | `RemovalsNeverLock` (an action property) |
| | `GateIsTheShareHolds` | `GateIsTheShare`: an open deck has the fraction of the one before it seen; more than the fraction opens it, and so does all of it |
| | `NothingPassedOverHolds` | `NothingPassedOver` |
| | `EmptyMeansDoneHolds` | `EmptyMeansDone` |
| `ClientProofs` | `OneAnswerPerCardHolds` | `OneAnswerPerCard` |
| | `FiledUnderItsDeckHolds` | `FiledUnderItsDeck` (unless `crossed`) |
| | `NoAnswerLostHolds` | `NoAnswerLost` |
| | `RoundCompleteHolds` | `RoundComplete` |
| `MigrationProofs` | `NoCardLostHolds` | `NoCardLost` |
| | `ClaimIsWholeHolds` | `ClaimIsWhole` |
| `DeployProofs` | `RunsWhatIsInstalledHolds` | `RunsWhatIsInstalled` |
| | `GoodBinaryKeptHolds` | `GoodBinaryKept` |

Each component has an inductive invariant `IInv` in named parts (`LimiterIInv`, `CourseIInv` and
`RoundsIInv` where two share a module), a lemma for each action or group of
them, and the theorems from `Init => IInv`, `IInv /\ [Next]_vars => IInv'`. TLC checked every one
as an invariant of the component's run before it was proved.

### Assumptions

TLC evaluates each of them in a run of its module.

| Module | Assumption | What it asks |
|---|---|---|
| `Identity` | `TimeAssumption` | lifetimes are positive, a second has one to ten ticks, the bounds are numbers |
| `Confirm` | `TTLAssumption` | the cookie and the link live for a positive time |
| `Limiter` | `BudgetAssumption` | budgets and windows are positive numbers; no address of a machine is a mail address |
| `Nicknames` | `NamesAssumption`, `AttemptsAssumption` | what is proposed or typed is a name, a name has a key |
| `NicknameTexts` | `TextAssumption` | no name need be longer than four runes (the code asks for three); budgets are numbers, the generator's numbers and nouns are texts |
| `Grading` | `CourseAssumption`, `BoundAssumption` | the catalog is a list of decks with finitely many items each, the fraction is one, a product rounds up only where it is a whole number, a round is a list of answers |
| `Course` | `FractionAssumption`, `ReleaseAssumption` | the fraction is one, a product rounds up only where it is a whole number; decks, nouns and items are lists |
| `Rounds` | `DeckAssumption`, `PolicyAssumption` | the deck is a list without repetitions; limits are positive, a day has more than one tick, intervals may last a day |
| `Client` | `ClientAssumption`, `BatchAssumption` | the nouns are a deck, a batch is a list of items |
| `Migration` | `LearnerAssumption`, `FaultAssumption`, `FilesAssumption` | the file is one that a release writes: an index only on a column that is there, a review with the row that was saved beside it, rows of the account its own |
| `Deploy` | `ReleaseAssumption` | there is a release |

Besides, `NoneAssumption` (or a conjunct of these; `RowAssumption` in `Grading`) says that `None` is no
value of what may be missing. The theorems of `ClientProofs` have two hypotheses more, `Patient` and
`~Keyboard`: the learner of the run. Without them the four properties do not hold (divergences
3 to 6). Failures, refusals, lost answers, reloads and any number of calls in flight are in.

### Identity

`IInv == TypeOK /\ Locals /\ AccountInv /\ LinkInv /\ ClaimInv /\ SessionInv`:

- `Locals`: what a request holds at each step; without it `req[h].uid` may be `None`.
- `AccountInv`: a request on its way to create an account is the only one with that
  id, and a request that goes on with an account goes on with that of its address.
  `OneAccountPerAddress` alone is not inductive: `VerifyUser` writes back a row it
  read earlier, and only this part says that the address in it is still the account's.
- `LinkInv`: a secret belongs to one request until it is mailed, its row and its mail
  agree. This is what rules out that a row is mailed to one address and stored for
  the account of another.
- `ClaimInv`: between the conditional UPDATE and the session, one request holds the
  link, the link is used (or purged), and no session came from it. The two checks of
  the code before the UPDATE do not give this; the UPDATE's guard does.
- `SessionInv`: a session was issued for a mailed link and to its account, in time,
  and a request that may still be granted arrived before the sign-out or finds no row.

There is a lemma for each part (`AccountStep`, `LinkStep`, `ClaimStep`,
`SessionStep`), one step for each action, after lemmas on what the tables can never
do (`MonotoneStep`: an account keeps its address and stays verified, a mailed link
stays mailed, an issued session keeps its origin).

`PurgedAreDue` needs that the purge's stamp is not ahead of the clock and a lemma about
text: a time whose text is not after the stamp's is of the same second or an earlier
one, wherever a fraction is placed within it. The refinement is proved action by
action: the mail, the conditional UPDATE, the row of the session, the sign-out and the
purge's DELETEs map to steps of `MagicLink` or to none, as do the other writes; reads,
failures, crashes and the clock leave its variables alone.

### Confirm

`NonceInv` is the heart: a nonce is minted once, so it stands for one page of one
browser. `BrowserInv` and `MessageInv` say of each page, cookie and message in flight for whom
it was rendered; a POST repeats *some* page, perhaps somebody else's, but carries a
cookie of its own. `SpentInv` then says that what claimed a link, whether it has signed in, is about to, or failed, was
rendered for that browser, and that no two have claimed the same link: a request that is still "redeeming" was
found by the nonce and may be too late for its link, which only the claim decides. `LatestInv` is `LatestPageWorks` without the clock: late answers of other tabs
must not have cleared the last page's cookie.

### Limiter

`SlidingBudget` is about any window of time, and the code knows only its own, so it is not inductive.
What is inductive says, for each key (`KeyOK`), how its counter and its mails fit:

- `CountedFits`: a counter counts at least the mails since its window was opened, and the attempt that opened
  it beside those that came later; none has left after its window; and a stretch as
  long as a window that began before it had room for one mail more when it was opened.
- `UncountedFits`: without a counter, every stretch that reaches up to
  now has room for one mail more: such a stretch began after the attempt that opened the last window,
  which is counted and not in it.
- The property for the key, which follows where a mail is sent: at most one less than the budget from
  before the open window, and the budget within it. So one less than twice the budget is the
  most, and divergence 16 says that it is reached.

In each of them a stretch has, besides, the budgets that restarts within it gave back (`Restored`). A restart
makes every counter one that is not there, and adds a budget to each stretch that reaches up to now, which is
what `UncountedFits` asks (`RestartFits`): a counter never exceeds its budget, so what it had counted is covered.

`ByIPIsSwept` says that no counter of a caller outlives a sweep, and `Recent` that an open counter is
no older than the last request of its key, which is what a quiet caller needs.

### Nicknames

`TableInv` and `UniqueInv`: a key is that of its name, and no two accounts have one (the index).
`RequestInv`: a request says "taken" only when an account other than its own has had the key
since the last lull, and a skip that has left the name on its button has found it so;
this relates a request to history and is not implied by the table, which may have
changed since. `SkipInv`: a skip in the middle of its claims is for an account without
a name, or with one chosen since it arrived.

The theorems about texts are of another kind: no step, but what recursive functions return for a text
of any length.

- *Recursion.* `Scan` is the code's loop over the runes. That the recursive function has the value its
  definition says is shown as the library does it for numbers, without operators as parameters: a
  statement that fails for some length fails for a least one (`Counting`, from the well-foundedness of the numbers).
- *Spellings.* Lower-casing, folding and dropping spaces replace each rune by a short
  text, wherever it stands. Two of those agree on a text when they agree on each rune (case by case),
  and one of a concatenation is the concatenation of both. `Fold` is one of these, `FlattenSeq` of the
  fields another, so `WordsAreTheKey` comes down to runes.
- *Spaces.* Joining the fields with one space, or with a hyphen, is invisible to what drops both. From
  this, `SpacingIsNoHelp`: what was typed and what was normalised have the same words run together.
- *Normal form.* A text that `CheckRunes` accepts has no space at an end and no two in a row; its
  fields joined are that text, and it parses as itself.
- *Lengths.* `Build` is stem, ending, space, noun and perhaps a number; `Loadable` bounds the sum.

### Grading

`RequestInv` carries what a flush knew at the gate to its last card: the deck is *still*
open, and the number of cards logged is its place in the list. It needs `GateInv`
(rows only in open decks) and that open decks stay open, which is the arithmetic
of the gate: rows are never removed, so the coverage of a deck, a count over a finite set, only
grows, while the size it is compared with is the course's. `RowIsLastReview` and
`FlushIsPrefix` are inductive with these. Both are stated over positions of the log, not as
selections of it, so that an append is the only operation the proof meets.

### Course

`IInv` is `TypeOK` and that finitely many cards were answered. `GateIsTheShare` follows from `CeilingIsLeast`: the
need, a division rounded up, is the least number that is at least the fraction. The work is in the lemmas
about a release: what a start has checked of a course (`Starts`), that a deck is found on the shelf
by its name, that the need of a deck, a fraction of its size rounded up, does not grow when
the size does not, and that coverage, a count of answers, never shrinks.

### Rounds

The first half is about a batch, in any one state. Sorting and selecting are defined by what they return
(`SoonestFirst`, `InOrderOf`: an ordering of a set), and the work is to show that there is one and what any such
ordering has: every member, once (`Orderings`), a prefix being as long as it says (`UpToFacts`). That members of a list can be
put in the order of the list (`OrderExists`) takes induction over the list. It is done without an
operator as a parameter: the lengths at which the statement fails are a set of numbers, a set of numbers
has a least member (`LeastNumber`, from the well-foundedness of the library), and the step
of the induction refutes that one. `BatchFacts` collects the result. From it, if nothing is shown, a card that
is new or due and in the deck was left out by a batch full of due rows that the
deck no longer has, and as many different rows as the limit are that many strays: `Clogged`.

The second half relates states. `RestInv`: less than a day after a success, the rest of that day is
still to wait; `NothingPassedOver` says only that the card is not due, which the next tick could
change. `PromiseInv`: where an empty page names a time and no word was dropped, every word has a row, none of them
is due before that time, and one of them is due at it, whatever time has passed. An
answer is impossible then, a dropped word is either a stray at once or has no row, and time
takes one from the promise and from each wait, until all are due. `Tick` ranks the rows that are due
anew; that their ranks stay in range is that a set of waits is no larger than the deck.

### Client

`IInv == AnswerInv /\ PageInv(page, ...)`, where `PageInv` speaks of *a* page, so that it can be shown
of what each function of the script returns and then of the actions that call it:

- `OneCall`: one call is waited for at most. `Aside` is the exception that makes
  it worth stating: a profile's slips and the panel's line are not waited for; the first may find the session
  expired in the middle of anything, the second may come when the panel is another round's.
- `BoardInv`: the buttons are shown exactly while a card is drawn, and then the card is
  the current one, of the open deck, with no other screen below it.
- `RoundInv`: the answers on the page are of the open deck or `crossed`, and during a round they are
  exactly those to its cards so far. So a card is answered once, and a finished round is whole.
- `ScreenInv`: which screens are reached only without answers, or with answers that were sent.
  The panel of a finished round keeps `state.results`, and its buttons lead to
  `loadBatch`, which drops them; the profile opened from there leads back to the same deck,
  or to that of a late line, and then all answers on the page are `crossed` (`Astray`).
- `CallInv`: what the page is while a call is pending, which is what its answer will find: the
  deck of the call is the open deck, the answers of a flush are those on the page.
- `Kept`: every answer is on the page, filed or gone.

### Migration

- `ProcInv`: a process's list of statements is `Good`, a rule of what may follow what (`Follows`, `Misplaced`): a transaction is whole and nothing of
  it is outside, a column is added after its table, and nothing follows the port.
- `TxInv`: the open transaction is the rebuild or the claim, exactly as far as its process has come, over the
  file as it is committed. It says what a crash drops and what a commit puts in place.
- `FileInv`: the file is consistent, and every card that was answered has its row.
- `StartInv`: a start has done what is no longer on its list (`Done`), whoever did it, and the same of a
  claim (`ClaimInv`). No step takes back what another process has found done.

### Deploy

`HostInv` and `KeptInv` say for each command of a deployment where the good binary is, as
long as nothing excuses: under the name `uebung`, or beside it while there is none of
that name. `InstallInv` ties the file that is installed to the release that is deployed,
`ProcInv` the process to a release that may serve, `ToldInv` what was reported to the moment.

### What stays with TLC

- Liveness under fairness, and ENABLED (`LiveLinkHonoured`, `ExpiredRowsPurged`, `NothingStarves`,
  `CourseOpens`, both `ComesBack`): the provers do not reach it.
- That an MC module's abstract names and proposals are those of texts (`NamesAreTexts` in `MCNicknames`): a
  fact about one instance.
- What a fold of the library computes: the theorems about folds take an operator as a parameter. Where a
  theorem would need one, the definition is a recursive function (`Scan`, and the library's
  `FlattenSeq`, about which `NicknamesProofs` proves what it needs), or says what an ordering
  has (`Rounds`), or is a running total (`Limiter`).

## Divergences

Where a comment or a document says one thing and the code does another. The first
has a run with a counterexample; the others are in the models, where a constant or
an excuse named above stands for them, or follow from reading.

1. *Half-named* (`MigrationHalfNamed`, `sqlitedb.go:130` of identity). `addNicknameColumns`
   "brings an existing users table up to date" with two ALTERs in one Exec, without a
   transaction. A start interrupted between them leaves the first column only; every
   later start sees it, skips both, fails at the index on the second and exits.
2. *Purged alive* (`sqlitedb.go:358` of identity). A purge in a whole second deletes rows
   that have up to a second to live, as their text sorts after the stamp.

The page:

3. *A round is filed twice* (`app.js:1042`). `finishBatch` keeps `state.results` for its
   panel, and the way back to the shelf posts it again.
4. *A batch that is late* (`app.js:1080`). With the deck left meanwhile, it is dealt with
   no deck open, and its answers are filed under the nouns.
5. *A lost answer* (`app.js:1044`, `1082`). Answers given while a flush or a batch is in
   flight are dropped when it lands; a reveal armed while a batch is on its way
   advances the fresh one (`app.js:1059`).
   *A late line*, which also misfiles answers, is divergence 20.
6. *Arrow keys* (`app.js:1690`). In the introduction, opened from a round, an arrow key
   grades the card that was on the stack.

Study:

7. *Lost update* (`studybus.go:181`). Two flushes that grade one card at once log two
   reviews; the row counts and schedules one, and the later save may carry the earlier
   time (`studyapp.go:656`).
8. *Foreign rows open decks* (`studyapp.go:583`). Coverage counts every row filed under
   a deck, and `handleGrade` does not check that an item belongs to its deck.
9. *Clogged batches* (`studybus.go:131`). Due rows of words that have left a deck fill the
   limit and are then dropped: the page is empty although cards are due, and for as
   long as those rows exist. Where such a row is not due yet, the time an empty page names may be its time
   (`studyapp.go:851`), at which nothing is shown. "Due reviews are never capped" (`studybus.go:66`) does not
   mention the limit.
10. *Half a config* (`studybus.go`, `Config`). The zero Config is said to give a working
    scheduler, and its weights stay zero. An `Again` on the day of another review is not
    counted as a lapse, and the learning state is never produced.

Course:

11. *Rows are not validated at a start* (`main.go:108`). Only the catalog is; a bad noun or
    trigger row fails when a request loads it, and one bad noun makes the whole shelf answer 500.
12. *A deck that cannot be finished.* A noun that is listed twice is counted twice in
    the size that the gate needs, and a case deck without items takes the size of the nouns,
    though "a prerequisite with no items is treated as met" (`curriculumbus.go:112`): the decks
    behind them stay locked. Nor are the answers of a deck checked against those of its items.
13. *A gate that has opened can close*: a release that adds words raises its need. The
    test that says "can never close again" (`curriculumbus_test.go:199`) speaks of answers.

Sign-in:

14. Two first requests for one address collide on UNIQUE and one answers 500, where
    `README.md:57` says "always 202".
15. `handleLogout` answers "signed out" when the delete failed (`authapp.go:273`).
16. The window of a budget is fixed: an hour may see one mail less than twice the
    budget (`limiter.go:19`), and a restart, which forgets the counters, adds a whole budget to each hour it falls
    in. `byEmail` is never swept (`authapp.go:152`, `limiter.go:61`).

Deployment:

17. *The watchdog crosses* (`supervise.sh:113`, `deploy.sh:472`, `491`). The lock covers one start
    or stop. Between them cron may start the old binary: the database is then copied
    while it is written ("cannot be torn", `deploy.sh:474`), the old process answers the new one's health
    check, "deployed" is said of a binary that never ran and `uebung.prev` is removed.
18. *A cut, then a failure* (`deploy.sh:488`). A deployment cut off after its swap leaves
    an unproven binary, which the next one moves over the last good one.
19. *A stale previous binary* (`deploy.sh:559`). After a release that was kept without its public
    check, `uebung.prev` remains; a later deployment that fails before its swap rolls back past
    the release that ran. If it was cut off between the renames, the rollback's first
    rename fails for want of a file, and the script ends there.

The page again:

20. *A late line* (`app.js:1011`, `1506`; `crossed` in `Client`). `showSlipSummary` is not awaited. A round of
    one deck ends, the learner leaves and plays a round of another, and the line about the
    first comes when the panel reports the second. No call of `hideEverything`, `finishEmpty` or `finishLocked` hides it
    (`app.js:542`, `1591`, `1612`). Its button leads to the profile of the first deck, "Back to the deck" into
    a round of it; `state.results` still holds the second deck's answers until a batch is dealt,
    and if that batch fails and the learner leaves, they are posted once more, under the first deck. The
    flush is sent "naming the deck they belong to — without it the server would file every answer against the noun deck"
    (`app.js:1118`). `FiledUnderItsDeck` without its exception is violated in this way with three decks and batches
    of one card.

## Plan

Done: every module above, its runs, and the theorems above, which state every safety and action property
that a passing run checks. To come: `Client` composed with `Grading`, in place of the external server,
if the instance stays small enough to be worth it.

## Not modelled

- The formulas of FSRS (`foundation/fsrs`): floating-point numbers; `Rounds` lets them give any
  stability. Their rounding to days is in `IntervalDays`.
- `handleSummary`'s numbers and the page's counters: they read what `Grading` and `Rounds`
  have and change nothing.
- What an old binary does on a database that a new one has migrated: the old one is not
  part of this tree; `deploy/rehearse-rollback.sh` is the repository's own answer.
- `SUPERVISOR=systemd`. In `Deploy`, too: a binary that boots more slowly than the health check waits and
  an `ssh` that fails there, which lead to a rollback of a good binary (`deploy.sh:506`); and the check that
  `uebung.new` is there (`deploy.sh:466`), since an upload in the model has brought it.
- The five seconds in which `supervise.sh` waits for its process (`supervise.sh:55`): a start is
  taken to see its process through. Setup, backup and log commands of `deploy.sh`.
- Value types (`email`, `deckid`, `userid`), secrets, mail transport, logging, errors, static
  files and their ETags: pure functions, I/O, presentation.
- The test stores in memory: test doubles of what is modelled.
