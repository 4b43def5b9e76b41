------------------------------ MODULE Nicknames ------------------------------
(***************************************************************************)
(* Who is called what: authapp's handleMe, handleSetNickname and           *)
(* handleSkipNickname over identitybus and the identity store, beside the  *)
(* sign-in that writes the same row.                                       *)
(*                                                                         *)
(* A request runs in a goroutine of its own and interleaves with others    *)
(* between store calls; a store call is one action, the store having one   *)
(* connection.  The account was authenticated by the first step of each    *)
(* request (Identity models that); accounts exist from the start.  What a  *)
(* text is, and which texts are accepted, is Naming's; here a name is a    *)
(* value with the key it folds to.                                         *)
(*                                                                         *)
(* A definition no action uses, placed right before the one it resembles,  *)
(* is a plausible defect of it (README.md, "Mutants").                     *)
(***************************************************************************)
EXTENDS Integers, Functions

CONSTANTS
  Accounts,
  Names,            \* names that Parse accepts
  FoldOf,           \* the key of each name
  Typed,            \* names a request may hold (bound)
  Plain,            \* names the generator proposes in its first attempts
  Numbered,         \* names it proposes after them
  PlainAttempts,
  SuggestAttempts,
  Handlers,         \* requests that can be in flight at once (bound)
  MaxRequests,      \* requests between two lulls (bound)
  MaxFaults,        \* errors of the store, and crashes, between two lulls (bound)
  None              \* no name: the zero Nickname, a text that is refused

ASSUME NamesAssumption ==
  /\ Plain \cup Numbered \cup Typed \subseteq Names
  /\ None \notin Names
  /\ DOMAIN FoldOf = Names /\ \A n \in Names : FoldOf[n] # None

ASSUME AttemptsAssumption ==
  /\ PlainAttempts \in Nat /\ SuggestAttempts \in Nat \ {0}
  /\ MaxRequests \in Nat /\ MaxFaults \in Nat

VARIABLES
  users,    \* table users: account -> [nickname, fold]
  req,      \* the requests in flight
  sent,     \* how many requests there have been since the last lull
  faults,   \* how many store calls have failed since then
  \* History.
  claimed,  \* the last name each account was given
  renamed,  \* requests whose account was given a name since they arrived
  held      \* <<account, key>>: what was on an account since the last lull

vars == <<users, req, sent, faults, claimed, renamed, held>>

Idle == [pc |-> "idle", user |-> None, skip |-> FALSE, first |-> None, want |-> None,
         attempt |-> 0, row |-> None, answer |-> "none", name |-> None]

Init ==
  /\ users = [u \in Accounts |-> [nickname |-> None, fold |-> None]]
  /\ req = [h \in Handlers |-> Idle]
  /\ sent = 0 /\ faults = 0
  /\ claimed = [u \in Accounts |-> None]
  /\ renamed = {} /\ held = {}

At(h, pc) == req[h].pc = pc
Go(h, r) == req' = [req EXCEPT ![h] = r]
Answer(h, what) == Go(h, [req[h] EXCEPT !.pc = "answered", !.answer = what, !.attempt = 0])
AnswerName(h, name) == Go(h, [req[h] EXCEPT !.pc = "answered", !.answer = "name", !.name = name,
                                            !.attempt = 0])

-----------------------------------------------------------------------------
(* The store.                                                              *)

HasNickname(u) == users[u].nickname # None

KeyAsTyped(name) == name

\* The key the index and every look-up of a name are built on.
Key(name) == FoldOf[name]

\* UserByNickname.
Holders(name) == {u \in Accounts : users[u].fold = Key(name)}

\* NOT EXISTS, which leaves out the row of who claims.
Taken(name, u) == Holders(name) \ {u} # {}

\* SetNickname, when its WHERE clause matches.
Write(u, name) ==
  /\ users' = [users EXCEPT ![u] = [nickname |-> name, fold |-> Key(name)]]
  /\ claimed' = [claimed EXCEPT ![u] = name]
  /\ renamed' = renamed \cup {h \in Handlers : req[h].user = u}
  /\ held' = held \cup {<<u, FoldOf[name]>>}

-----------------------------------------------------------------------------
(* Requests.                                                               *)

\* What an attempt of the generator may propose.
Generate(attempt) == IF attempt < PlainAttempts THEN Plain ELSE Numbered

Receive(h, r) ==
  /\ At(h, "idle") /\ sent < MaxRequests /\ sent' = sent + 1
  /\ Go(h, r)
  /\ UNCHANGED <<users, faults, claimed, renamed, held>>

\* The answer for an account that has a name.
Named(u) == [Idle EXCEPT !.user = u, !.pc = "answered", !.answer = "name", !.name = users[u].nickname]

\* handleMe: only an account without a name is offered one.
Me(h, u) ==
  Receive(h, IF HasNickname(u) THEN Named(u) ELSE [Idle EXCEPT !.user = u, !.pc = "suggest"])

\* SuggestNickname: one proposal, and whether it is free.
Suggest(h) ==
  /\ At(h, "suggest")
  /\ \E name \in Generate(req[h].attempt) :
       IF Holders(name) = {} THEN AnswerName(h, name)
       ELSE IF req[h].attempt + 1 < SuggestAttempts
            THEN Go(h, [req[h] EXCEPT !.attempt = @ + 1])
            ELSE Answer(h, "no suggestion")
  /\ UNCHANGED <<users, sent, faults, claimed, renamed, held>>

\* handleSetNickname, up to the first store call.
PostNickname(h, u, name) ==
  Receive(h, IF name = None
             THEN [Idle EXCEPT !.user = u, !.pc = "answered", !.answer = "refused"]
             ELSE [Idle EXCEPT !.user = u, !.pc = "load", !.want = name])

PostSkipOverName(h, u, name) ==
  Receive(h, [Idle EXCEPT !.user = u, !.skip = TRUE, !.first = name, !.want = name,
                          !.attempt = IF name = None THEN 0 ELSE -1,
                          !.pc = IF name = None THEN "generate" ELSE "load"])

\* handleSkipNickname: a name that is there is left alone; a body without an
\* acceptable name asks for any.
PostSkip(h, u, name) ==
  Receive(h, IF HasNickname(u)
             THEN Named(u)
             ELSE [Idle EXCEPT !.user = u, !.skip = TRUE, !.first = name, !.want = name,
                               !.attempt = IF name = None THEN 0 ELSE -1,
                               !.pc = IF name = None THEN "generate" ELSE "load"])

\* AssignNickname asks for a name.
GenerateName(h) ==
  /\ At(h, "generate")
  /\ \E name \in Generate(req[h].attempt) :
       Go(h, [req[h] EXCEPT !.pc = "load", !.want = name])
  /\ UNCHANGED <<users, sent, faults, claimed, renamed, held>>

\* SetNickname of the business loads the account, which is there.
LoadAccount(h) ==
  /\ At(h, "load")
  /\ Go(h, [req[h] EXCEPT !.pc = "claim"])
  /\ UNCHANGED <<users, sent, faults, claimed, renamed, held>>

\* The name is taken: "set" reports it; "skip" goes on, from the preferred name
\* (attempt -1) to generated ones, until its attempts are used up.
Retry(h) ==
  CASE ~req[h].skip -> Answer(h, "taken")
    [] req[h].skip /\ req[h].attempt + 1 < SuggestAttempts ->
         Go(h, [req[h] EXCEPT !.pc = "generate", !.attempt = @ + 1])
    [] OTHER -> Answer(h, "failed")

\* SetNickname of the store, one statement.
Claim(h) ==
  /\ At(h, "claim")
  /\ LET r == req[h]
     IN  IF Taken(r.want, r.user)
         THEN Retry(h) /\ UNCHANGED <<users, claimed, renamed, held>>
         ELSE Write(r.user, r.want) /\ AnswerName(h, r.want)
  /\ UNCHANGED <<sent, faults>>

-----------------------------------------------------------------------------
(* Sign-in, as far as the row of the account is concerned (Redeem).        *)

SignIn(h, u) ==
  Receive(h, [Idle EXCEPT !.user = u, !.pc = "save", !.row = users[u].nickname])

SaveUserWhole(h) ==
  /\ At(h, "save")
  /\ users' = [users EXCEPT ![req[h].user] = [nickname |-> req[h].row,
                                                fold |-> IF req[h].row = None THEN None ELSE Key(req[h].row)]]
  /\ Answer(h, "signed in")
  /\ UNCHANGED <<sent, faults, claimed, renamed, held>>

\* The upsert writes verified and last_seen, and leaves the name columns out.
SaveUser(h) ==
  /\ At(h, "save")
  /\ Answer(h, "signed in")
  /\ UNCHANGED <<users, sent, faults, claimed, renamed, held>>

-----------------------------------------------------------------------------
Busy(h) == ~At(h, "idle") /\ ~At(h, "answered")

\* A store call returns an error, without having written.
Fail(h) ==
  /\ Busy(h) /\ ~At(h, "generate") /\ faults < MaxFaults /\ faults' = faults + 1
  /\ Answer(h, IF At(h, "suggest") THEN "no suggestion" ELSE "failed")
  /\ UNCHANGED <<users, sent, claimed, renamed, held>>

Crash ==
  /\ faults < MaxFaults /\ faults' = faults + 1
  /\ req' = [h \in Handlers |-> Idle] /\ renamed' = {}
  /\ UNCHANGED <<users, sent, claimed, held>>

\* The response is written.
Reply(h) ==
  /\ At(h, "answered")
  /\ Go(h, Idle) /\ renamed' = renamed \ {h}
  /\ UNCHANGED <<users, sent, faults, claimed, held>>

\* Nothing is in flight: the bounds start again.
Lull ==
  /\ sent = MaxRequests /\ \A h \in Handlers : At(h, "idle")
  /\ sent' = 0 /\ faults' = 0
  /\ held' = {<<u, FoldOf[users[u].nickname]>> : u \in {u \in Accounts : HasNickname(u)}}
  /\ UNCHANGED <<users, req, claimed, renamed>>

Step(h) ==
  \/ Suggest(h) \/ GenerateName(h) \/ LoadAccount(h) \/ Claim(h) \/ SaveUser(h) \/ Reply(h)

Next ==
  \/ \E h \in Handlers, u \in Accounts :
       \/ Me(h, u) \/ SignIn(h, u)
       \/ \E name \in Typed \cup {None} : PostNickname(h, u, name) \/ PostSkip(h, u, name)
  \/ \E h \in Handlers : Step(h) \/ Fail(h)
  \/ Crash \/ Lull

Spec == Init /\ [][Next]_vars

-----------------------------------------------------------------------------
(* Properties.                                                             *)

Answers == {"none", "name", "refused", "taken", "failed",
            "no suggestion", "signed in"}

Request == [pc      : {"idle", "suggest", "generate", "load", "claim", "save", "answered"},
            user    : Accounts \cup {None},
            skip    : BOOLEAN,
            first   : Names \cup {None},          \* the name on the skip button
            want    : Names \cup {None},          \* the name to claim next
            attempt : -1 .. SuggestAttempts - 1,
            row     : Names \cup {None},          \* what a sign-in has loaded
            answer  : Answers,
            name    : Names \cup {None}]          \* the name in the answer

\* The types; an attempt stays within suggestAttempts.
TypeOK ==
  /\ users \in [Accounts -> [nickname : Names \cup {None}, fold : Range(FoldOf) \cup {None}]]
  /\ req \in [Handlers -> Request]
  /\ sent \in 0..MaxRequests /\ faults \in 0..MaxFaults
  /\ claimed \in [Accounts -> Names \cup {None}] /\ renamed \subseteq Handlers
  /\ held \subseteq Accounts \X Range(FoldOf)

\* No two accounts have names that read alike, whatever claims overlap
\* (nickname.go:121, the unique index and SetNickname's NOT EXISTS); and the claims
\* are answered for what they are:
\*  - "taken" is only said of a name that somebody else has had, re-spelling one's
\*    own is not refused (identitybus.go:467);
\*  - who pressed "Be Blaue Eule" becomes Blaue Eule, unless somebody else got that
\*    name first: "giving them a different one makes the button a lie"
\*    (authapp.go:363).
ClaimsAreFair ==
  /\ TypeOK
  /\ \A u, v \in Accounts : u # v /\ HasNickname(u) /\ HasNickname(v) =>
       FoldOf[users[u].nickname] # FoldOf[users[v].nickname]
  /\ \A h \in Handlers :
       LET r == req[h]
           gone(name) == \E e \in held : e[1] # r.user /\ e[2] = FoldOf[name]
       IN  /\ r.answer = "taken" => gone(r.want)
           /\ At(h, "answered") /\ r.skip /\ r.first # None /\ r.answer = "name" =>
                r.name = r.first \/ gone(r.first)

\* An account has the last name that was claimed for it: a sign-in, "one stale
\* in-memory User away from clearing a name it was never asked to touch"
\* (sqlitedb.go:247), does not bring an earlier one back.
NameIsLastClaimed == \A u \in Accounts : users[u].nickname = claimed[u]

\* A skip replaces a name only if that was chosen after the skip arrived
\* (authapp.go:386): the account was looked at first, and is not looked at again.
SkipKeepsName ==
  [][\A h \in Handlers : At(h, "claim") /\ req[h].skip =>
       LET u == req[h].user
       IN  users'[u] # users[u] => users[u].nickname = None \/ h \in renamed
    ]_vars
=============================================================================
