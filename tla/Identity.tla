------------------------------ MODULE Identity ------------------------------
(***************************************************************************)
(* Sign-in: business/domain/identity/identitybus over its SQLite store.    *)
(*                                                                         *)
(* Every HTTP request runs in a goroutine of its own and calls the store   *)
(* once per step.  The store holds one connection, so a statement is       *)
(* atomic, but nothing holds between two statements of one request: each   *)
(* store call is an action of its own here, and the requests interleave.   *)
(* The hourly purge is one more process.  A crash (or a deploy's restart)  *)
(* forgets every request in flight and keeps the tables.                   *)
(*                                                                         *)
(* Time is counted in ticks, TicksPerSecond to the second, because the     *)
(* tables hold times as RFC 3339 text and compare that text.               *)
(*                                                                         *)
(* A definition no action uses, placed right before the one it resembles,  *)
(* is a plausible defect of it (README.md, "Mutants").                     *)
(***************************************************************************)
EXTENDS Integers, FiniteSets

CONSTANTS
  Emails,          \* addresses a link can be asked for
  UserIDs,         \* account ids that newUserID can mint
  Tokens,          \* login secrets: one drawn by each RequestLogin (bound)
  Sessions,        \* session secrets that Redeem can mint
  Handlers,        \* requests that can be in flight at once (bound)
  TokenTTL,        \* lifetime of a link, in ticks
  SessionTTL,      \* lifetime of a session, in ticks
  TicksPerSecond,  \* resolution of the clock below the second
  MaxTime,         \* the clock stops here (bound)
  MaxCrashes,      \* number of crashes (bound)
  MayFail,         \* whose store calls (and mails) may return an error
  None             \* no row, no value

ASSUME TimeAssumption ==
  /\ TokenTTL \in Nat \ {0}
  /\ SessionTTL \in Nat \ {0}
  /\ TicksPerSecond \in 1..10
  /\ MaxTime \in Nat
  /\ MaxCrashes \in Nat
  /\ MayFail \subseteq {"request", "purge"}

VARIABLES
  now,       \* the clock
  users,     \* table users:        id -> [email, verified], or None
  tokens,    \* table login_tokens: hash -> [user, expires, used], or None
  sessions,  \* table sessions:     hash -> [user, created, expires], or None
  req,       \* the requests in flight: what each goroutine holds in its locals
  purge,     \* the purge goroutine
  crashes,
  \* What the environment holds.
  mailbox,   \* the link a token was mailed in: [to, expires], or None
  cookies,   \* sessions whose secret some browser was given
  \* History.
  drawn,     \* ids and token secrets that were ever drawn
  origin,    \* the token each session was issued for, None before it is issued
  revoked    \* sessions that a Logout has deleted

tables == <<users, tokens, sessions>>
history == <<drawn, origin, revoked>>
vars == <<now, users, tokens, sessions, req, purge, crashes, mailbox, cookies,
          drawn, origin, revoked>>

-----------------------------------------------------------------------------
(* Rows and the times in them.                                             *)

Times == 0..(MaxTime + TokenTTL + SessionTTL)

UserRow    == [email : Emails, verified : BOOLEAN]
TokenRow   == [user : UserIDs, expires : Times, used : BOOLEAN]
SessionRow == [user : UserIDs, created : Times, expires : Times]
Mail       == [to : Emails, expires : Times]

ASSUME NoneAssumption ==
  /\ None \notin Emails \cup UserIDs \cup Tokens \cup Sessions
  /\ None \notin UserRow \cup TokenRow \cup SessionRow \cup Mail

IsRedeemableForEver(row, at) == ~row.used

IsRedeemable(row, at) == ~row.used /\ at < row.expires

IsLive(row, at) == at < row.expires

Second(t) == t \div TicksPerSecond

\* RFC3339Nano prints no fraction for a whole second, and "Z" sorts after ".":
\* within a second the whole second compares greatest.  (Fractions with more
\* digits are misplaced in the same way: "12Z" sorts after "123Z".)
FractionRank(t) == LET f == t % TicksPerSecond
                   IN  IF f = 0 THEN TicksPerSecond ELSE f

\* expires <= stamp, as SQLite compares the two texts.
TextLeq(a, b) ==
  \/ Second(a) < Second(b)
  \/ Second(a) = Second(b) /\ FractionRank(a) <= FractionRank(b)

-----------------------------------------------------------------------------
(* Requests in flight.                                                     *)

Idle == [pc |-> "idle", at |-> 0, addr |-> None, uid |-> None, tok |-> None,
         ses |-> None, clean |-> FALSE]

LoginPCs   == {"lookup", "create", "save_token", "send"}
RedeemPCs  == {"load", "claim", "user", "verify", "save_session", "set_cookie"}
ReplyPCs   == {"accepted", "failed", "signed_out", "granted"}
OtherPCs   == {"session", "account", "delete"}
PCs == {"idle"} \cup LoginPCs \cup RedeemPCs \cup OtherPCs \cup ReplyPCs

Request == [pc    : PCs,
            at    : 0..MaxTime,              \* the b.now() the request read
            addr  : Emails \cup {None},
            uid   : UserIDs \cup {None},
            tok   : Tokens \cup {None},
            ses   : Sessions \cup {None},
            clean : BOOLEAN]                 \* history, see Authenticate

TypeOK ==
  /\ now \in 0..MaxTime
  /\ users \in [UserIDs -> UserRow \cup {None}]
  /\ tokens \in [Tokens -> TokenRow \cup {None}]
  /\ sessions \in [Sessions -> SessionRow \cup {None}]
  /\ req \in [Handlers -> Request]
  /\ purge \in [pc : {"idle", "tokens", "sessions"}, at : 0..MaxTime]
  /\ crashes \in 0..MaxCrashes
  /\ mailbox \in [Tokens -> Mail \cup {None}]
  /\ cookies \subseteq Sessions
  /\ drawn \subseteq UserIDs \cup Tokens
  /\ origin \in [Sessions -> Tokens \cup {None}]
  /\ revoked \subseteq Sessions

Init ==
  /\ now = 0
  /\ users = [u \in UserIDs |-> None]
  /\ tokens = [t \in Tokens |-> None]
  /\ sessions = [s \in Sessions |-> None]
  /\ req = [h \in Handlers |-> Idle]
  /\ purge = [pc |-> "idle", at |-> 0]
  /\ crashes = 0
  /\ mailbox = [t \in Tokens |-> None]
  /\ cookies = {}
  /\ drawn = {}
  /\ origin = [s \in Sessions |-> None]
  /\ revoked = {}

At(h, pc) == req[h].pc = pc
Goto(h, pc) == req' = [req EXCEPT ![h].pc = pc]
Finish(h) == req' = [req EXCEPT ![h] = Idle]

-----------------------------------------------------------------------------
(* RequestLogin: find or create the account, store a link, mail it.        *)

\* The secret is drawn when the request starts: a random draw commutes with
\* every other step, and the pool Tokens bounds the number of requests.
RequestLogin(h, e, t) ==
  /\ At(h, "idle")
  /\ t \notin drawn
  /\ req' = [req EXCEPT ![h] = [Idle EXCEPT !.pc = "lookup", !.at = now,
                                            !.addr = e, !.tok = t]]
  /\ drawn' = drawn \cup {t}
  /\ UNCHANGED <<now, tables, purge, crashes, mailbox, cookies, origin, revoked>>

HasEmail(u, e) == users[u] # None /\ users[u].email = e

FindAnyAccount(h) ==
  /\ At(h, "lookup")
  /\ \E u \in UserIDs :
       /\ users[u] # None
       /\ req' = [req EXCEPT ![h].uid = u, ![h].pc = "save_token"]
  /\ UNCHANGED <<now, tables, purge, crashes, mailbox, cookies, history>>

\* UserByEmail.
FindAccount(h) ==
  /\ At(h, "lookup")
  /\ \E u \in UserIDs :
       /\ HasEmail(u, req[h].addr)
       /\ req' = [req EXCEPT ![h].uid = u, ![h].pc = "save_token"]
  /\ UNCHANGED <<now, tables, purge, crashes, mailbox, cookies, history>>

MintAccount(h) ==
  /\ At(h, "lookup")
  /\ \A u \in UserIDs : ~HasEmail(u, req[h].addr)
  /\ \E u \in UserIDs \ drawn :
       /\ req' = [req EXCEPT ![h].uid = u, ![h].pc = "create"]
       /\ drawn' = drawn \cup {u}
  /\ UNCHANGED <<now, tables, purge, crashes, mailbox, cookies, origin, revoked>>

EmailUnconstrained(e, u) == TRUE

\* The UNIQUE constraint on users.email.
EmailFree(e, u) == \A v \in UserIDs \ {u} : ~HasEmail(v, e)

SaveUserInsertOnly(u, e, isVerified) ==
  /\ EmailFree(e, u)
  /\ users' = IF users[u] # None THEN users
              ELSE [users EXCEPT ![u] = [email |-> e, verified |-> isVerified]]

\* INSERT ... ON CONFLICT (id) DO UPDATE.
SaveUser(u, e, isVerified) ==
  /\ EmailFree(e, u)
  /\ users' = [users EXCEPT ![u] = [email |-> e, verified |-> isVerified]]

CreateAccount(h) ==
  /\ At(h, "create")
  /\ SaveUser(req[h].uid, req[h].addr, FALSE)
  /\ Goto(h, "save_token")
  /\ UNCHANGED <<now, tokens, sessions, purge, crashes, mailbox, cookies, history>>

\* Another request has created the account since the lookup.
CreateAccountRefused(h) ==
  /\ At(h, "create")
  /\ ~EmailFree(req[h].addr, req[h].uid)
  /\ Goto(h, "failed")
  /\ UNCHANGED <<now, tables, purge, crashes, mailbox, cookies, history>>

SaveLoginToken(h) ==
  LET row == [user |-> req[h].uid, expires |-> req[h].at + TokenTTL, used |-> FALSE]
  IN  /\ At(h, "save_token")
      /\ tokens' = [tokens EXCEPT ![req[h].tok] = row]
      /\ Goto(h, "send")
      /\ UNCHANGED <<now, users, sessions, purge, crashes, mailbox, cookies, history>>

SendLoginLink(h) ==
  LET mail == [to |-> req[h].addr, expires |-> req[h].at + TokenTTL]
  IN  /\ At(h, "send")
      /\ mailbox' = [mailbox EXCEPT ![req[h].tok] = mail]
      /\ Goto(h, "accepted")
      /\ UNCHANGED <<now, tables, purge, crashes, cookies, history>>

-----------------------------------------------------------------------------
(* Redeem: claim the link, verify the account, open a session.             *)

\* Whoever reads the mail may submit the link, as often as they like.
Redeem(h, t) ==
  /\ At(h, "idle")
  /\ mailbox[t] # None
  /\ req' = [req EXCEPT ![h] = [Idle EXCEPT !.pc = "load", !.at = now, !.tok = t]]
  /\ UNCHANGED <<now, tables, purge, crashes, mailbox, cookies, history>>

Redeemable(h) ==
  /\ tokens[req[h].tok] # None
  /\ IsRedeemable(tokens[req[h].tok], req[h].at)

LoadToken(h) ==
  /\ At(h, "load")
  /\ IF Redeemable(h)
     THEN req' = [req EXCEPT ![h].uid = tokens[req[h].tok].user, ![h].pc = "claim"]
     ELSE Finish(h)
  /\ UNCHANGED <<now, tables, purge, crashes, mailbox, cookies, history>>

UnclaimedOrUsed(t) == tokens[t] # None

\* UPDATE login_tokens SET used = ? WHERE hash = ? AND used = ''.
Unclaimed(t) == tokens[t] # None /\ ~tokens[t].used

MarkLoginTokenUsed(h) ==
  /\ At(h, "claim")
  /\ IF Unclaimed(req[h].tok)
     THEN /\ tokens' = [tokens EXCEPT ![req[h].tok].used = TRUE]
          /\ Goto(h, "user")
     ELSE Finish(h) /\ UNCHANGED tokens
  /\ UNCHANGED <<now, users, sessions, purge, crashes, mailbox, cookies, history>>

LoadVerifiedUser(h) ==
  /\ At(h, "user")
  /\ LET row == users[req[h].uid]
     IN  IF row # None /\ row.verified
         THEN req' = [req EXCEPT ![h].addr = row.email, ![h].pc = "verify"]
         ELSE Finish(h)
  /\ UNCHANGED <<now, tables, purge, crashes, mailbox, cookies, history>>

\* UserByID.
LoadUser(h) ==
  /\ At(h, "user")
  /\ IF users[req[h].uid] # None
     THEN req' = [req EXCEPT ![h].addr = users[req[h].uid].email, ![h].pc = "verify"]
     ELSE Finish(h)
  /\ UNCHANGED <<now, tables, purge, crashes, mailbox, cookies, history>>

\* The address is the loaded one, so the UNIQUE constraint cannot refuse it
\* (see OneAccountPerAddress).
VerifyUser(h) ==
  /\ At(h, "verify")
  /\ SaveUser(req[h].uid, req[h].addr, TRUE)
  /\ Goto(h, "save_session")
  /\ UNCHANGED <<now, tokens, sessions, purge, crashes, mailbox, cookies, history>>

SessionForNobody(h) == [user |-> None, created |-> req[h].at,
                        expires |-> req[h].at + SessionTTL]

SessionFor(h) == [user    |-> req[h].uid,
                  created |-> req[h].at,
                  expires |-> req[h].at + SessionTTL]

SaveSession(h) ==
  /\ At(h, "save_session")
  /\ \E s \in Sessions :
       /\ origin[s] = None
       /\ sessions' = [sessions EXCEPT ![s] = SessionFor(h)]
       /\ origin' = [origin EXCEPT ![s] = req[h].tok]
       /\ req' = [req EXCEPT ![h].ses = s, ![h].pc = "set_cookie"]
  /\ UNCHANGED <<now, users, tokens, purge, crashes, mailbox, cookies, drawn, revoked>>

SetSessionCookie(h) ==
  /\ At(h, "set_cookie")
  /\ cookies' = cookies \cup {req[h].ses}
  /\ Finish(h)
  /\ UNCHANGED <<now, tables, purge, crashes, mailbox, history>>

-----------------------------------------------------------------------------
(* Authenticate and Logout.                                                *)

\* A browser keeps its cookie until Logout answers, and another device may
\* keep a copy for ever.  "clean" remembers that the session had not been
\* signed out when the request arrived.
Authenticate(h, s) ==
  /\ At(h, "idle")
  /\ s \in cookies
  /\ req' = [req EXCEPT ![h] = [Idle EXCEPT !.pc = "session", !.ses = s,
                                            !.clean = s \notin revoked]]
  /\ UNCHANGED <<now, tables, purge, crashes, mailbox, cookies, history>>

\* The code reads the clock after the row.  A row deleted between the two is
\* judged as if both were read before the deletion.
LoadSession(h) ==
  /\ At(h, "session")
  /\ LET row == sessions[req[h].ses]
     IN  IF row # None /\ IsLive(row, now)
         THEN req' = [req EXCEPT ![h].uid = row.user, ![h].pc = "account"]
         ELSE Finish(h)
  /\ UNCHANGED <<now, tables, purge, crashes, mailbox, cookies, history>>

LoadAccount(h) ==
  /\ At(h, "account")
  /\ LET row == users[req[h].uid]
     IN  IF row # None /\ row.verified THEN Goto(h, "granted") ELSE Finish(h)
  /\ UNCHANGED <<now, tables, purge, crashes, mailbox, cookies, history>>

Logout(h, s) ==
  /\ At(h, "idle")
  /\ s \in cookies
  /\ req' = [req EXCEPT ![h] = [Idle EXCEPT !.pc = "delete", !.ses = s]]
  /\ UNCHANGED <<now, tables, purge, crashes, mailbox, cookies, history>>

ClearCookieOnly(h) ==
  /\ At(h, "delete")
  /\ revoked' = revoked \cup {req[h].ses}
  /\ Goto(h, "signed_out")
  /\ UNCHANGED <<now, tables, purge, crashes, mailbox, cookies, drawn, origin>>

DeleteSession(h) ==
  /\ At(h, "delete")
  /\ sessions' = [sessions EXCEPT ![req[h].ses] = None]
  /\ revoked' = revoked \cup {req[h].ses}
  /\ Goto(h, "signed_out")
  /\ UNCHANGED <<now, users, tokens, purge, crashes, mailbox, cookies, drawn, origin>>

-----------------------------------------------------------------------------
(* Replies and errors.                                                     *)

Reply(h) ==
  /\ req[h].pc \in ReplyPCs
  /\ Finish(h)
  /\ UNCHANGED <<now, tables, purge, crashes, mailbox, cookies, history>>

\* A store call or the mailer returns an error, or the client has gone and its
\* context is cancelled.  handleLogout logs the error and answers all the same.
AfterError(pc) == CASE pc \in LoginPCs -> "failed"
                    [] pc = "delete"   -> "signed_out"
                    [] OTHER           -> "idle"

Fail(h) ==
  /\ "request" \in MayFail
  /\ req[h].pc \notin {"idle"} \cup ReplyPCs
  /\ LET next == AfterError(req[h].pc)
     IN  IF next = "idle" THEN Finish(h) ELSE Goto(h, next)
  /\ UNCHANGED <<now, tables, purge, crashes, mailbox, cookies, history>>

-----------------------------------------------------------------------------
(* The hourly purge: two statements, one stamp.                            *)

StartPurge ==
  /\ purge.pc = "idle"
  /\ purge' = [pc |-> "tokens", at |-> now]
  /\ UNCHANGED <<now, tables, req, crashes, mailbox, cookies, history>>

NotYetExpired(row, at) == row # None /\ TextLeq(at, row.expires)

Expired(row, at) == row # None /\ TextLeq(row.expires, at)

Without(table, at) ==
  [k \in DOMAIN table |-> IF Expired(table[k], at) THEN None ELSE table[k]]

PurgeTokensOnly ==
  /\ purge.pc = "tokens"
  /\ tokens' = Without(tokens, purge.at)
  /\ purge' = [purge EXCEPT !.pc = "idle"]
  /\ UNCHANGED <<now, users, sessions, req, crashes, mailbox, cookies, history>>

PurgeTokens ==
  /\ purge.pc = "tokens"
  /\ tokens' = Without(tokens, purge.at)
  /\ purge' = [purge EXCEPT !.pc = "sessions"]
  /\ UNCHANGED <<now, users, sessions, req, crashes, mailbox, cookies, history>>

PurgeSessions ==
  /\ purge.pc = "sessions"
  /\ sessions' = Without(sessions, purge.at)
  /\ purge' = [purge EXCEPT !.pc = "idle"]
  /\ UNCHANGED <<now, users, tokens, req, crashes, mailbox, cookies, history>>

PurgeError ==
  /\ "purge" \in MayFail
  /\ purge.pc # "idle"
  /\ purge' = [purge EXCEPT !.pc = "idle"]
  /\ UNCHANGED <<now, tables, req, crashes, mailbox, cookies, history>>

-----------------------------------------------------------------------------
Tick ==
  /\ now < MaxTime
  /\ now' = now + 1
  /\ UNCHANGED <<tables, req, purge, crashes, mailbox, cookies, history>>

\* A crash or a restart: the goroutines are gone, the committed rows are not.
Crash ==
  /\ crashes < MaxCrashes
  /\ crashes' = crashes + 1
  /\ req' = [h \in Handlers |-> Idle]
  /\ purge' = [purge EXCEPT !.pc = "idle"]
  /\ UNCHANGED <<now, tables, mailbox, cookies, history>>

\* What a request does once it has been received.
Step(h) ==
  \/ FindAccount(h)
  \/ MintAccount(h)
  \/ CreateAccount(h)
  \/ CreateAccountRefused(h)
  \/ SaveLoginToken(h)
  \/ SendLoginLink(h)
  \/ LoadToken(h)
  \/ MarkLoginTokenUsed(h)
  \/ LoadUser(h)
  \/ VerifyUser(h)
  \/ SaveSession(h)
  \/ SetSessionCookie(h)
  \/ LoadSession(h)
  \/ LoadAccount(h)
  \/ DeleteSession(h)
  \/ Reply(h)

Purge == StartPurge \/ PurgeTokens \/ PurgeSessions

Next ==
  \/ \E h \in Handlers :
       \/ \E e \in Emails, t \in Tokens : RequestLogin(h, e, t)
       \/ \E t \in Tokens : Redeem(h, t)
       \/ \E s \in Sessions : Authenticate(h, s) \/ Logout(h, s)
       \/ Step(h)
       \/ Fail(h)
  \/ Purge
  \/ PurgeError
  \/ Tick
  \/ Crash

Spec == Init /\ [][Next]_vars

-----------------------------------------------------------------------------
(* Safety.                                                                 *)

Issued == {s \in Sessions : origin[s] # None}

\* A link opens at most one session, however many requests submit it at once,
\* and whatever the purge, a failure or a crash does meanwhile.
SingleUse ==
  \A s1, s2 \in Issued : origin[s1] = origin[s2] => s1 = s2

\* "An unverified user holding a live session should be impossible": every
\* session row belongs to a verified account.
SessionsVerified ==
  \A s \in Sessions : sessions[s] # None =>
    /\ users[sessions[s].user] # None
    /\ users[sessions[s].user].verified

\* A session belongs to the account of the address whose inbox received its
\* link: two requests creating that account at once cannot cross them over.
SessionBelongsToInbox ==
  \A s \in Sessions : sessions[s] # None =>
    /\ mailbox[origin[s]] # None
    /\ HasEmail(sessions[s].user, mailbox[origin[s]].to)

\* No session comes from a link that had expired when it was submitted.
SessionFromLiveLink ==
  \A s \in Sessions : sessions[s] # None =>
    sessions[s].created < mailbox[origin[s]].expires

\* The address is the account: no two rows share one.
OneAccountPerAddress ==
  \A u, v \in UserIDs : users[u] # None /\ HasEmail(v, users[u].email) => u = v

\* A request that arrives after its session was signed out is never granted,
\* even while sign-in, purge and other requests for it are in flight.
SignOutSticks ==
  \A h \in Handlers : At(h, "granted") => req[h].clean

\* Nothing that is purged had a second or more left to live.
PurgedAreDue ==
  [][/\ \A t \in Tokens : tokens[t] # None /\ tokens'[t] = None
          => Second(tokens[t].expires) <= Second(now)
     /\ \A s \in Sessions : sessions[s] # None /\ sessions'[s] = None
          => s \in revoked' \/ Second(sessions[s].expires) <= Second(now)]_vars

-----------------------------------------------------------------------------
(* Liveness.  The Go scheduler and the HTTP server run every request that  *)
(* was received; the ticker of purgeLoop never stops, and the store does   *)
(* not fail for ever.  Nothing makes a person ask for, submit or close     *)
(* anything, and nothing makes time pass unless ClockFairness says so.     *)

RequestFairness == \A h \in Handlers : WF_vars(Step(h))
PurgeFairness   == WF_vars(StartPurge) /\ SF_vars(PurgeTokens) /\ SF_vars(PurgeSessions)
ClockFairness   == WF_vars(Tick)

FairSpec == Spec /\ RequestFairness /\ PurgeFairness /\ ClockFairness

Due(t) == mailbox[t] # None /\ Second(mailbox[t].expires) <= Second(now)

\* Where no store call fails, submitting a link that is still good leads to a
\* session from it, by this request or by a rival one, unless the server goes
\* down, or the link falls due before the request has claimed it.
LiveLinkHonoured ==
  \A t \in Tokens :
    (\E h \in Handlers : At(h, "claim") /\ req[h].tok = t /\ Unclaimed(t))
      ~> (\E s \in Issued : origin[s] = t) \/ Due(t) \/ crashes > 0

\* Every row whose time is up goes away, however often the server crashes or
\* the purge fails half way; the last instant of the clock is a whole second.
ExpiredRowsPurged ==
  /\ \A t \in Tokens : tokens[t] # None /\ tokens[t].expires <= now
       ~> tokens[t] = None
  /\ \A s \in Sessions : sessions[s] # None /\ sessions[s].expires <= now
       ~> sessions[s] = None

=============================================================================
