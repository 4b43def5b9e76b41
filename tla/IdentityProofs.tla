--------------------------- MODULE IdentityProofs ---------------------------
(***************************************************************************)
(* Proofs about Identity, for any number of addresses, accounts, links,    *)
(* sessions and concurrent requests, any clock and any number of crashes,  *)
(* and that it implements MagicLink: what a person sees of sign-in is what *)
(* MagicLink promises.                                                     *)
(***************************************************************************)
EXTENDS IdentityRefinement, TLAPS

-----------------------------------------------------------------------------
(* The inductive invariant, in parts.                                      *)

Creating   == {"create", "save_token", "send"}
Owning     == {"save_token", "send"}
Submitting == {"claim", "user", "verify", "save_session"}
Claiming   == {"user", "verify", "save_session"}
OnSession  == {"set_cookie", "session", "account", "delete", "signed_out", "granted"}

\* What a request holds by the time it gets to each of its steps.
Locals ==
  \A h \in Handlers :
    /\ req[h].pc \in LoginPCs => req[h].addr \in Emails /\ req[h].tok \in Tokens
    /\ req[h].pc \in RedeemPCs => req[h].tok \in Tokens
    /\ req[h].pc \in Creating \cup Submitting \cup {"account"} => req[h].uid \in UserIDs
    /\ req[h].pc \in {"verify", "save_session"} => req[h].addr \in Emails
    /\ req[h].pc \in OnSession => req[h].ses \in Sessions

\* Ids are fresh, addresses are unique, and a request that goes on with an
\* account goes on with the account of its address.
AccountInv ==
  /\ \A u \in UserIDs : users[u] # None => u \in drawn
  /\ \A h \in Handlers : At(h, "create") =>
       /\ req[h].uid \in drawn
       /\ users[req[h].uid] = None
       /\ \A g \in Handlers : At(g, "create") /\ req[g].uid = req[h].uid => g = h
  /\ \A h \in Handlers : req[h].pc \in Owning \cup {"verify", "save_session"} =>
       HasEmail(req[h].uid, req[h].addr)
  /\ OneAccountPerAddress

\* A secret is drawn by one request, stored and mailed at most once, for the
\* account of the address it is mailed to.
LinkInv ==
  /\ \A t \in Tokens : tokens[t] # None \/ mailbox[t] # None => t \in drawn
  /\ \A h \in Handlers : req[h].pc \in LoginPCs =>
       /\ req[h].tok \in drawn
       /\ mailbox[req[h].tok] = None
       /\ ~At(h, "send") => tokens[req[h].tok] = None
       /\ \A g \in Handlers : req[g].pc \in LoginPCs /\ req[g].tok = req[h].tok => g = h
  /\ \A h \in Handlers : At(h, "send") /\ tokens[req[h].tok] # None =>
       /\ tokens[req[h].tok].user = req[h].uid
       /\ tokens[req[h].tok].expires = req[h].at + TokenTTL
  /\ \A t \in Tokens : tokens[t] # None /\ mailbox[t] # None =>
       /\ HasEmail(tokens[t].user, mailbox[t].to)
       /\ tokens[t].expires = mailbox[t].expires

\* What a request holds on its way through Redeem: a mailed link, then the
\* account of the address it was mailed to, then a claim that has opened no
\* session, and at last a verified account.
Claim(h) ==
  /\ req[h].pc \in RedeemPCs => mailbox[req[h].tok] # None
  /\ req[h].pc \in Submitting =>
       /\ HasEmail(req[h].uid, mailbox[req[h].tok].to)
       /\ req[h].at < mailbox[req[h].tok].expires
  /\ req[h].pc \in Claiming =>
       /\ ~Unclaimed(req[h].tok)
       /\ \A s \in Sessions : origin[s] # req[h].tok
  /\ At(h, "save_session") => users[req[h].uid].verified

\* A claim is exclusive, and what it opened stays claimed.
ClaimInv ==
  /\ \A h \in Handlers : Claim(h)
  /\ \A g, h \in Handlers :
       req[g].pc \in Claiming /\ req[h].pc \in Claiming /\ req[g].tok = req[h].tok => g = h
  /\ \A s \in Issued : mailbox[origin[s]] # None /\ ~Unclaimed(origin[s])
  /\ SingleUse

\* A session row: issued for a link, in time, to a verified account that has
\* the address the link was mailed to.
Row(s) ==
  sessions[s] # None =>
    /\ s \in Issued
    /\ users[sessions[s].user] # None /\ users[sessions[s].user].verified
    /\ HasEmail(sessions[s].user, mailbox[origin[s]].to)
    /\ sessions[s].created < mailbox[origin[s]].expires

\* What a request holds once it has read a session cookie.
On(h) ==
  /\ req[h].pc \in OnSession => req[h].ses \in Issued
  /\ At(h, "session") /\ ~req[h].clean => req[h].ses \in revoked
  /\ req[h].pc \in {"account", "granted"} => req[h].clean

\* Session rows, the requests about them, and what signing out leaves.
SessionInv ==
  /\ \A s \in Sessions : Row(s)
  /\ \A h \in Handlers : On(h)
  /\ cookies \subseteq Issued
  /\ \A s \in revoked : s \in Issued /\ sessions[s] = None

IInv == TypeOK /\ Locals /\ AccountInv /\ LinkInv /\ ClaimInv /\ SessionInv

-----------------------------------------------------------------------------
(* Type correctness.                                                       *)

\* A handler that serves nothing.
LEMMA IdleType == Idle \in Request
  BY TimeAssumption DEF Idle, Request, PCs

\* A request moves on.
LEMMA GotoType ==
  ASSUME req \in [Handlers -> Request], NEW h \in Handlers, NEW p \in PCs, Goto(h, p)
  PROVE  req' \in [Handlers -> Request]
  BY DEF Goto, Request

\* A request moves on with what a store call returned.
LEMMA UpdateType ==
  ASSUME req \in [Handlers -> Request], NEW h \in Handlers, NEW p \in PCs
  PROVE  /\ \A u \in UserIDs :
              [req EXCEPT ![h].uid = u, ![h].pc = p] \in [Handlers -> Request]
         /\ \A e \in Emails :
              [req EXCEPT ![h].addr = e, ![h].pc = p] \in [Handlers -> Request]
         /\ \A s \in Sessions :
              [req EXCEPT ![h].ses = s, ![h].pc = p] \in [Handlers -> Request]
<1>1. ASSUME NEW u \in UserIDs
      PROVE  [req EXCEPT ![h].uid = u, ![h].pc = p] \in [Handlers -> Request]
  BY DEF Request
<1>2. ASSUME NEW e \in Emails
      PROVE  [req EXCEPT ![h].addr = e, ![h].pc = p] \in [Handlers -> Request]
  BY DEF Request
<1>3. ASSUME NEW s \in Sessions
      PROVE  [req EXCEPT ![h].ses = s, ![h].pc = p] \in [Handlers -> Request]
  BY DEF Request
<1> QED BY <1>1, <1>2, <1>3

\* A request ends.
LEMMA FinishType ==
  ASSUME req \in [Handlers -> Request], NEW h \in Handlers, Finish(h)
  PROVE  req' \in [Handlers -> Request]
  BY IdleType DEF Finish

\* What the arrival of a request preserves.
LEMMA ArrivalStep ==
  ASSUME TypeOK, NEW h \in Handlers,
         \/ \E e \in Emails, t \in Tokens : RequestLogin(h, e, t)
         \/ \E t \in Tokens : Redeem(h, t)
         \/ \E s \in Sessions : Authenticate(h, s) \/ Logout(h, s)
  PROVE  TypeOK'
<1> USE TimeAssumption DEF TypeOK, tables, history
<1>1. ASSUME NEW e \in Emails, NEW t \in Tokens, RequestLogin(h, e, t) PROVE TypeOK'
  <2>1. [Idle EXCEPT !.pc = "lookup", !.at = now, !.addr = e, !.tok = t] \in Request
    BY IdleType DEF Idle, Request, PCs, LoginPCs, RedeemPCs, OtherPCs
  <2> QED BY <1>1, <2>1 DEF RequestLogin
<1>2. ASSUME NEW t \in Tokens, Redeem(h, t) PROVE TypeOK'
  <2>1. [Idle EXCEPT !.pc = "load", !.at = now, !.tok = t] \in Request
    BY IdleType DEF Idle, Request, PCs, LoginPCs, RedeemPCs, OtherPCs
  <2> QED BY <1>2, <2>1 DEF Redeem
<1>3. ASSUME NEW s \in Sessions, Authenticate(h, s) PROVE TypeOK'
  <2>1. PICK c \in BOOLEAN : c = (s \notin revoked)
    OBVIOUS
  <2>2. [Idle EXCEPT !.pc = "session", !.ses = s, !.clean = c] \in Request
    BY IdleType DEF Idle, Request, PCs, LoginPCs, RedeemPCs, OtherPCs
  <2>3. req' = [req EXCEPT ![h] = [Idle EXCEPT !.pc = "session", !.ses = s, !.clean = c]]
    BY <1>3, <2>1, Zenon DEF Authenticate
  <2>4. req' \in [Handlers -> Request]
    BY <2>2, <2>3
  <2>5. UNCHANGED <<now, tables, purge, crashes, mailbox, cookies, history>>
    BY <1>3, Zenon DEF Authenticate
  <2> QED BY <2>4, <2>5
<1>4. ASSUME NEW s \in Sessions, Logout(h, s) PROVE TypeOK'
  <2>1. [Idle EXCEPT !.pc = "delete", !.ses = s] \in Request
    BY IdleType DEF Idle, Request, PCs, LoginPCs, RedeemPCs, OtherPCs
  <2> QED BY <1>4, <2>1 DEF Logout
<1> QED BY <1>1, <1>2, <1>3, <1>4

\* What a step of a received request preserves.
LEMMA RequestStep ==
  ASSUME TypeOK, Locals, NEW h \in Handlers, Step(h) \/ Fail(h)
  PROVE  TypeOK'
<1> USE TimeAssumption DEF TypeOK, tables, history
<1>p. /\ "save_token" \in PCs /\ "create" \in PCs /\ "failed" \in PCs /\ "send" \in PCs
      /\ "accepted" \in PCs /\ "claim" \in PCs /\ "user" \in PCs /\ "verify" \in PCs
      /\ "save_session" \in PCs /\ "set_cookie" \in PCs /\ "account" \in PCs
      /\ "granted" \in PCs /\ "signed_out" \in PCs
  BY DEF PCs, LoginPCs, RedeemPCs, OtherPCs, ReplyPCs
<1>r. req[h] \in Request
  OBVIOUS
<1>1. CASE FindAccount(h)
  <2>1. PICK u \in UserIDs : req' = [req EXCEPT ![h].uid = u, ![h].pc = "save_token"]
    BY <1>1 DEF FindAccount
  <2>2. req' \in [Handlers -> Request]
    BY <1>p, <2>1, UpdateType
  <2> QED BY <1>1, <2>2 DEF FindAccount
<1>2. CASE MintAccount(h)
  <2>1. PICK u \in UserIDs : /\ req' = [req EXCEPT ![h].uid = u, ![h].pc = "create"]
                             /\ drawn' = drawn \cup {u}
    BY <1>2 DEF MintAccount
  <2>2. req' \in [Handlers -> Request]
    BY <1>p, <2>1, UpdateType
  <2> QED BY <1>2, <2>1, <2>2 DEF MintAccount
<1>3. CASE CreateAccount(h)
  <2>1. req[h].uid \in UserIDs /\ req[h].addr \in Emails
    BY <1>3 DEF CreateAccount, At, Locals, Creating, LoginPCs
  <2>2. users' \in [UserIDs -> UserRow \cup {None}]
    BY <1>3, <2>1 DEF CreateAccount, SaveUser, UserRow
  <2> QED BY <1>3, <1>p, <2>2, GotoType DEF CreateAccount
<1>4. CASE CreateAccountRefused(h)
  BY <1>4, <1>p, GotoType DEF CreateAccountRefused
<1>5. CASE SaveLoginToken(h)
  <2>1. req[h].uid \in UserIDs /\ req[h].tok \in Tokens
    BY <1>5 DEF SaveLoginToken, At, Locals, Creating, LoginPCs
  <2>2. req[h].at + TokenTTL \in Times
    BY <1>r DEF Times, Request
  <2>3. tokens' \in [Tokens -> TokenRow \cup {None}]
    BY <1>5, <2>1, <2>2 DEF SaveLoginToken, TokenRow
  <2> QED BY <1>5, <1>p, <2>3, GotoType DEF SaveLoginToken
<1>6. CASE SendLoginLink(h)
  <2>1. req[h].addr \in Emails /\ req[h].tok \in Tokens
    BY <1>6 DEF SendLoginLink, At, Locals, LoginPCs
  <2>2. req[h].at + TokenTTL \in Times
    BY <1>r DEF Times, Request
  <2>3. mailbox' \in [Tokens -> Mail \cup {None}]
    BY <1>6, <2>1, <2>2 DEF SendLoginLink, Mail
  <2> QED BY <1>6, <1>p, <2>3, GotoType DEF SendLoginLink
<1>7. CASE LoadToken(h)
  <2>1. req[h].tok \in Tokens
    BY <1>7 DEF LoadToken, At, Locals, RedeemPCs
  <2>2. CASE Redeemable(h)
    <3>1. tokens[req[h].tok] \in TokenRow
      BY <2>1, <2>2 DEF Redeemable
    <3>2. req' \in [Handlers -> Request]
      <4>1. PICK x \in UserIDs : x = tokens[req[h].tok].user
        BY <3>1 DEF TokenRow
      <4>2. req' = [req EXCEPT ![h].uid = x, ![h].pc = "claim"]
        BY <1>7, <2>2, <4>1 DEF LoadToken
      <4> QED BY <1>p, <4>2, UpdateType
    <3> QED BY <1>7, <3>2 DEF LoadToken
  <2>3. CASE ~Redeemable(h)
    BY <1>7, <2>3, FinishType DEF LoadToken
  <2> QED BY <2>2, <2>3
<1>8. CASE MarkLoginTokenUsed(h)
  <2>1. req[h].tok \in Tokens
    BY <1>8 DEF MarkLoginTokenUsed, At, Locals, RedeemPCs
  <2>2. CASE Unclaimed(req[h].tok)
    <3>1. tokens' \in [Tokens -> TokenRow \cup {None}]
      <4>1. PICK row \in TokenRow : row = tokens[req[h].tok]
        BY <2>1, <2>2 DEF Unclaimed
      <4>2. [row EXCEPT !.used = TRUE] \in TokenRow
        BY DEF TokenRow
      <4>3. tokens' = [tokens EXCEPT ![req[h].tok] = [row EXCEPT !.used = TRUE]]
        BY <1>8, <2>2, <4>1 DEF MarkLoginTokenUsed
      <4> QED BY <2>1, <4>2, <4>3
    <3> QED BY <1>8, <1>p, <2>2, <3>1, GotoType DEF MarkLoginTokenUsed
  <2>3. CASE ~Unclaimed(req[h].tok)
    BY <1>8, <2>3, FinishType DEF MarkLoginTokenUsed
  <2> QED BY <2>2, <2>3
<1>9. CASE LoadUser(h)
  <2>1. req[h].uid \in UserIDs
    BY <1>9 DEF LoadUser, At, Locals, Submitting
  <2>2. CASE users[req[h].uid] # None
    <3>1. users[req[h].uid] \in UserRow
      BY <2>1, <2>2
    <3>2. req' \in [Handlers -> Request]
      <4>1. PICK x \in Emails : x = users[req[h].uid].email
        BY <3>1 DEF UserRow
      <4>2. req' = [req EXCEPT ![h].addr = x, ![h].pc = "verify"]
        BY <1>9, <2>2, <4>1 DEF LoadUser
      <4> QED BY <1>p, <4>2, UpdateType
    <3> QED BY <1>9, <3>2 DEF LoadUser
  <2>3. CASE users[req[h].uid] = None
    BY <1>9, <2>3, FinishType DEF LoadUser
  <2> QED BY <2>2, <2>3
<1>10. CASE VerifyUser(h)
  <2>1. req[h].uid \in UserIDs /\ req[h].addr \in Emails
    BY <1>10 DEF VerifyUser, At, Locals, Submitting
  <2>2. users' \in [UserIDs -> UserRow \cup {None}]
    BY <1>10, <2>1 DEF VerifyUser, SaveUser, UserRow
  <2> QED BY <1>10, <1>p, <2>2, GotoType DEF VerifyUser
<1>11. CASE SaveSession(h)
  <2>1. req[h].uid \in UserIDs /\ req[h].tok \in Tokens
    BY <1>11 DEF SaveSession, At, Locals, Submitting, RedeemPCs
  <2>2. SessionFor(h) \in SessionRow
    BY <1>r, <2>1 DEF SessionFor, SessionRow, Times, Request
  <2>3. req' \in [Handlers -> Request]
    <3>1. PICK s \in Sessions : req' = [req EXCEPT ![h].ses = s, ![h].pc = "set_cookie"]
      BY <1>11 DEF SaveSession
    <3> QED BY <1>p, <3>1, UpdateType
  <2> QED BY <1>11, <2>1, <2>2, <2>3 DEF SaveSession
<1>12. CASE SetSessionCookie(h)
  <2>1. req[h].ses \in Sessions
    BY <1>12 DEF SetSessionCookie, At, Locals, OnSession
  <2> QED BY <1>12, <2>1, FinishType DEF SetSessionCookie
<1>13. CASE LoadSession(h)
  <2>1. req[h].ses \in Sessions
    BY <1>13 DEF LoadSession, At, Locals, OnSession
  <2>2. CASE sessions[req[h].ses] # None /\ IsLive(sessions[req[h].ses], now)
    <3>1. sessions[req[h].ses] \in SessionRow
      BY <2>1, <2>2
    <3>2. req' \in [Handlers -> Request]
      <4>1. PICK x \in UserIDs : x = sessions[req[h].ses].user
        BY <3>1 DEF SessionRow
      <4>2. req' = [req EXCEPT ![h].uid = x, ![h].pc = "account"]
        BY <1>13, <2>2, <4>1 DEF LoadSession
      <4> QED BY <1>p, <4>2, UpdateType
    <3> QED BY <1>13, <3>2 DEF LoadSession
  <2>3. CASE ~(sessions[req[h].ses] # None /\ IsLive(sessions[req[h].ses], now))
    BY <1>13, <2>3, FinishType DEF LoadSession
  <2> QED BY <2>2, <2>3
<1>14. CASE LoadAccount(h)
  BY <1>14, <1>p, GotoType, FinishType DEF LoadAccount
<1>15. CASE DeleteSession(h)
  <2>1. req[h].ses \in Sessions
    BY <1>15 DEF DeleteSession, At, Locals, OnSession
  <2> QED BY <1>15, <1>p, <2>1, GotoType DEF DeleteSession
<1>16. CASE Reply(h)
  BY <1>16, FinishType DEF Reply
<1>17. CASE Fail(h)
  <2>1. AfterError(req[h].pc) \in PCs
    BY DEF AfterError, PCs, ReplyPCs
  <2> QED BY <1>17, <2>1, GotoType, FinishType DEF Fail
<1> QED
  BY <1>1, <1>2, <1>3, <1>4, <1>5, <1>6, <1>7, <1>8, <1>9, <1>10, <1>11, <1>12, <1>13,
     <1>14, <1>15, <1>16, <1>17 DEF Step

\* What the purge, the clock and a crash preserve.
LEMMA ServerStep ==
  ASSUME TypeOK, Purge \/ PurgeError \/ Tick \/ Crash
  PROVE  TypeOK'
  BY TimeAssumption, IdleType
     DEF TypeOK, Purge, StartPurge, PurgeTokens, PurgeSessions, Without, PurgeError, Tick,
         Crash, tables, history

\* A request never reaches a step without the locals that step reads.
LEMMA LocalsStep ==
  ASSUME TypeOK, TypeOK', Locals, [Next]_vars
  PROVE  Locals'
<1> USE DEF Locals, At, Goto, Finish, Idle, LoginPCs, RedeemPCs, OtherPCs, ReplyPCs,
        Creating, Submitting, OnSession, tables, history
<1>1. ASSUME NEW h \in Handlers, NEW e \in Emails, NEW t \in Tokens, RequestLogin(h, e, t)
      PROVE Locals'
  BY <1>1 DEF RequestLogin, TypeOK
<1>2. ASSUME NEW h \in Handlers, NEW t \in Tokens, Redeem(h, t) PROVE Locals'
  BY <1>2 DEF Redeem, TypeOK
<1>3. ASSUME NEW h \in Handlers, NEW s \in Sessions, Authenticate(h, s) PROVE Locals'
  BY <1>3 DEF Authenticate, TypeOK
<1>4. ASSUME NEW h \in Handlers, NEW s \in Sessions, Logout(h, s) PROVE Locals'
  BY <1>4 DEF Logout, TypeOK
<1>5. ASSUME NEW h \in Handlers, FindAccount(h) PROVE Locals'
  BY <1>5 DEF FindAccount, TypeOK, Request
<1>6. ASSUME NEW h \in Handlers, MintAccount(h) PROVE Locals'
  BY <1>6 DEF MintAccount, TypeOK, Request
<1>7. ASSUME NEW h \in Handlers, CreateAccount(h) PROVE Locals'
  BY <1>7 DEF CreateAccount, TypeOK
<1>8. ASSUME NEW h \in Handlers, CreateAccountRefused(h) PROVE Locals'
  BY <1>8 DEF CreateAccountRefused, TypeOK
<1>9. ASSUME NEW h \in Handlers, SaveLoginToken(h) PROVE Locals'
  BY <1>9 DEF SaveLoginToken, TypeOK
<1>10. ASSUME NEW h \in Handlers, SendLoginLink(h) PROVE Locals'
  BY <1>10 DEF SendLoginLink, TypeOK
<1>11. ASSUME NEW h \in Handlers, LoadToken(h) PROVE Locals'
  BY <1>11 DEF LoadToken, Redeemable, TypeOK, TokenRow, Request
<1>12. ASSUME NEW h \in Handlers, MarkLoginTokenUsed(h) PROVE Locals'
  BY <1>12 DEF MarkLoginTokenUsed, TypeOK, Request
<1>13. ASSUME NEW h \in Handlers, LoadUser(h) PROVE Locals'
  BY <1>13 DEF LoadUser, TypeOK, UserRow, Request
<1>14. ASSUME NEW h \in Handlers, VerifyUser(h) PROVE Locals'
  BY <1>14 DEF VerifyUser, TypeOK
<1>15. ASSUME NEW h \in Handlers, SaveSession(h) PROVE Locals'
  BY <1>15 DEF SaveSession, TypeOK, Request
<1>16. ASSUME NEW h \in Handlers, SetSessionCookie(h) PROVE Locals'
  BY <1>16 DEF SetSessionCookie, TypeOK
<1>17. ASSUME NEW h \in Handlers, LoadSession(h) PROVE Locals'
  BY <1>17 DEF LoadSession, TypeOK, SessionRow, Request
<1>18. ASSUME NEW h \in Handlers, LoadAccount(h) PROVE Locals'
  BY <1>18 DEF LoadAccount, TypeOK, Request
<1>19. ASSUME NEW h \in Handlers, DeleteSession(h) PROVE Locals'
  BY <1>19 DEF DeleteSession, TypeOK
<1>20. ASSUME NEW h \in Handlers, Reply(h) PROVE Locals'
  BY <1>20 DEF Reply, TypeOK
<1>21. ASSUME NEW h \in Handlers, Fail(h) PROVE Locals'
  BY <1>21 DEF Fail, AfterError, TypeOK, Request
<1>22. CASE StartPurge
  BY <1>22 DEF StartPurge
<1>23. CASE PurgeTokens
  BY <1>23 DEF PurgeTokens
<1>24. CASE PurgeSessions
  BY <1>24 DEF PurgeSessions
<1>25. CASE PurgeError
  BY <1>25 DEF PurgeError
<1>26. CASE Tick
  BY <1>26 DEF Tick
<1>27. CASE Crash
  BY <1>27 DEF Crash
<1>28. CASE UNCHANGED vars
  BY <1>28 DEF vars
<1> QED
  BY <1>1, <1>2, <1>3, <1>4, <1>5, <1>6, <1>7, <1>8, <1>9, <1>10, <1>11, <1>12, <1>13,
     <1>14, <1>15, <1>16, <1>17, <1>18, <1>19, <1>20, <1>21, <1>22, <1>23, <1>24, <1>25,
     <1>26, <1>27, <1>28 DEF Next, Step, Purge

-----------------------------------------------------------------------------
(* What never changes back.                                                *)

\* An account keeps its address and its verification, a mail and the origin of
\* a session are never rewritten, and a mailed link that has been claimed or
\* purged stays so.
Monotone ==
  /\ \A u \in UserIDs, e \in Emails : HasEmail(u, e) => HasEmail(u, e)'
  /\ \A u \in UserIDs : users[u] # None /\ users[u].verified
       => users'[u] # None /\ users'[u].verified
  /\ \A t \in Tokens : mailbox[t] # None => mailbox'[t] = mailbox[t]
  /\ \A t \in Tokens : mailbox[t] # None /\ ~Unclaimed(t) => ~Unclaimed(t)'
  /\ \A s \in Sessions : origin[s] # None => origin'[s] = origin[s]
  /\ drawn \subseteq drawn'

\* No step undoes an account's address or verification, a mail, the origin of a
\* session, or the claim on a mailed link.
LEMMA MonotoneStep ==
  ASSUME TypeOK, Locals, AccountInv, LinkInv, [Next]_vars
  PROVE  Monotone
<1> USE DEF Monotone, HasEmail, Unclaimed, At, tables, history
<1>1. ASSUME NEW h \in Handlers, NEW e \in Emails, NEW t \in Tokens, RequestLogin(h, e, t)
      PROVE Monotone
  BY <1>1 DEF RequestLogin, TypeOK
<1>2. ASSUME NEW h \in Handlers, NEW t \in Tokens, Redeem(h, t) PROVE Monotone
  BY <1>2 DEF Redeem, TypeOK
<1>3. ASSUME NEW h \in Handlers, NEW s \in Sessions, Authenticate(h, s) PROVE Monotone
  BY <1>3 DEF Authenticate, TypeOK
<1>4. ASSUME NEW h \in Handlers, NEW s \in Sessions, Logout(h, s) PROVE Monotone
  BY <1>4 DEF Logout, TypeOK
<1>5. ASSUME NEW h \in Handlers, FindAccount(h) PROVE Monotone
  BY <1>5 DEF FindAccount, TypeOK
<1>6. ASSUME NEW h \in Handlers, MintAccount(h) PROVE Monotone
  BY <1>6 DEF MintAccount, TypeOK
<1>7. ASSUME NEW h \in Handlers, CreateAccount(h) PROVE Monotone
  BY <1>7 DEF CreateAccount, TypeOK, SaveUser, AccountInv, Locals, Creating, UserRow
<1>8. ASSUME NEW h \in Handlers, CreateAccountRefused(h) PROVE Monotone
  BY <1>8 DEF CreateAccountRefused, TypeOK
<1>9. ASSUME NEW h \in Handlers, SaveLoginToken(h) PROVE Monotone
  BY <1>9 DEF SaveLoginToken, TypeOK, LinkInv, Locals, LoginPCs
<1>10. ASSUME NEW h \in Handlers, SendLoginLink(h) PROVE Monotone
  BY <1>10 DEF SendLoginLink, TypeOK, LinkInv, Locals, LoginPCs
<1>11. ASSUME NEW h \in Handlers, LoadToken(h) PROVE Monotone
  BY <1>11 DEF LoadToken, TypeOK
<1>12. ASSUME NEW h \in Handlers, MarkLoginTokenUsed(h) PROVE Monotone
  BY <1>12 DEF MarkLoginTokenUsed, TypeOK, TokenRow, Locals, RedeemPCs
<1>13. ASSUME NEW h \in Handlers, LoadUser(h) PROVE Monotone
  BY <1>13 DEF LoadUser, TypeOK
<1>14. ASSUME NEW h \in Handlers, VerifyUser(h) PROVE Monotone
  <2> DEFINE u == req[h].uid
             row == [email |-> req[h].addr, verified |-> TRUE]
  <2>1. u \in UserIDs /\ HasEmail(u, req[h].addr)
    BY <1>14 DEF VerifyUser, AccountInv, Locals, Submitting
  <2>2. users' = [users EXCEPT ![u] = row]
    BY <1>14 DEF VerifyUser, SaveUser
  <2>3. row # None
    <3>1. req[h].addr \in Emails
      BY <1>14 DEF VerifyUser, At, Locals
    <3>2. row \in UserRow
      BY <3>1 DEF UserRow
    <3> QED BY <3>2, NoneAssumption
  <2>4. UNCHANGED <<tokens, mailbox, origin, drawn>>
    BY <1>14 DEF VerifyUser
  <2> QED BY <2>1, <2>2, <2>3, <2>4 DEF TypeOK
<1>15. ASSUME NEW h \in Handlers, SaveSession(h) PROVE Monotone
  BY <1>15 DEF SaveSession, TypeOK, Request
<1>16. ASSUME NEW h \in Handlers, SetSessionCookie(h) PROVE Monotone
  BY <1>16 DEF SetSessionCookie, TypeOK
<1>17. ASSUME NEW h \in Handlers, LoadSession(h) PROVE Monotone
  BY <1>17 DEF LoadSession, TypeOK
<1>18. ASSUME NEW h \in Handlers, LoadAccount(h) PROVE Monotone
  BY <1>18 DEF LoadAccount, TypeOK
<1>19. ASSUME NEW h \in Handlers, DeleteSession(h) PROVE Monotone
  BY <1>19 DEF DeleteSession, TypeOK
<1>20. ASSUME NEW h \in Handlers, Reply(h) PROVE Monotone
  BY <1>20 DEF Reply, TypeOK
<1>21. ASSUME NEW h \in Handlers, Fail(h) PROVE Monotone
  BY <1>21 DEF Fail, TypeOK
<1>22. CASE StartPurge
  BY <1>22 DEF StartPurge, TypeOK
<1>23. CASE PurgeTokens
  BY <1>23 DEF PurgeTokens, TypeOK, Without
<1>24. CASE PurgeSessions
  BY <1>24 DEF PurgeSessions, TypeOK
<1>25. CASE PurgeError
  BY <1>25 DEF PurgeError, TypeOK
<1>26. CASE Tick
  BY <1>26 DEF Tick, TypeOK
<1>27. CASE Crash
  BY <1>27 DEF Crash, TypeOK
<1>28. CASE UNCHANGED vars
  BY <1>28 DEF vars
<1> QED
  BY <1>1, <1>2, <1>3, <1>4, <1>5, <1>6, <1>7, <1>8, <1>9, <1>10, <1>11, <1>12, <1>13,
     <1>14, <1>15, <1>16, <1>17, <1>18, <1>19, <1>20, <1>21, <1>22, <1>23, <1>24, <1>25,
     <1>26, <1>27, <1>28 DEF Next, Step, Purge

-----------------------------------------------------------------------------
(* Accounts.                                                               *)

\* A request that does not go on with an account keeps AccountInv if it leaves
\* the accounts alone.
LEMMA AccountFrame ==
  ASSUME AccountInv, NEW h \in Handlers,
         \A g \in Handlers : g # h => req'[g] = req[g],
         req'[h].pc \notin Owning \cup {"create", "verify", "save_session"},
         users' = users, drawn \subseteq drawn'
  PROVE  AccountInv'
BY DEF AccountInv, OneAccountPerAddress, Owning, HasEmail, At

\* Account ids stay fresh until they are saved, and addresses stay unique.
LEMMA AccountStep ==
  ASSUME TypeOK, TypeOK', Locals, Monotone, AccountInv, [Next]_vars
  PROVE  AccountInv'
<1> USE NoneAssumption DEF AccountInv, OneAccountPerAddress, Owning, Monotone, HasEmail,
        At, Goto, Finish, Idle, LoginPCs, RedeemPCs, OtherPCs, ReplyPCs, tables, history
<1>1. ASSUME NEW h \in Handlers, NEW e \in Emails, NEW t \in Tokens, RequestLogin(h, e, t)
      PROVE AccountInv'
  BY <1>1 DEF RequestLogin, TypeOK, Request
<1>2. ASSUME NEW h \in Handlers, NEW t \in Tokens, Redeem(h, t) PROVE AccountInv'
  <2>1. \A g \in Handlers : g # h => req'[g] = req[g]
    BY <1>2 DEF Redeem, TypeOK
  <2>2. req'[h].pc \in {"load"}
    BY <1>2 DEF Redeem, TypeOK, Request
  <2>3. UNCHANGED <<users, drawn>>
    BY <1>2 DEF Redeem
  <2> QED BY <2>1, <2>2, <2>3, AccountFrame
<1>3. ASSUME NEW h \in Handlers, NEW s \in Sessions, Authenticate(h, s) PROVE AccountInv'
  <2>1. \A g \in Handlers : g # h => req'[g] = req[g]
    BY <1>3 DEF Authenticate, TypeOK
  <2>2. req'[h].pc \in {"session"}
    BY <1>3 DEF Authenticate, TypeOK, Request
  <2>3. UNCHANGED <<users, drawn>>
    BY <1>3 DEF Authenticate
  <2> QED BY <2>1, <2>2, <2>3, AccountFrame
<1>4. ASSUME NEW h \in Handlers, NEW s \in Sessions, Logout(h, s) PROVE AccountInv'
  <2>1. \A g \in Handlers : g # h => req'[g] = req[g]
    BY <1>4 DEF Logout, TypeOK
  <2>2. req'[h].pc \in {"delete"}
    BY <1>4 DEF Logout, TypeOK, Request
  <2>3. UNCHANGED <<users, drawn>>
    BY <1>4 DEF Logout
  <2> QED BY <2>1, <2>2, <2>3, AccountFrame
<1>5. ASSUME NEW h \in Handlers, FindAccount(h) PROVE AccountInv'
  BY <1>5 DEF FindAccount, TypeOK, Request, UserRow
<1>6. ASSUME NEW h \in Handlers, MintAccount(h) PROVE AccountInv'
  BY <1>6 DEF MintAccount, TypeOK, Request, UserRow
<1>7. ASSUME NEW h \in Handlers, CreateAccount(h) PROVE AccountInv'
  <2> DEFINE u == req[h].uid
             row == [email |-> req[h].addr, verified |-> FALSE]
  <2>1. /\ u \in UserIDs /\ req[h].addr \in Emails
        /\ users[u] = None /\ u \in drawn
    BY <1>7 DEF CreateAccount, Locals, Creating
  <2>2. row \in UserRow /\ row # None
    <3>1. row \in UserRow
      BY <2>1 DEF UserRow
    <3> QED BY <3>1
  <2>3. users' = [users EXCEPT ![u] = row] /\ EmailFree(req[h].addr, u)
    BY <1>7 DEF CreateAccount, SaveUser
  <2>4. \A g \in Handlers : g # h => req'[g] = req[g]
    BY <1>7 DEF CreateAccount, TypeOK
  <2>5. /\ req'[h].pc = "save_token" /\ req'[h].uid = u /\ req'[h].addr = req[h].addr
        /\ drawn' = drawn
    BY <1>7 DEF CreateAccount, TypeOK, Request
  <2>6. \A v \in UserIDs : v # u => users'[v] = users[v]
    BY <2>3 DEF TypeOK
  <2>7. users'[u] = row
    BY <2>1, <2>3 DEF TypeOK
  <2>8. OneAccountPerAddress'
    BY <2>1, <2>3, <2>6, <2>7 DEF EmailFree
  <2>9. \A g \in Handlers : At(g, "create")' =>
          /\ g # h /\ At(g, "create") /\ req[g].uid # u
    BY <1>7, <2>4, <2>5 DEF CreateAccount
  <2>10. \A g \in Handlers : At(g, "create") => req[g].uid \in UserIDs
    BY DEF Locals, Creating
  <2>11. \A g \in Handlers : req'[g].pc \in Owning \cup {"verify", "save_session"} =>
           HasEmail(req[g].uid, req[g].addr)' 
    <3>1. HasEmail(u, req[h].addr)'
      BY <2>2, <2>5, <2>7
    <3>2. \A g \in Handlers : g # h /\ req[g].pc \in Owning \cup {"verify", "save_session"} =>
            /\ req[g].uid \in UserIDs /\ HasEmail(req[g].uid, req[g].addr)
      BY DEF Locals, Creating, Submitting
    <3>3. \A g \in Handlers : g # h /\ req[g].pc \in Owning \cup {"verify", "save_session"} =>
            req[g].uid # u
      BY <3>2, <2>1
    <3> QED BY <2>4, <2>5, <2>6, <3>1, <3>2, <3>3
  <2> QED BY <2>1, <2>4, <2>5, <2>6, <2>7, <2>8, <2>9, <2>10, <2>11
<1>8. ASSUME NEW h \in Handlers, CreateAccountRefused(h) PROVE AccountInv'
  <2>1. \A g \in Handlers : g # h => req'[g] = req[g]
    BY <1>8 DEF CreateAccountRefused, TypeOK
  <2>2. req'[h].pc \in {"failed"}
    BY <1>8 DEF CreateAccountRefused, TypeOK, Request
  <2>3. UNCHANGED <<users, drawn>>
    BY <1>8 DEF CreateAccountRefused
  <2> QED BY <2>1, <2>2, <2>3, AccountFrame
<1>9. ASSUME NEW h \in Handlers, SaveLoginToken(h) PROVE AccountInv'
  BY <1>9 DEF SaveLoginToken, TypeOK, Request
<1>10. ASSUME NEW h \in Handlers, SendLoginLink(h) PROVE AccountInv'
  <2>1. \A g \in Handlers : g # h => req'[g] = req[g]
    BY <1>10 DEF SendLoginLink, TypeOK
  <2>2. req'[h].pc \in {"accepted"}
    BY <1>10 DEF SendLoginLink, TypeOK, Request
  <2>3. UNCHANGED <<users, drawn>>
    BY <1>10 DEF SendLoginLink
  <2> QED BY <2>1, <2>2, <2>3, AccountFrame
<1>11. ASSUME NEW h \in Handlers, LoadToken(h) PROVE AccountInv'
  <2>1. \A g \in Handlers : g # h => req'[g] = req[g]
    BY <1>11 DEF LoadToken, TypeOK
  <2>2. req'[h].pc \in {"idle", "claim"}
    BY <1>11 DEF LoadToken, TypeOK, Request
  <2>3. UNCHANGED <<users, drawn>>
    BY <1>11 DEF LoadToken
  <2> QED BY <2>1, <2>2, <2>3, AccountFrame
<1>12. ASSUME NEW h \in Handlers, MarkLoginTokenUsed(h) PROVE AccountInv'
  <2>1. \A g \in Handlers : g # h => req'[g] = req[g]
    BY <1>12 DEF MarkLoginTokenUsed, TypeOK
  <2>2. req'[h].pc \in {"idle", "user"}
    BY <1>12 DEF MarkLoginTokenUsed, TypeOK, Request
  <2>3. UNCHANGED <<users, drawn>>
    BY <1>12 DEF MarkLoginTokenUsed
  <2> QED BY <2>1, <2>2, <2>3, AccountFrame
<1>13. ASSUME NEW h \in Handlers, LoadUser(h) PROVE AccountInv'
  <2>1. \A g \in Handlers : g # h => req'[g] = req[g]
    BY <1>13 DEF LoadUser, TypeOK
  <2>2. req'[h].pc \in {"idle", "verify"}
    BY <1>13 DEF LoadUser, TypeOK, Request
  <2>3. UNCHANGED <<users, drawn>>
    BY <1>13 DEF LoadUser
  <2>4. req'[h].pc = "verify" => HasEmail(req'[h].uid, req'[h].addr)
    BY <1>13 DEF LoadUser, TypeOK, Request
  <2> QED BY <2>1, <2>2, <2>3, <2>4
<1>14. ASSUME NEW h \in Handlers, VerifyUser(h) PROVE AccountInv'
  BY <1>14 DEF VerifyUser, TypeOK, Request, SaveUser, EmailFree, Locals, Submitting, UserRow
<1>15. ASSUME NEW h \in Handlers, SaveSession(h) PROVE AccountInv'
  <2>1. \A g \in Handlers : g # h => req'[g] = req[g]
    BY <1>15 DEF SaveSession, TypeOK
  <2>2. req'[h].pc \in {"set_cookie"}
    BY <1>15 DEF SaveSession, TypeOK, Request
  <2>3. UNCHANGED <<users, drawn>>
    BY <1>15 DEF SaveSession
  <2> QED BY <2>1, <2>2, <2>3, AccountFrame
<1>16. ASSUME NEW h \in Handlers, SetSessionCookie(h) PROVE AccountInv'
  <2>1. \A g \in Handlers : g # h => req'[g] = req[g]
    BY <1>16 DEF SetSessionCookie, TypeOK
  <2>2. req'[h].pc \in {"idle"}
    BY <1>16 DEF SetSessionCookie, TypeOK, Request
  <2>3. UNCHANGED <<users, drawn>>
    BY <1>16 DEF SetSessionCookie
  <2> QED BY <2>1, <2>2, <2>3, AccountFrame
<1>17. ASSUME NEW h \in Handlers, LoadSession(h) PROVE AccountInv'
  <2>1. \A g \in Handlers : g # h => req'[g] = req[g]
    BY <1>17 DEF LoadSession, TypeOK
  <2>2. req'[h].pc \in {"idle", "account"}
    BY <1>17 DEF LoadSession, TypeOK, Request
  <2>3. UNCHANGED <<users, drawn>>
    BY <1>17 DEF LoadSession
  <2> QED BY <2>1, <2>2, <2>3, AccountFrame
<1>18. ASSUME NEW h \in Handlers, LoadAccount(h) PROVE AccountInv'
  <2>1. \A g \in Handlers : g # h => req'[g] = req[g]
    BY <1>18 DEF LoadAccount, TypeOK
  <2>2. req'[h].pc \in {"idle", "granted"}
    BY <1>18 DEF LoadAccount, TypeOK, Request
  <2>3. UNCHANGED <<users, drawn>>
    BY <1>18 DEF LoadAccount
  <2> QED BY <2>1, <2>2, <2>3, AccountFrame
<1>19. ASSUME NEW h \in Handlers, DeleteSession(h) PROVE AccountInv'
  <2>1. \A g \in Handlers : g # h => req'[g] = req[g]
    BY <1>19 DEF DeleteSession, TypeOK
  <2>2. req'[h].pc \in {"signed_out"}
    BY <1>19 DEF DeleteSession, TypeOK, Request
  <2>3. UNCHANGED <<users, drawn>>
    BY <1>19 DEF DeleteSession
  <2> QED BY <2>1, <2>2, <2>3, AccountFrame
<1>20. ASSUME NEW h \in Handlers, Reply(h) PROVE AccountInv'
  <2>1. \A g \in Handlers : g # h => req'[g] = req[g]
    BY <1>20 DEF Reply, TypeOK
  <2>2. req'[h].pc \in {"idle"}
    BY <1>20 DEF Reply, TypeOK, Request
  <2>3. UNCHANGED <<users, drawn>>
    BY <1>20 DEF Reply
  <2> QED BY <2>1, <2>2, <2>3, AccountFrame
<1>21. ASSUME NEW h \in Handlers, Fail(h) PROVE AccountInv'
  <2>1. \A g \in Handlers : g # h => req'[g] = req[g]
    BY <1>21 DEF Fail, TypeOK, AfterError
  <2>2. req'[h].pc \in {"idle", "failed", "signed_out"}
    BY <1>21 DEF Fail, TypeOK, Request, AfterError
  <2>3. UNCHANGED <<users, drawn>>
    BY <1>21 DEF Fail
  <2> QED BY <2>1, <2>2, <2>3, AccountFrame
<1>22. CASE StartPurge
  BY <1>22 DEF StartPurge, TypeOK, Request
<1>23. CASE PurgeTokens
  BY <1>23 DEF PurgeTokens, TypeOK, Request, Without
<1>24. CASE PurgeSessions
  BY <1>24 DEF PurgeSessions, TypeOK, Request, Without
<1>25. CASE PurgeError
  BY <1>25 DEF PurgeError, TypeOK, Request
<1>26. CASE Tick
  BY <1>26 DEF Tick, TypeOK, Request
<1>27. CASE Crash
  BY <1>27 DEF Crash, TypeOK, Request
<1>28. CASE UNCHANGED vars
  BY <1>28 DEF vars, TypeOK, Request
<1> QED
  BY <1>1, <1>2, <1>3, <1>4, <1>5, <1>6, <1>7, <1>8, <1>9, <1>10, <1>11, <1>12, <1>13,
     <1>14, <1>15, <1>16, <1>17, <1>18, <1>19, <1>20, <1>21, <1>22, <1>23, <1>24, <1>25,
     <1>26, <1>27, <1>28 DEF Next, Step, Purge

-----------------------------------------------------------------------------
(* Links.                                                                  *)

\* A request that is not signing in keeps LinkInv if it leaves the links alone.
LEMMA LinkFrame ==
  ASSUME LinkInv, NEW h \in Handlers,
         \A g \in Handlers : g # h => req'[g] = req[g],
         req'[h].pc \notin LoginPCs,
         UNCHANGED <<users, tokens, mailbox, drawn>>
  PROVE  LinkInv'
BY DEF LinkInv, HasEmail, At, LoginPCs

\* So does one that goes on signing in with the secret it has drawn.
LEMMA LinkCarried ==
  ASSUME LinkInv, NEW h \in Handlers,
         \A g \in Handlers : g # h => req'[g] = req[g],
         req[h].pc \in LoginPCs \ {"send"}, req'[h].pc \in LoginPCs \ {"send"},
         req'[h].tok = req[h].tok,
         UNCHANGED <<users, tokens, mailbox>>, drawn \subseteq drawn'
  PROVE  LinkInv'
BY DEF LinkInv, HasEmail, At, LoginPCs

\* A link stays bound to the one request that drew it, until it is mailed.
LEMMA LinkStep ==
  ASSUME TypeOK, TypeOK', Locals, Monotone, AccountInv, LinkInv, [Next]_vars
  PROVE  LinkInv'
<1> USE NoneAssumption DEF LinkInv, HasEmail, Monotone, At, Goto, Finish, Idle, LoginPCs,
        RedeemPCs, OtherPCs, ReplyPCs, tables, history
<1>1. ASSUME NEW h \in Handlers, NEW e \in Emails, NEW t \in Tokens, RequestLogin(h, e, t)
      PROVE LinkInv'
  BY <1>1 DEF RequestLogin, TypeOK, Request, Locals
<1>2. ASSUME NEW h \in Handlers, NEW t \in Tokens, Redeem(h, t) PROVE LinkInv'
  <2>1. \A g \in Handlers : g # h => req'[g] = req[g]
    BY <1>2 DEF Redeem, TypeOK
  <2>2. req'[h].pc \in {"load"}
    BY <1>2 DEF Redeem, TypeOK, Request
  <2>3. UNCHANGED <<users, tokens, mailbox, drawn>>
    BY <1>2 DEF Redeem
  <2> QED BY <2>1, <2>2, <2>3, LinkFrame
<1>3. ASSUME NEW h \in Handlers, NEW s \in Sessions, Authenticate(h, s) PROVE LinkInv'
  <2>1. \A g \in Handlers : g # h => req'[g] = req[g]
    BY <1>3 DEF Authenticate, TypeOK
  <2>2. req'[h].pc \in {"session"}
    BY <1>3 DEF Authenticate, TypeOK, Request
  <2>3. UNCHANGED <<users, tokens, mailbox, drawn>>
    BY <1>3 DEF Authenticate
  <2> QED BY <2>1, <2>2, <2>3, LinkFrame
<1>4. ASSUME NEW h \in Handlers, NEW s \in Sessions, Logout(h, s) PROVE LinkInv'
  <2>1. \A g \in Handlers : g # h => req'[g] = req[g]
    BY <1>4 DEF Logout, TypeOK
  <2>2. req'[h].pc \in {"delete"}
    BY <1>4 DEF Logout, TypeOK, Request
  <2>3. UNCHANGED <<users, tokens, mailbox, drawn>>
    BY <1>4 DEF Logout
  <2> QED BY <2>1, <2>2, <2>3, LinkFrame
<1>5. ASSUME NEW h \in Handlers, FindAccount(h) PROVE LinkInv'
  <2>1. \A g \in Handlers : g # h => req'[g] = req[g]
    BY <1>5 DEF FindAccount, TypeOK
  <2>2. /\ req[h].pc = "lookup" /\ req'[h].pc = "save_token"
        /\ req'[h].tok = req[h].tok
    BY <1>5 DEF FindAccount, TypeOK, Request
  <2>3. UNCHANGED <<users, tokens, mailbox>> /\ drawn \subseteq drawn'
    BY <1>5 DEF FindAccount
  <2> QED BY <2>1, <2>2, <2>3, LinkCarried
<1>6. ASSUME NEW h \in Handlers, MintAccount(h) PROVE LinkInv'
  <2>1. \A g \in Handlers : g # h => req'[g] = req[g]
    BY <1>6 DEF MintAccount, TypeOK
  <2>2. /\ req[h].pc = "lookup" /\ req'[h].pc = "create"
        /\ req'[h].tok = req[h].tok
    BY <1>6 DEF MintAccount, TypeOK, Request
  <2>3. UNCHANGED <<users, tokens, mailbox>> /\ drawn \subseteq drawn'
    BY <1>6 DEF MintAccount
  <2> QED BY <2>1, <2>2, <2>3, LinkCarried
<1>7. ASSUME NEW h \in Handlers, CreateAccount(h) PROVE LinkInv'
  <2>1. \A g \in Handlers : g # h => req'[g] = req[g]
    BY <1>7 DEF CreateAccount, TypeOK
  <2>2. req'[h].pc \in {"save_token"}
    BY <1>7 DEF CreateAccount, TypeOK, Request
  <2>3. UNCHANGED <<tokens, mailbox, drawn>>
    BY <1>7 DEF CreateAccount
  <2>4. \A t \in Tokens : tokens[t] # None /\ mailbox[t] # None =>
          HasEmail(tokens[t].user, mailbox[t].to)'
    <3>1. \A t \in Tokens : tokens[t] # None /\ mailbox[t] # None =>
            tokens[t].user \in UserIDs /\ mailbox[t].to \in Emails
      BY DEF TypeOK, TokenRow, Mail
    <3>2. \A t \in Tokens : tokens[t] # None /\ mailbox[t] # None =>
            HasEmail(tokens[t].user, mailbox[t].to)
      OBVIOUS
    <3> QED BY <2>3, <3>1, <3>2
  <2>5. At(h, "create") /\ req'[h].tok = req[h].tok
    BY <1>7 DEF CreateAccount, TypeOK, Request
  <2> QED BY <2>1, <2>2, <2>3, <2>4, <2>5
<1>8. ASSUME NEW h \in Handlers, CreateAccountRefused(h) PROVE LinkInv'
  <2>1. \A g \in Handlers : g # h => req'[g] = req[g]
    BY <1>8 DEF CreateAccountRefused, TypeOK
  <2>2. req'[h].pc \in {"failed"}
    BY <1>8 DEF CreateAccountRefused, TypeOK, Request
  <2>3. UNCHANGED <<users, tokens, mailbox, drawn>>
    BY <1>8 DEF CreateAccountRefused
  <2> QED BY <2>1, <2>2, <2>3, LinkFrame
<1>9. ASSUME NEW h \in Handlers, SaveLoginToken(h) PROVE LinkInv'
  <2> DEFINE k == req[h].tok
             row == [user |-> req[h].uid, expires |-> req[h].at + TokenTTL, used |-> FALSE]
  <2>1. \A g \in Handlers : g # h => req'[g] = req[g]
    BY <1>9 DEF SaveLoginToken, TypeOK
  <2>2. /\ At(h, "save_token") /\ req'[h].pc = "send"
        /\ req'[h].tok = k /\ req'[h].uid = req[h].uid /\ req'[h].at = req[h].at
    BY <1>9 DEF SaveLoginToken, TypeOK, Request
  <2>3. k \in Tokens
    BY <2>2 DEF Locals
  <2>4. tokens' = [tokens EXCEPT ![k] = row] /\ UNCHANGED <<users, mailbox, drawn>>
    BY <1>9 DEF SaveLoginToken
  <2>5. /\ row.user = req[h].uid
        /\ row.expires = req[h].at + TokenTTL
    OBVIOUS
  <2> HIDE DEF row
  <2>6. tokens'[k] = row /\ \A t \in Tokens : t # k => tokens'[t] = tokens[t]
    BY <2>3, <2>4 DEF TypeOK
  <2>7. k \in drawn /\ mailbox[k] = None
    BY <2>2
  <2>8. \A g \in Handlers : g # h /\ req[g].pc \in LoginPCs =>
          req[g].tok # k /\ req[g].tok \in Tokens
    BY <2>2 DEF Locals
  <2> HIDE DEF k
  <2>9. \A t \in Tokens : tokens'[t] # None \/ mailbox'[t] # None => t \in drawn'
    BY <2>4, <2>6, <2>7
  <2>10. \A g \in Handlers : At(g, "send")' /\ tokens'[req'[g].tok] # None =>
           /\ tokens'[req'[g].tok].user = req'[g].uid
           /\ tokens'[req'[g].tok].expires = req'[g].at + TokenTTL
    BY <2>1, <2>2, <2>5, <2>6, <2>8
  <2>11. \A g \in Handlers : req'[g].pc \in LoginPCs =>
           /\ req'[g].tok \in drawn'
           /\ mailbox'[req'[g].tok] = None
           /\ ~At(g, "send")' => tokens'[req'[g].tok] = None
    BY <2>1, <2>2, <2>4, <2>6, <2>7, <2>8
  <2>12. \A f, g \in Handlers :
           /\ req'[f].pc \in LoginPCs /\ req'[g].pc \in LoginPCs
           /\ req'[g].tok = req'[f].tok
           => g = f
    BY <2>1, <2>2, <2>8 DEF k
  <2>13. \A t \in Tokens : tokens'[t] # None /\ mailbox'[t] # None =>
           /\ HasEmail(tokens[t].user, mailbox[t].to)'
           /\ tokens'[t].expires = mailbox'[t].expires
    <3>1. \A t \in Tokens : mailbox'[t] # None => t # k /\ tokens'[t] = tokens[t]
      BY <2>4, <2>6, <2>7
    <3> QED BY <2>4, <3>1
  <2> QED BY <2>9, <2>10, <2>11, <2>12, <2>13
<1>10. ASSUME NEW h \in Handlers, SendLoginLink(h) PROVE LinkInv'
  <2> DEFINE k == req[h].tok
             mail == [to |-> req[h].addr, expires |-> req[h].at + TokenTTL]
  <2>1. \A g \in Handlers : g # h => req'[g] = req[g]
    BY <1>10 DEF SendLoginLink, TypeOK
  <2>2. At(h, "send") /\ req'[h].pc = "accepted"
    BY <1>10 DEF SendLoginLink, TypeOK, Request
  <2>3. k \in Tokens /\ HasEmail(req[h].uid, req[h].addr)
    BY <2>2 DEF Locals, AccountInv, Owning
  <2>4. mailbox' = [mailbox EXCEPT ![k] = mail] /\ UNCHANGED <<users, tokens, drawn>>
    BY <1>10 DEF SendLoginLink
  <2>5. mail.to = req[h].addr /\ mail.expires = req[h].at + TokenTTL
    OBVIOUS
  <2> HIDE DEF mail
  <2>6. mailbox'[k] = mail /\ \A t \in Tokens : t # k => mailbox'[t] = mailbox[t]
    BY <2>3, <2>4 DEF TypeOK
  <2>7. k \in drawn
    BY <2>2
  <2>8. \A g \in Handlers : g # h /\ req[g].pc \in LoginPCs =>
          req[g].tok # k /\ req[g].tok \in Tokens
    BY <2>2 DEF Locals
  <2>9. tokens[k] # None => /\ tokens[k].user = req[h].uid
                            /\ tokens[k].expires = req[h].at + TokenTTL
    BY <2>2
  <2> HIDE DEF k
  <2>10. \A t \in Tokens : tokens'[t] # None \/ mailbox'[t] # None => t \in drawn'
    BY <2>4, <2>6, <2>7
  <2>11. \A g \in Handlers : req'[g].pc \in LoginPCs => g # h /\ req'[g] = req[g]
    BY <2>1, <2>2
  <2>12. \A g \in Handlers : req'[g].pc \in LoginPCs =>
           mailbox'[req'[g].tok] = mailbox[req[g].tok]
    BY <2>6, <2>8, <2>11
  <2>13. \A t \in Tokens : tokens'[t] # None /\ mailbox'[t] # None =>
           /\ HasEmail(tokens[t].user, mailbox[t].to)'
           /\ tokens'[t].expires = mailbox'[t].expires
    BY <2>3, <2>4, <2>5, <2>6, <2>9
  <2> QED BY <2>4, <2>10, <2>11, <2>12, <2>13
<1>11. ASSUME NEW h \in Handlers, LoadToken(h) PROVE LinkInv'
  <2>1. \A g \in Handlers : g # h => req'[g] = req[g]
    BY <1>11 DEF LoadToken, TypeOK
  <2>2. req'[h].pc \in {"idle", "claim"}
    BY <1>11 DEF LoadToken, TypeOK, Request
  <2>3. UNCHANGED <<users, tokens, mailbox, drawn>>
    BY <1>11 DEF LoadToken
  <2> QED BY <2>1, <2>2, <2>3, LinkFrame
<1>12. ASSUME NEW h \in Handlers, MarkLoginTokenUsed(h) PROVE LinkInv'
  <2>1. \A g \in Handlers : g # h => req'[g] = req[g]
    BY <1>12 DEF MarkLoginTokenUsed, TypeOK
  <2>2. req'[h].pc \in {"idle", "user"}
    BY <1>12 DEF MarkLoginTokenUsed, TypeOK, Request
  <2>3. UNCHANGED <<users, mailbox, drawn>>
    BY <1>12 DEF MarkLoginTokenUsed
  <2>4. \A t \in Tokens :
          /\ tokens'[t] = None <=> tokens[t] = None
          /\ tokens[t] # None => /\ tokens'[t].user = tokens[t].user
                                 /\ tokens'[t].expires = tokens[t].expires
    <3>1. CASE Unclaimed(req[h].tok)
      <4>1. tokens' = [tokens EXCEPT ![req[h].tok].used = TRUE] /\ tokens[req[h].tok] # None
        BY <1>12, <3>1 DEF MarkLoginTokenUsed, Unclaimed
      <4>2. req[h].tok \in Tokens
        BY <1>12 DEF MarkLoginTokenUsed, Locals
      <4>3. PICK r \in TokenRow : r = tokens[req[h].tok]
        BY <4>1, <4>2 DEF TypeOK
      <4> DEFINE claimed == [r EXCEPT !.used = TRUE]
      <4>4. /\ claimed \in TokenRow
            /\ claimed.user = r.user
            /\ claimed.expires = r.expires
        BY DEF TokenRow
      <4>5. tokens' = [tokens EXCEPT ![req[h].tok] = claimed]
        BY <4>1, <4>2, <4>3 DEF TypeOK
      <4> HIDE DEF claimed
      <4>6. claimed # None
        BY <4>4
      <4>7. /\ tokens'[req[h].tok] = claimed
            /\ \A t \in Tokens : t # req[h].tok => tokens'[t] = tokens[t]
        BY <4>2, <4>5 DEF TypeOK
      <4> QED BY <4>1, <4>3, <4>4, <4>6, <4>7
    <3>2. CASE ~Unclaimed(req[h].tok)
      BY <1>12, <3>2 DEF MarkLoginTokenUsed
    <3> QED BY <3>1, <3>2
  <2>5. \A g \in Handlers : req[g].pc \in LoginPCs => req[g].tok \in Tokens
    BY DEF Locals
  <2>6. \A t \in Tokens : tokens[t] # None /\ mailbox[t] # None =>
          HasEmail(tokens[t].user, mailbox[t].to) /\ tokens[t].expires = mailbox[t].expires
    OBVIOUS
  <2>7. \A t \in Tokens : tokens'[t] # None /\ mailbox'[t] # None =>
          HasEmail(tokens[t].user, mailbox[t].to)' /\ tokens'[t].expires = mailbox'[t].expires
    <3> SUFFICES ASSUME NEW t \in Tokens, tokens'[t] # None, mailbox'[t] # None
                 PROVE  /\ HasEmail(tokens[t].user, mailbox[t].to)'
                        /\ tokens'[t].expires = mailbox'[t].expires
      OBVIOUS
    <3>1. tokens[t] # None /\ mailbox'[t] = mailbox[t]
      BY <2>3, <2>4
    <3>2. tokens'[t].user = tokens[t].user /\ tokens'[t].expires = tokens[t].expires
      BY <2>4, <3>1
    <3>3. HasEmail(tokens[t].user, mailbox[t].to) /\ tokens[t].expires = mailbox[t].expires
      BY <2>3, <2>6, <3>1
    <3> QED BY <2>3, <3>1, <3>2, <3>3
  <2>8. \A g \in Handlers : req'[g].pc \in LoginPCs => req'[g] = req[g] /\ g # h
    BY <2>1, <2>2
  <2> QED BY <2>3, <2>4, <2>5, <2>7, <2>8
<1>13. ASSUME NEW h \in Handlers, LoadUser(h) PROVE LinkInv'
  <2>1. \A g \in Handlers : g # h => req'[g] = req[g]
    BY <1>13 DEF LoadUser, TypeOK
  <2>2. req'[h].pc \in {"idle", "verify"}
    BY <1>13 DEF LoadUser, TypeOK, Request
  <2>3. UNCHANGED <<users, tokens, mailbox, drawn>>
    BY <1>13 DEF LoadUser
  <2> QED BY <2>1, <2>2, <2>3, LinkFrame
<1>14. ASSUME NEW h \in Handlers, VerifyUser(h) PROVE LinkInv'
  <2>1. \A g \in Handlers : g # h => req'[g] = req[g]
    BY <1>14 DEF VerifyUser, TypeOK
  <2>2. req'[h].pc \in {"save_session"}
    BY <1>14 DEF VerifyUser, TypeOK, Request
  <2>3. UNCHANGED <<tokens, mailbox, drawn>>
    BY <1>14 DEF VerifyUser
  <2>4. \A t \in Tokens : tokens[t] # None /\ mailbox[t] # None =>
          HasEmail(tokens[t].user, mailbox[t].to)'
    <3>1. \A t \in Tokens : tokens[t] # None /\ mailbox[t] # None =>
            tokens[t].user \in UserIDs /\ mailbox[t].to \in Emails
      BY DEF TypeOK, TokenRow, Mail
    <3>2. \A t \in Tokens : tokens[t] # None /\ mailbox[t] # None =>
            HasEmail(tokens[t].user, mailbox[t].to)
      OBVIOUS
    <3> QED BY <2>3, <3>1, <3>2
  <2> QED BY <2>1, <2>2, <2>3, <2>4
<1>15. ASSUME NEW h \in Handlers, SaveSession(h) PROVE LinkInv'
  <2>1. \A g \in Handlers : g # h => req'[g] = req[g]
    BY <1>15 DEF SaveSession, TypeOK
  <2>2. req'[h].pc \in {"set_cookie"}
    BY <1>15 DEF SaveSession, TypeOK, Request
  <2>3. UNCHANGED <<users, tokens, mailbox, drawn>>
    BY <1>15 DEF SaveSession
  <2> QED BY <2>1, <2>2, <2>3, LinkFrame
<1>16. ASSUME NEW h \in Handlers, SetSessionCookie(h) PROVE LinkInv'
  <2>1. \A g \in Handlers : g # h => req'[g] = req[g]
    BY <1>16 DEF SetSessionCookie, TypeOK
  <2>2. req'[h].pc \in {"idle"}
    BY <1>16 DEF SetSessionCookie, TypeOK, Request
  <2>3. UNCHANGED <<users, tokens, mailbox, drawn>>
    BY <1>16 DEF SetSessionCookie
  <2> QED BY <2>1, <2>2, <2>3, LinkFrame
<1>17. ASSUME NEW h \in Handlers, LoadSession(h) PROVE LinkInv'
  <2>1. \A g \in Handlers : g # h => req'[g] = req[g]
    BY <1>17 DEF LoadSession, TypeOK
  <2>2. req'[h].pc \in {"idle", "account"}
    BY <1>17 DEF LoadSession, TypeOK, Request
  <2>3. UNCHANGED <<users, tokens, mailbox, drawn>>
    BY <1>17 DEF LoadSession
  <2> QED BY <2>1, <2>2, <2>3, LinkFrame
<1>18. ASSUME NEW h \in Handlers, LoadAccount(h) PROVE LinkInv'
  <2>1. \A g \in Handlers : g # h => req'[g] = req[g]
    BY <1>18 DEF LoadAccount, TypeOK
  <2>2. req'[h].pc \in {"idle", "granted"}
    BY <1>18 DEF LoadAccount, TypeOK, Request
  <2>3. UNCHANGED <<users, tokens, mailbox, drawn>>
    BY <1>18 DEF LoadAccount
  <2> QED BY <2>1, <2>2, <2>3, LinkFrame
<1>19. ASSUME NEW h \in Handlers, DeleteSession(h) PROVE LinkInv'
  <2>1. \A g \in Handlers : g # h => req'[g] = req[g]
    BY <1>19 DEF DeleteSession, TypeOK
  <2>2. req'[h].pc \in {"signed_out"}
    BY <1>19 DEF DeleteSession, TypeOK, Request
  <2>3. UNCHANGED <<users, tokens, mailbox, drawn>>
    BY <1>19 DEF DeleteSession
  <2> QED BY <2>1, <2>2, <2>3, LinkFrame
<1>20. ASSUME NEW h \in Handlers, Reply(h) PROVE LinkInv'
  <2>1. \A g \in Handlers : g # h => req'[g] = req[g]
    BY <1>20 DEF Reply, TypeOK
  <2>2. req'[h].pc \in {"idle"}
    BY <1>20 DEF Reply, TypeOK, Request
  <2>3. UNCHANGED <<users, tokens, mailbox, drawn>>
    BY <1>20 DEF Reply
  <2> QED BY <2>1, <2>2, <2>3, LinkFrame
<1>21. ASSUME NEW h \in Handlers, Fail(h) PROVE LinkInv'
  <2>1. \A g \in Handlers : g # h => req'[g] = req[g]
    BY <1>21 DEF Fail, TypeOK, AfterError
  <2>2. req'[h].pc \in {"idle", "failed", "signed_out"}
    BY <1>21 DEF Fail, TypeOK, Request, AfterError
  <2>3. UNCHANGED <<users, tokens, mailbox, drawn>>
    BY <1>21 DEF Fail
  <2> QED BY <2>1, <2>2, <2>3, LinkFrame
<1>22. CASE StartPurge
  BY <1>22 DEF StartPurge, TypeOK, Request
<1>23. CASE PurgeTokens
  BY <1>23 DEF PurgeTokens, TypeOK, Request, Without
<1>24. CASE PurgeSessions
  BY <1>24 DEF PurgeSessions, TypeOK, Request, Without
<1>25. CASE PurgeError
  BY <1>25 DEF PurgeError, TypeOK, Request
<1>26. CASE Tick
  BY <1>26 DEF Tick, TypeOK, Request
<1>27. CASE Crash
  BY <1>27 DEF Crash, TypeOK, Request
<1>28. CASE UNCHANGED vars
  BY <1>28 DEF vars, TypeOK, Request
<1> QED
  BY <1>1, <1>2, <1>3, <1>4, <1>5, <1>6, <1>7, <1>8, <1>9, <1>10, <1>11, <1>12, <1>13,
     <1>14, <1>15, <1>16, <1>17, <1>18, <1>19, <1>20, <1>21, <1>22, <1>23, <1>24, <1>25,
     <1>26, <1>27, <1>28 DEF Next, Step, Purge

-----------------------------------------------------------------------------
(* Claims.                                                                 *)

\* What a request holds survives the steps of every other process.
LEMMA ClaimKept ==
  ASSUME TypeOK, TypeOK', Locals, Monotone, ClaimInv, UNCHANGED origin,
         NEW g \in Handlers, req'[g] = req[g]
  PROVE  Claim(g)'
<1> USE DEF Monotone, Submitting, Claiming, RedeemPCs, At
<1>1. Claim(g)
  BY DEF ClaimInv
<1>2. req[g].pc \in RedeemPCs =>
        /\ req[g].tok \in Tokens
        /\ mailbox[req[g].tok] # None
        /\ mailbox'[req[g].tok] = mailbox[req[g].tok]
  BY <1>1 DEF Claim, Locals
<1>3. req[g].pc \in Submitting => req[g].uid \in UserIDs /\ mailbox[req[g].tok].to \in Emails
  <2> SUFFICES ASSUME req[g].pc \in Submitting
               PROVE  req[g].uid \in UserIDs /\ mailbox[req[g].tok].to \in Emails
    OBVIOUS
  <2>1. req[g].tok \in Tokens /\ mailbox[req[g].tok] # None /\ req[g].uid \in UserIDs
    BY <1>2 DEF Locals
  <2>2. mailbox[req[g].tok] \in Mail
    BY <2>1 DEF TypeOK
  <2> QED BY <2>1, <2>2 DEF Mail
<1>4. req'[g].pc \in Submitting =>
        /\ HasEmail(req[g].uid, mailbox[req[g].tok].to)'
        /\ req'[g].at < mailbox'[req'[g].tok].expires
  BY <1>1, <1>2, <1>3 DEF Claim, HasEmail
<1>5. req'[g].pc \in Claiming => ~Unclaimed(req[g].tok)'
  BY <1>1, <1>2 DEF Claim, Unclaimed
<1>6. At(g, "save_session")' => users'[req'[g].uid].verified
  BY <1>1, <1>2, <1>3 DEF Claim, HasEmail
<1> QED BY <1>1, <1>2, <1>4, <1>5, <1>6 DEF Claim

\* A session keeps its origin, and its link stays claimed.
LEMMA IssuedKept ==
  ASSUME TypeOK, Monotone, ClaimInv, NEW s \in Issued
  PROVE  origin'[s] = origin[s] /\ mailbox'[origin[s]] # None /\ ~Unclaimed(origin[s])'
  BY DEF ClaimInv, Unclaimed, Issued, TypeOK, Monotone

\* A step that moves no request along Redeem and opens no session.
LEMMA ClaimFrame ==
  ASSUME TypeOK, TypeOK', Locals, Monotone, ClaimInv, UNCHANGED origin,
         \A g \in Handlers : req'[g].pc \in RedeemPCs => req'[g] = req[g]
  PROVE  ClaimInv'
<1>1. ASSUME NEW g \in Handlers PROVE Claim(g)'
  <2>1. CASE req'[g].pc \in RedeemPCs
    BY <2>1, ClaimKept
  <2>2. CASE req'[g].pc \notin RedeemPCs
    BY <2>2 DEF Claim, Submitting, Claiming, RedeemPCs, At
  <2> QED BY <2>1, <2>2
<1>2. \A s \in Sessions : s \in Issued =>
        mailbox'[origin[s]] # None /\ ~Unclaimed(origin[s])'
  BY IssuedKept
<1>3. SingleUse'
  BY DEF ClaimInv, SingleUse, Issued
<1>4. \A g1, g2 \in Handlers :
        req'[g1].pc \in Claiming /\ req'[g2].pc \in Claiming /\ req'[g1].tok = req'[g2].tok
          => g1 = g2
  BY DEF ClaimInv, Claiming, RedeemPCs
<1> QED BY <1>1, <1>2, <1>3, <1>4 DEF ClaimInv, Issued

\* A step of one request along Redeem that opens no session: it is enough to
\* look at that request.
LEMMA ClaimAlone ==
  ASSUME TypeOK, TypeOK', Locals, Monotone, ClaimInv, UNCHANGED origin,
         NEW h \in Handlers, Claim(h)',
         \A g \in Handlers : g # h => req'[g] = req[g],
         req'[h].pc \in Claiming =>
           \A g \in Handlers : req[g].pc \in Claiming /\ req[g].tok = req'[h].tok => g = h
  PROVE  ClaimInv'
<1>1. ASSUME NEW g \in Handlers PROVE Claim(g)'
  <2>1. CASE g # h
    BY <2>1, ClaimKept
  <2> QED BY <2>1
<1>2. \A s \in Sessions : s \in Issued =>
        mailbox'[origin[s]] # None /\ ~Unclaimed(origin[s])'
  BY IssuedKept
<1>3. SingleUse'
  BY DEF ClaimInv, SingleUse, Issued
<1>4. \A g1, g2 \in Handlers :
        req'[g1].pc \in Claiming /\ req'[g2].pc \in Claiming /\ req'[g1].tok = req'[g2].tok
          => g1 = g2
  BY DEF ClaimInv
<1> QED BY <1>1, <1>2, <1>3, <1>4 DEF ClaimInv, Issued

\* Claims stay exclusive, and a claimed link opens one session at most.
LEMMA ClaimStep ==
  ASSUME TypeOK, TypeOK', Locals, Monotone, LinkInv, ClaimInv, [Next]_vars
  PROVE  ClaimInv'
<1> USE DEF At, Goto, Finish, Idle, LoginPCs, RedeemPCs, OtherPCs, ReplyPCs, tables, history
<1>1. ASSUME NEW h \in Handlers, NEW e \in Emails, NEW t \in Tokens, RequestLogin(h, e, t)
      PROVE ClaimInv'
  BY <1>1, ClaimFrame DEF RequestLogin, TypeOK, Request
<1>2. ASSUME NEW h \in Handlers, NEW t \in Tokens, Redeem(h, t) PROVE ClaimInv'
  <2>1. \A g \in Handlers : g # h => req'[g] = req[g]
    BY <1>2 DEF Redeem, TypeOK
  <2>2. req'[h].pc = "load" /\ req'[h].tok = t /\ mailbox' = mailbox /\ mailbox[t] # None
    BY <1>2 DEF Redeem, TypeOK
  <2>3. Claim(h)'
    BY <2>2 DEF Claim, Submitting, Claiming
  <2> QED BY <1>2, <2>1, <2>2, <2>3, ClaimAlone DEF Redeem, Claiming
<1>3. ASSUME NEW h \in Handlers, NEW s \in Sessions, Authenticate(h, s) PROVE ClaimInv'
  BY <1>3, ClaimFrame DEF Authenticate, TypeOK, Request
<1>4. ASSUME NEW h \in Handlers, NEW s \in Sessions, Logout(h, s) PROVE ClaimInv'
  BY <1>4, ClaimFrame DEF Logout, TypeOK, Request
<1>5. ASSUME NEW h \in Handlers, FindAccount(h) PROVE ClaimInv'
  BY <1>5, ClaimFrame DEF FindAccount, TypeOK, Request
<1>6. ASSUME NEW h \in Handlers, MintAccount(h) PROVE ClaimInv'
  BY <1>6, ClaimFrame DEF MintAccount, TypeOK, Request
<1>7. ASSUME NEW h \in Handlers, CreateAccount(h) PROVE ClaimInv'
  BY <1>7, ClaimFrame DEF CreateAccount, TypeOK, Request
<1>8. ASSUME NEW h \in Handlers, CreateAccountRefused(h) PROVE ClaimInv'
  BY <1>8, ClaimFrame DEF CreateAccountRefused, TypeOK, Request
<1>9. ASSUME NEW h \in Handlers, SaveLoginToken(h) PROVE ClaimInv'
  BY <1>9, ClaimFrame DEF SaveLoginToken, TypeOK, Request
<1>10. ASSUME NEW h \in Handlers, SendLoginLink(h) PROVE ClaimInv'
  BY <1>10, ClaimFrame DEF SendLoginLink, TypeOK, Request
<1>11. ASSUME NEW h \in Handlers, LoadToken(h) PROVE ClaimInv'
  <2>1. /\ \A g \in Handlers : g # h => req'[g] = req[g]
        /\ UNCHANGED <<users, tokens, mailbox, origin>>
    BY <1>11 DEF LoadToken, TypeOK
  <2>2. CASE ~Redeemable(h)
    BY <1>11, <2>1, <2>2, ClaimFrame DEF LoadToken, TypeOK
  <2>3. CASE Redeemable(h)
    <3> DEFINE tok == req[h].tok
    <3>1. /\ tok \in Tokens /\ tokens[tok] # None /\ req[h].at < tokens[tok].expires
          /\ mailbox[tok] # None
      BY <1>11, <2>3 DEF LoadToken, Redeemable, IsRedeemable, Locals, ClaimInv, Claim
    <3>2. /\ HasEmail(tokens[tok].user, mailbox[tok].to)
          /\ tokens[tok].expires = mailbox[tok].expires
      BY <3>1 DEF LinkInv
    <3>3. /\ req'[h].pc = "claim" /\ req'[h].tok = tok
          /\ req'[h].at = req[h].at /\ req'[h].uid = tokens[tok].user
      BY <1>11, <2>3 DEF LoadToken, TypeOK, Request
    <3>4. Claim(h)'
      BY <2>1, <3>1, <3>2, <3>3 DEF Claim, Submitting, Claiming, HasEmail
    <3> QED BY <2>1, <3>3, <3>4, ClaimAlone DEF Claiming
  <2> QED BY <2>2, <2>3
<1>12. ASSUME NEW h \in Handlers, MarkLoginTokenUsed(h) PROVE ClaimInv'
  <2>1. /\ \A g \in Handlers : g # h => req'[g] = req[g]
        /\ UNCHANGED <<users, mailbox, origin>>
    BY <1>12 DEF MarkLoginTokenUsed, TypeOK
  <2>2. CASE ~Unclaimed(req[h].tok)
    BY <1>12, <2>1, <2>2, ClaimFrame DEF MarkLoginTokenUsed, TypeOK
  <2>3. CASE Unclaimed(req[h].tok)
    <3> DEFINE tok == req[h].tok
    <3>1. tok \in Tokens /\ tokens[tok] # None
      BY <1>12, <2>3 DEF MarkLoginTokenUsed, Locals, Unclaimed
    <3>2. tokens' = [tokens EXCEPT ![tok].used = TRUE]
      BY <1>12, <2>3 DEF MarkLoginTokenUsed
    <3>3. /\ req'[h].pc = "user" /\ req'[h].tok = tok
          /\ req'[h].at = req[h].at /\ req'[h].uid = req[h].uid
      BY <1>12, <2>3 DEF MarkLoginTokenUsed, TypeOK, Request
    <3>4. ~Unclaimed(tok)'
      <4>1. tokens[tok] \in TokenRow
        BY <3>1 DEF TypeOK
      <4>2. PICK r \in TokenRow : r = tokens[tok]
        BY <4>1
      <4>3. tokens'[tok] = [r EXCEPT !.used = TRUE]
        BY <3>1, <3>2, <4>2 DEF TypeOK
      <4>4. [r EXCEPT !.used = TRUE].used = TRUE
        BY DEF TokenRow
      <4> QED BY <3>3, <4>3, <4>4 DEF Unclaimed
    <3>5. /\ \A g \in Handlers : req[g].pc \in Claiming => req[g].tok # tok
          /\ \A s \in Sessions : origin[s] # tok
      <4>1. \A g \in Handlers : req[g].pc \in Claiming => req[g].tok # tok
        BY <2>3 DEF ClaimInv, Claim
      <4>2. \A s \in Issued : origin[s] # tok
        BY <2>3 DEF ClaimInv
      <4> QED BY <3>1, <4>1, <4>2, NoneAssumption DEF Issued
    <3>6. Claim(h)
      BY DEF ClaimInv
    <3>7. Claim(h)'
      BY <1>12, <2>1, <3>3, <3>4, <3>5, <3>6
         DEF MarkLoginTokenUsed, Claim, Submitting, Claiming, HasEmail
    <3> QED BY <2>1, <3>3, <3>5, <3>7, ClaimAlone
  <2> QED BY <2>2, <2>3
<1>13. ASSUME NEW h \in Handlers, LoadUser(h) PROVE ClaimInv'
  <2>1. /\ \A g \in Handlers : g # h => req'[g] = req[g]
        /\ UNCHANGED <<users, tokens, mailbox, origin>>
    BY <1>13 DEF LoadUser, TypeOK
  <2>2. CASE users[req[h].uid] = None
    BY <1>13, <2>1, <2>2, ClaimFrame DEF LoadUser, TypeOK
  <2>3. CASE users[req[h].uid] # None
    <3>1. /\ req'[h].pc = "verify" /\ req'[h].tok = req[h].tok
          /\ req'[h].at = req[h].at /\ req'[h].uid = req[h].uid
      BY <1>13, <2>3 DEF LoadUser, TypeOK, Request
    <3>2. Claim(h) /\ req[h].pc = "user"
      BY <1>13 DEF ClaimInv, LoadUser
    <3>3. Claim(h)'
      BY <2>1, <3>1, <3>2 DEF Claim, Submitting, Claiming, HasEmail, Unclaimed
    <3>4. \A g \in Handlers : req[g].pc \in Claiming /\ req[g].tok = req[h].tok => g = h
      BY <3>2 DEF ClaimInv, Claiming
    <3> QED BY <2>1, <3>1, <3>3, <3>4, ClaimAlone
  <2> QED BY <2>2, <2>3
<1>14. ASSUME NEW h \in Handlers, VerifyUser(h) PROVE ClaimInv'
  <2>1. /\ \A g \in Handlers : g # h => req'[g] = req[g]
        /\ UNCHANGED <<tokens, mailbox, origin>>
    BY <1>14 DEF VerifyUser, TypeOK
  <2>2. /\ req'[h].pc = "save_session" /\ req'[h].tok = req[h].tok
        /\ req'[h].at = req[h].at /\ req'[h].uid = req[h].uid
    BY <1>14 DEF VerifyUser, TypeOK, Request
  <2>3. Claim(h) /\ req[h].pc = "verify"
    BY <1>14 DEF ClaimInv, VerifyUser
  <2>4. req[h].uid \in UserIDs /\ mailbox[req[h].tok].to \in Emails
    <3>1. req[h].tok \in Tokens /\ mailbox[req[h].tok] # None /\ req[h].uid \in UserIDs
      BY <2>3 DEF Claim, Locals, Submitting
    <3>2. mailbox[req[h].tok] \in Mail
      BY <3>1 DEF TypeOK
    <3> QED BY <3>1, <3>2 DEF Mail
  <2>5. HasEmail(req[h].uid, mailbox[req[h].tok].to)'
    BY <2>1, <2>2, <2>3, <2>4 DEF Claim, Submitting, HasEmail, Monotone
  <2>6. users'[req[h].uid].verified
    BY <1>14, <2>4 DEF VerifyUser, SaveUser, TypeOK
  <2>7. Claim(h)'
    BY <2>1, <2>2, <2>3, <2>5, <2>6 DEF Claim, Submitting, Claiming, Unclaimed
  <2>8. \A g \in Handlers : req[g].pc \in Claiming /\ req[g].tok = req[h].tok => g = h
    BY <2>3 DEF ClaimInv, Claiming
  <2> QED BY <2>1, <2>2, <2>7, <2>8, ClaimAlone
<1>15. ASSUME NEW h \in Handlers, SaveSession(h) PROVE ClaimInv'
  <2>1. PICK s \in Sessions : /\ origin[s] = None
                              /\ origin' = [origin EXCEPT ![s] = req[h].tok]
                              /\ req' = [req EXCEPT ![h].ses = s, ![h].pc = "set_cookie"]
    BY <1>15 DEF SaveSession
  <2>2. /\ UNCHANGED <<users, tokens, mailbox>>
        /\ \A g \in Handlers : g # h => req'[g] = req[g]
        /\ req'[h].pc = "set_cookie" /\ req'[h].tok = req[h].tok
    BY <1>15, <2>1 DEF SaveSession, TypeOK, Request
  <2>3. /\ Claim(h) /\ req[h].pc = "save_session" /\ req[h].tok \in Tokens
        /\ \A g \in Handlers : req[g].pc \in Claiming /\ req[g].tok = req[h].tok => g = h
    BY <1>15 DEF ClaimInv, SaveSession, Locals, Claiming
  <2>4. /\ origin'[s] = req[h].tok
        /\ \A r \in Sessions : r # s => origin'[r] = origin[r]
    BY <2>1 DEF TypeOK
  <2>5. ASSUME NEW g \in Handlers, g # h PROVE Claim(g)'
    <3>1. Claim(g) /\ req'[g] = req[g]
      BY <2>2, <2>5 DEF ClaimInv
    <3>2. req[g].pc \in Claiming => \A r \in Sessions : origin'[r] # req[g].tok
      BY <2>3, <2>4, <2>5, <3>1 DEF Claim
    <3> QED BY <2>2, <3>1, <3>2 DEF Claim, HasEmail, Unclaimed
  <2>6. Claim(h)'
    BY <2>2, <2>3 DEF Claim, Submitting, Claiming
  <2>7. ASSUME NEW r \in Sessions, origin'[r] # None
        PROVE  mailbox'[origin'[r]] # None /\ ~Unclaimed(origin[r])'
    <3>1. CASE r = s
      BY <2>2, <2>3, <2>4, <3>1 DEF Claim, Claiming, Unclaimed
    <3>2. CASE r # s
      BY <2>2, <2>4, <2>7, <3>2 DEF ClaimInv, Issued, Unclaimed
    <3> QED BY <3>1, <3>2
  <2>8. SingleUse'
    BY <2>1, <2>3, <2>4 DEF ClaimInv, Claim, Claiming, SingleUse, Issued
  <2>9. \A g1, g2 \in Handlers :
          req'[g1].pc \in Claiming /\ req'[g2].pc \in Claiming /\ req'[g1].tok = req'[g2].tok
            => g1 = g2
    BY <2>2 DEF ClaimInv, Claiming
  <2> QED BY <2>2, <2>5, <2>6, <2>7, <2>8, <2>9 DEF ClaimInv, Issued
<1>16. ASSUME NEW h \in Handlers, SetSessionCookie(h) PROVE ClaimInv'
  BY <1>16, ClaimFrame DEF SetSessionCookie, TypeOK, Request
<1>17. ASSUME NEW h \in Handlers, LoadSession(h) PROVE ClaimInv'
  BY <1>17, ClaimFrame DEF LoadSession, TypeOK, Request
<1>18. ASSUME NEW h \in Handlers, LoadAccount(h) PROVE ClaimInv'
  BY <1>18, ClaimFrame DEF LoadAccount, TypeOK, Request
<1>19. ASSUME NEW h \in Handlers, DeleteSession(h) PROVE ClaimInv'
  BY <1>19, ClaimFrame DEF DeleteSession, TypeOK, Request
<1>20. ASSUME NEW h \in Handlers, Reply(h) PROVE ClaimInv'
  BY <1>20, ClaimFrame DEF Reply, TypeOK, Request
<1>21. ASSUME NEW h \in Handlers, Fail(h) PROVE ClaimInv'
  BY <1>21, ClaimFrame DEF Fail, AfterError, TypeOK, Request
<1>22. CASE StartPurge
  BY <1>22, ClaimFrame DEF StartPurge, TypeOK, Request
<1>23. CASE PurgeTokens
  BY <1>23, ClaimFrame DEF PurgeTokens, TypeOK, Request
<1>24. CASE PurgeSessions
  BY <1>24, ClaimFrame DEF PurgeSessions, TypeOK, Request
<1>25. CASE PurgeError
  BY <1>25, ClaimFrame DEF PurgeError, TypeOK, Request
<1>26. CASE Tick
  BY <1>26, ClaimFrame DEF Tick, TypeOK, Request
<1>27. CASE Crash
  BY <1>27, ClaimFrame DEF Crash, TypeOK, Request
<1>28. CASE UNCHANGED vars
  BY <1>28, ClaimFrame DEF vars, TypeOK, Request
<1> QED
  BY <1>1, <1>2, <1>3, <1>4, <1>5, <1>6, <1>7, <1>8, <1>9, <1>10, <1>11, <1>12, <1>13,
     <1>14, <1>15, <1>16, <1>17, <1>18, <1>19, <1>20, <1>21, <1>22, <1>23, <1>24, <1>25,
     <1>26, <1>27, <1>28 DEF Next, Step, Purge

-----------------------------------------------------------------------------
(* Sessions.                                                               *)

\* A session row stays good while nobody writes it.
LEMMA RowKept ==
  ASSUME TypeOK, Monotone, ClaimInv, NEW s \in Sessions, Row(s),
         sessions'[s] \in {sessions[s], None}
  PROVE  Row(s)'
<1>1. CASE sessions'[s] = None
  BY <1>1 DEF Row
<1>2. CASE sessions'[s] = sessions[s] /\ sessions[s] # None
  <2>1. sessions[s] \in SessionRow /\ s \in Issued
    BY <1>2 DEF TypeOK, Row
  <2>2. /\ origin[s] \in Tokens /\ origin'[s] = origin[s]
        /\ mailbox[origin[s]] # None /\ mailbox'[origin[s]] = mailbox[origin[s]]
    BY <2>1, NoneAssumption DEF TypeOK, Issued, ClaimInv, Monotone
  <2>3. mailbox[origin[s]] \in Mail
    BY <2>2 DEF TypeOK
  <2>4. sessions[s].user \in UserIDs /\ mailbox[origin[s]].to \in Emails
    BY <2>1, <2>3 DEF SessionRow, Mail
  <2> QED BY <1>2, <2>1, <2>2, <2>4 DEF Row, Issued, HasEmail, Monotone
<1> QED BY <1>1, <1>2

\* A step that writes no session row: it is enough to look at the requests it
\* moves, the cookies it hands out and the sessions it deletes.
LEMMA SessionFrame ==
  ASSUME TypeOK, TypeOK', Locals, Monotone, ClaimInv, SessionInv,
         \A s \in Sessions : sessions'[s] \in {sessions[s], None},
         revoked \subseteq revoked',
         \A s \in revoked' : origin'[s] # None /\ sessions'[s] = None,
         \A s \in cookies' : origin'[s] # None,
         \A g \in Handlers : req'[g] = req[g] \/ On(g)'
  PROVE  SessionInv'
<1>1. \A s \in Sessions : Row(s)'
  BY RowKept DEF SessionInv
<1>2. ASSUME NEW g \in Handlers, req'[g] = req[g] PROVE On(g)'
  BY <1>2 DEF SessionInv, On, Issued, Monotone, At
<1>3. cookies' \subseteq Issued' /\ \A s \in revoked' : s \in Issued' /\ sessions'[s] = None
  BY DEF Issued, TypeOK
<1> QED BY <1>1, <1>2, <1>3 DEF SessionInv

\* Session rows stay good, and signed-out sessions stay signed out.
LEMMA SessionStep ==
  ASSUME TypeOK, TypeOK', Locals, Monotone, ClaimInv, SessionInv, [Next]_vars
  PROVE  SessionInv'
<1> USE DEF At, Goto, Finish, Idle, LoginPCs, RedeemPCs, OtherPCs, ReplyPCs, OnSession,
        tables, history
<1>r. /\ \A s \in revoked : origin[s] # None /\ sessions[s] = None
      /\ \A s \in cookies : origin[s] # None
      /\ \A h \in Handlers : On(h)
      /\ cookies \subseteq Sessions /\ revoked \subseteq Sessions
  BY DEF SessionInv, Issued, TypeOK
<1>1. ASSUME NEW h \in Handlers, NEW e \in Emails, NEW t \in Tokens, RequestLogin(h, e, t)
      PROVE SessionInv'
  BY <1>r, <1>1, SessionFrame DEF RequestLogin, On, Issued, TypeOK, Request
<1>2. ASSUME NEW h \in Handlers, NEW t \in Tokens, Redeem(h, t) PROVE SessionInv'
  BY <1>r, <1>2, SessionFrame DEF Redeem, On, Issued, TypeOK, Request
<1>3. ASSUME NEW h \in Handlers, NEW s \in Sessions, Authenticate(h, s) PROVE SessionInv'
  BY <1>r, <1>3, SessionFrame DEF Authenticate, On, Issued, TypeOK, Request
<1>4. ASSUME NEW h \in Handlers, NEW s \in Sessions, Logout(h, s) PROVE SessionInv'
  BY <1>r, <1>4, SessionFrame DEF Logout, On, Issued, TypeOK, Request
<1>5. ASSUME NEW h \in Handlers, FindAccount(h) PROVE SessionInv'
  BY <1>r, <1>5, SessionFrame DEF FindAccount, On, Issued, TypeOK, Request
<1>6. ASSUME NEW h \in Handlers, MintAccount(h) PROVE SessionInv'
  BY <1>r, <1>6, SessionFrame DEF MintAccount, On, Issued, TypeOK, Request
<1>7. ASSUME NEW h \in Handlers, CreateAccount(h) PROVE SessionInv'
  BY <1>r, <1>7, SessionFrame DEF CreateAccount, On, Issued, TypeOK, Request
<1>8. ASSUME NEW h \in Handlers, CreateAccountRefused(h) PROVE SessionInv'
  BY <1>r, <1>8, SessionFrame DEF CreateAccountRefused, On, Issued, TypeOK, Request
<1>9. ASSUME NEW h \in Handlers, SaveLoginToken(h) PROVE SessionInv'
  BY <1>r, <1>9, SessionFrame DEF SaveLoginToken, On, Issued, TypeOK, Request
<1>10. ASSUME NEW h \in Handlers, SendLoginLink(h) PROVE SessionInv'
  BY <1>r, <1>10, SessionFrame DEF SendLoginLink, On, Issued, TypeOK, Request
<1>11. ASSUME NEW h \in Handlers, LoadToken(h) PROVE SessionInv'
  BY <1>r, <1>11, SessionFrame DEF LoadToken, On, Issued, TypeOK, Request
<1>12. ASSUME NEW h \in Handlers, MarkLoginTokenUsed(h) PROVE SessionInv'
  BY <1>r, <1>12, SessionFrame DEF MarkLoginTokenUsed, On, Issued, TypeOK, Request
<1>13. ASSUME NEW h \in Handlers, LoadUser(h) PROVE SessionInv'
  BY <1>r, <1>13, SessionFrame DEF LoadUser, On, Issued, TypeOK, Request
<1>14. ASSUME NEW h \in Handlers, VerifyUser(h) PROVE SessionInv'
  BY <1>r, <1>14, SessionFrame DEF VerifyUser, On, Issued, TypeOK, Request
<1>15. ASSUME NEW h \in Handlers, SaveSession(h) PROVE SessionInv'
  <2>1. PICK s \in Sessions : /\ origin[s] = None
                              /\ sessions' = [sessions EXCEPT ![s] = SessionFor(h)]
                              /\ origin' = [origin EXCEPT ![s] = req[h].tok]
                              /\ req' = [req EXCEPT ![h].ses = s, ![h].pc = "set_cookie"]
    BY <1>15 DEF SaveSession
  <2>2. /\ UNCHANGED <<users, mailbox, cookies, revoked>>
        /\ \A g \in Handlers : g # h => req'[g] = req[g]
        /\ req'[h].pc = "set_cookie" /\ req'[h].ses = s
    BY <1>15, <2>1 DEF SaveSession, TypeOK, Request
  <2>3. /\ Claim(h) /\ req[h].pc = "save_session"
        /\ req[h].tok \in Tokens /\ req[h].uid \in UserIDs /\ req[h].tok # None
    BY <1>15, NoneAssumption DEF ClaimInv, SaveSession, Locals, Submitting
  <2>4. /\ sessions'[s] = SessionFor(h) /\ origin'[s] = req[h].tok
        /\ \A r \in Sessions : r # s => sessions'[r] = sessions[r] /\ origin'[r] = origin[r]
    BY <2>1 DEF TypeOK
  <2>5. Row(s)'
    BY <2>2, <2>3, <2>4 DEF Row, Claim, Submitting, SessionFor, HasEmail, Issued
  <2>6. \A r \in Sessions : Row(r)'
    BY <2>4, <2>5, RowKept DEF SessionInv
  <2>7. \A g \in Handlers : On(g)'
    BY <2>2, <2>3, <2>4 DEF SessionInv, On, Issued
  <2>8. cookies' \subseteq Issued' /\ \A r \in revoked' : r \in Issued' /\ sessions'[r] = None
    BY <2>1, <2>2, <2>3, <2>4 DEF SessionInv, Issued
  <2> QED BY <2>6, <2>7, <2>8 DEF SessionInv
<1>16. ASSUME NEW h \in Handlers, SetSessionCookie(h) PROVE SessionInv'
  BY <1>r, <1>16, SessionFrame DEF SetSessionCookie, Locals, On, Issued, TypeOK, Request
<1>17. ASSUME NEW h \in Handlers, LoadSession(h) PROVE SessionInv'
  BY <1>r, <1>17, SessionFrame DEF LoadSession, On, Issued, TypeOK, Request
<1>18. ASSUME NEW h \in Handlers, LoadAccount(h) PROVE SessionInv'
  BY <1>r, <1>18, SessionFrame DEF LoadAccount, On, Issued, TypeOK, Request
<1>19. ASSUME NEW h \in Handlers, DeleteSession(h) PROVE SessionInv'
  BY <1>r, <1>19, SessionFrame DEF DeleteSession, Locals, On, Issued, TypeOK, Request
<1>20. ASSUME NEW h \in Handlers, Reply(h) PROVE SessionInv'
  BY <1>r, <1>20, SessionFrame DEF Reply, On, Issued, TypeOK, Request
<1>21. ASSUME NEW h \in Handlers, Fail(h) PROVE SessionInv'
  BY <1>r, <1>21, SessionFrame DEF Fail, AfterError, On, Issued, TypeOK, Request
<1>22. CASE StartPurge
  BY <1>r, <1>22, SessionFrame DEF StartPurge, On, Issued, TypeOK, Request
<1>23. CASE PurgeTokens
  BY <1>r, <1>23, SessionFrame DEF PurgeTokens, Without, On, Issued, TypeOK, Request
<1>24. CASE PurgeSessions
  BY <1>r, <1>24, SessionFrame DEF PurgeSessions, Without, On, Issued, TypeOK, Request
<1>25. CASE PurgeError
  BY <1>r, <1>25, SessionFrame DEF PurgeError, On, Issued, TypeOK, Request
<1>26. CASE Tick
  BY <1>r, <1>26, SessionFrame DEF Tick, On, Issued, TypeOK, Request
<1>27. CASE Crash
  BY <1>r, <1>27, SessionFrame DEF Crash, On, Issued, TypeOK, Request
<1>28. CASE UNCHANGED vars
  BY <1>r, <1>28, SessionFrame DEF vars, On, Issued, TypeOK, Request
<1> QED
  BY <1>1, <1>2, <1>3, <1>4, <1>5, <1>6, <1>7, <1>8, <1>9, <1>10, <1>11, <1>12, <1>13,
     <1>14, <1>15, <1>16, <1>17, <1>18, <1>19, <1>20, <1>21, <1>22, <1>23, <1>24, <1>25,
     <1>26, <1>27, <1>28 DEF Next, Step, Purge

-----------------------------------------------------------------------------
(* What the purge deletes.                                                 *)

\* A later time is in no earlier second.
LEMMA SecondMonotone ==
  ASSUME NEW a \in Nat, NEW b \in Nat, a <= b
  PROVE  Second(a) <= Second(b)
<1>1. ASSUME NEW k \in 1..10 PROVE a \div k <= b \div k
  BY <1>1
<1> QED BY <1>1, TimeAssumption DEF Second

\* A text that is not greater is of no later second.
LEMMA TextOrder ==
  ASSUME NEW a \in Nat, NEW b \in Nat, TextLeq(a, b)
  PROVE  Second(a) <= Second(b)
<1>1. Second(a) \in Int /\ Second(b) \in Int
  BY TimeAssumption DEF Second
<1> QED BY <1>1 DEF TextLeq

\* Only the purge deletes a link, and only it or a sign-out a session.
LEMMA Deletions ==
  ASSUME TypeOK, Locals, [Next]_vars
  PROVE  /\ \A t \in Tokens : tokens[t] # None /\ tokens'[t] = None => PurgeTokens
         /\ \A s \in Sessions :
              sessions[s] # None /\ sessions'[s] = None => s \in revoked' \/ PurgeSessions
<1> USE DEF tables, history
<1>1. ASSUME NEW h \in Handlers, SaveLoginToken(h)
      PROVE  \A t \in Tokens : tokens'[t] = tokens[t] \/ tokens'[t] # None
  <2> DEFINE row == [user |-> req[h].uid, expires |-> req[h].at + TokenTTL, used |-> FALSE]
  <2>1. req[h].uid \in UserIDs /\ req[h].at \in 0..MaxTime
    BY <1>1 DEF SaveLoginToken, At, Locals, Creating, TypeOK, Request
  <2>2. row \in TokenRow
    BY <2>1, TimeAssumption DEF TokenRow, Times
  <2>3. row # None /\ tokens' = [tokens EXCEPT ![req[h].tok] = row]
    BY <1>1, <2>2, NoneAssumption DEF SaveLoginToken
  <2> HIDE DEF row
  <2> QED BY <2>3 DEF TypeOK
<1>2. ASSUME NEW h \in Handlers, MarkLoginTokenUsed(h)
      PROVE  \A t \in Tokens : tokens'[t] = tokens[t] \/ tokens'[t] # None
  <2>1. CASE Unclaimed(req[h].tok)
    <3> DEFINE row == [tokens[req[h].tok] EXCEPT !.used = TRUE]
    <3>1. req[h].tok \in Tokens /\ tokens[req[h].tok] \in TokenRow
      BY <1>2, <2>1 DEF MarkLoginTokenUsed, At, Locals, RedeemPCs, TypeOK, Unclaimed
    <3>2. row \in TokenRow
      BY <3>1 DEF TokenRow
    <3>3. row # None /\ tokens' = [tokens EXCEPT ![req[h].tok] = row]
      BY <1>2, <2>1, <3>2, NoneAssumption DEF MarkLoginTokenUsed
    <3> HIDE DEF row
    <3> QED BY <3>3 DEF TypeOK
  <2>2. CASE ~Unclaimed(req[h].tok)
    BY <1>2, <2>2 DEF MarkLoginTokenUsed
  <2> QED BY <2>1, <2>2
<1>3. ASSUME NEW h \in Handlers, SaveSession(h)
      PROVE  \A s \in Sessions : sessions'[s] = sessions[s] \/ sessions'[s] # None
  <2>1. req[h].uid \in UserIDs /\ req[h].at \in 0..MaxTime
    BY <1>3 DEF SaveSession, At, Locals, Submitting, TypeOK, Request
  <2>2. req[h].at \in Times /\ req[h].at + SessionTTL \in Times
    BY <2>1, TimeAssumption DEF Times
  <2>3. SessionFor(h) # None
    BY <2>1, <2>2, NoneAssumption DEF SessionFor, SessionRow
  <2> QED BY <1>3, <2>3 DEF SaveSession, TypeOK
<1>4. ASSUME NEW h \in Handlers, DeleteSession(h)
      PROVE  \A s \in Sessions : sessions'[s] = sessions[s] \/ s \in revoked'
  BY <1>4 DEF DeleteSession, TypeOK
<1>5. \/ UNCHANGED tokens \/ PurgeTokens
      \/ \E h \in Handlers : SaveLoginToken(h) \/ MarkLoginTokenUsed(h)
  BY DEF Next, vars, Step, Purge, RequestLogin, Redeem, Authenticate, Logout, Fail, FindAccount,
     MintAccount, CreateAccount, CreateAccountRefused, SendLoginLink, LoadToken, LoadUser,
     VerifyUser, SaveSession, SetSessionCookie, LoadSession, LoadAccount, DeleteSession, Reply,
     StartPurge, PurgeSessions, PurgeError, Tick, Crash
<1>6. \/ UNCHANGED sessions \/ PurgeSessions
      \/ \E h \in Handlers : SaveSession(h) \/ DeleteSession(h)
  BY DEF Next, vars, Step, Purge, RequestLogin, Redeem, Authenticate, Logout, Fail, FindAccount,
     MintAccount, CreateAccount, CreateAccountRefused, SaveLoginToken, SendLoginLink, LoadToken,
     MarkLoginTokenUsed, LoadUser, VerifyUser, SetSessionCookie, LoadSession, LoadAccount, Reply,
     StartPurge, PurgeTokens, PurgeError, Tick, Crash
<1>7. \A t \in Tokens : tokens[t] # None /\ tokens'[t] = None => PurgeTokens
  BY <1>1, <1>2, <1>5
<1>8. \A s \in Sessions :
        sessions[s] # None /\ sessions'[s] = None => s \in revoked' \/ PurgeSessions
  BY <1>3, <1>4, <1>6
<1> QED BY <1>7, <1>8

\* The purge's stamp is of the past, and so is what it deletes by it.
LEMMA PurgeDue ==
  ASSUME TypeOK, purge.at <= now
  PROVE  /\ PurgeTokens => \A t \in Tokens :
              tokens[t] # None /\ tokens'[t] = None => Second(tokens[t].expires) <= Second(now)
         /\ PurgeSessions => \A s \in Sessions :
              sessions[s] # None /\ sessions'[s] = None => Second(sessions[s].expires) <= Second(now)
<1>1. purge.at \in Nat /\ now \in Nat /\ Second(purge.at) \in Int /\ Second(now) \in Int
  BY TimeAssumption DEF TypeOK, Second
<1>2. ASSUME NEW e \in Times, TextLeq(e, purge.at) PROVE Second(e) <= Second(now)
  <2>1. e \in Nat /\ Second(e) \in Int
    BY TimeAssumption DEF Times, Second
  <2>2. Second(e) <= Second(purge.at) /\ Second(purge.at) <= Second(now)
    BY <1>1, <1>2, <2>1, TextOrder, SecondMonotone
  <2> QED BY <1>1, <2>1, <2>2
<1>3. ASSUME PurgeTokens, NEW t \in Tokens, tokens[t] # None, tokens'[t] = None
      PROVE  Second(tokens[t].expires) <= Second(now)
  <2>1. Expired(tokens[t], purge.at) /\ tokens[t].expires \in Times
    BY <1>3 DEF PurgeTokens, Without, TypeOK, TokenRow
  <2> QED BY <1>2, <2>1 DEF Expired
<1>4. ASSUME PurgeSessions, NEW s \in Sessions, sessions[s] # None, sessions'[s] = None
      PROVE  Second(sessions[s].expires) <= Second(now)
  <2>1. Expired(sessions[s], purge.at) /\ sessions[s].expires \in Times
    BY <1>4 DEF PurgeSessions, Without, TypeOK, SessionRow
  <2> QED BY <1>2, <2>1 DEF Expired
<1> QED BY <1>3, <1>4

\* The clock does not go back behind a purge.
LEMMA StampStep ==
  ASSUME TypeOK, purge.at <= now, [Next]_vars
  PROVE  (purge.at <= now)'
<1>1. purge.at \in Nat /\ now \in Nat
  BY TimeAssumption DEF TypeOK
<1>2. UNCHANGED <<now, purge>> \/ Purge \/ PurgeError \/ Tick \/ Crash
  <2> DEFINE Same == now' = now /\ purge' = purge
  <2>1. ASSUME NEW h \in Handlers,
               FindAccount(h) \/ MintAccount(h) \/ CreateAccount(h) \/ CreateAccountRefused(h)
        PROVE  Same
    BY <2>1 DEF FindAccount, MintAccount, CreateAccount, CreateAccountRefused
  <2>2. ASSUME NEW h \in Handlers,
               SaveLoginToken(h) \/ SendLoginLink(h) \/ LoadToken(h) \/ MarkLoginTokenUsed(h)
        PROVE  Same
    BY <2>2 DEF SaveLoginToken, SendLoginLink, LoadToken, MarkLoginTokenUsed
  <2>3. ASSUME NEW h \in Handlers,
               LoadUser(h) \/ VerifyUser(h) \/ SaveSession(h) \/ SetSessionCookie(h)
        PROVE  Same
    BY <2>3 DEF LoadUser, VerifyUser, SaveSession, SetSessionCookie
  <2>4. ASSUME NEW h \in Handlers,
               LoadSession(h) \/ LoadAccount(h) \/ DeleteSession(h) \/ Reply(h) \/ Fail(h)
        PROVE  Same
    BY <2>4 DEF LoadSession, LoadAccount, DeleteSession, Reply, Fail
  <2>5. /\ \A h \in Handlers, e \in Emails, t \in Tokens : RequestLogin(h, e, t) => Same
        /\ \A h \in Handlers, t \in Tokens : Redeem(h, t) => Same
        /\ \A h \in Handlers, s \in Sessions : Authenticate(h, s) \/ Logout(h, s) => Same
    BY DEF RequestLogin, Redeem, Authenticate, Logout
  <2> HIDE DEF Same
  <2>6. Same \/ Purge \/ PurgeError \/ Tick \/ Crash \/ UNCHANGED vars
    BY <2>1, <2>2, <2>3, <2>4, <2>5 DEF Next, Step
  <2> QED BY <2>6 DEF Same, vars
<1>3. CASE UNCHANGED <<now, purge>>
  BY <1>3
<1>4. CASE Purge \/ PurgeError
  BY <1>1, <1>4 DEF Purge, StartPurge, PurgeTokens, PurgeSessions, PurgeError, TypeOK
<1>5. CASE Tick
  BY <1>1, <1>5 DEF Tick
<1>6. CASE Crash
  BY <1>6 DEF Crash, TypeOK
<1> QED BY <1>2, <1>3, <1>4, <1>5, <1>6

-----------------------------------------------------------------------------
(* The theorems.                                                           *)

\* The empty database satisfies the inductive invariant.
LEMMA IInvInit == Init => IInv
<1> SUFFICES ASSUME Init PROVE IInv
  OBVIOUS
<1>1. TypeOK
  BY TimeAssumption, IdleType DEF Init, TypeOK, Times
<1>2. \A h \in Handlers : req[h] = Idle
  BY DEF Init
<1>3. Locals
  BY <1>2 DEF Locals, Idle, LoginPCs, RedeemPCs, Creating, Submitting, OnSession
<1>4. AccountInv
  BY <1>2 DEF Init, AccountInv, Idle, At, Owning, OneAccountPerAddress
<1>5. LinkInv
  BY <1>2 DEF Init, LinkInv, Idle, At, LoginPCs
<1>6. ClaimInv
  BY <1>2 DEF Init, ClaimInv, Claim, Idle, At, RedeemPCs, Submitting, Claiming, Issued,
     SingleUse
<1>7. SessionInv
  BY <1>2 DEF Init, SessionInv, Row, On, Idle, At, OnSession, Issued
<1> QED BY <1>1, <1>3, <1>4, <1>5, <1>6, <1>7 DEF IInv

\* Every step, of every request and of the server, preserves it.
LEMMA IInvNext == IInv /\ [Next]_vars => IInv'
<1> SUFFICES ASSUME IInv, [Next]_vars PROVE IInv'
  OBVIOUS
<1> USE DEF IInv
<1>1. TypeOK'
  <2>1. CASE UNCHANGED vars
    BY <2>1 DEF TypeOK, vars
  <2>2. CASE Next
    BY <2>2, ArrivalStep, RequestStep, ServerStep DEF Next
  <2> QED BY <2>1, <2>2
<1>2. Monotone
  BY MonotoneStep
<1> QED BY <1>1, <1>2, LocalsStep, AccountStep, LinkStep, ClaimStep, SessionStep

\* The inductive invariant holds in every reachable state.
LEMMA Invariance == Spec => []IInv
  BY IInvInit, IInvNext, PTL DEF Spec

\* The tables and every request's locals keep their types.
THEOREM TypeCorrect == Spec => []TypeOK
  BY Invariance, PTL DEF IInv

\* "A link works once": Redeem's conditional UPDATE lets one request through,
\* whatever the others, the purge, a failure or a crash do.
THEOREM LinkOpensOneSession == Spec => []SingleUse
<1>1. IInv => SingleUse
  BY DEF IInv, ClaimInv
<1> QED BY <1>1, Invariance, PTL

\* Redeem saves the verified account before the session, and no step undoes
\* the verification.
THEOREM SessionsAreVerified == Spec => []SessionsVerified
<1>1. IInv => SessionsVerified
  BY DEF IInv, SessionInv, Row, SessionsVerified
<1> QED BY <1>1, Invariance, PTL

\* A session opens the account of the person who got the mail.
THEOREM SessionOfTheInbox == Spec => []SessionBelongsToInbox
<1>1. ASSUME IInv, NEW s \in Sessions, sessions[s] # None
      PROVE  mailbox[origin[s]] # None /\ HasEmail(sessions[s].user, mailbox[origin[s]].to)
  BY <1>1 DEF IInv, SessionInv, ClaimInv, Row
<1>2. IInv => SessionBelongsToInbox
  BY <1>1 DEF SessionBelongsToInbox
<1> QED BY <1>2, Invariance, PTL

\* Redeem opens no session for a link that had expired when it was submitted.
THEOREM SessionInTime == Spec => []SessionFromLiveLink
<1>1. IInv => SessionFromLiveLink
  BY DEF IInv, SessionInv, Row, SessionFromLiveLink
<1> QED BY <1>1, Invariance, PTL

\* The UNIQUE constraint and the upsert by id keep one account per address.
THEOREM AddressIsUnique == Spec => []OneAccountPerAddress
<1>1. IInv => OneAccountPerAddress
  BY DEF IInv, AccountInv
<1> QED BY <1>1, Invariance, PTL

\* Once Logout has deleted a session no request that arrives with its cookie
\* is let in.
THEOREM SignOutIsFinal == Spec => []SignOutSticks
<1>1. IInv => SignOutSticks
  BY DEF IInv, SessionInv, On, SignOutSticks, At
<1> QED BY <1>1, Invariance, PTL

\* Whatever the clock and the order of times as texts do, the purge deletes no row
\* with a second or more to live, and nothing else deletes a link, or a session that
\* was not signed out.
THEOREM PurgedAreDueHolds == Spec => PurgedAreDue
<1> DEFINE OnlyDue ==
      /\ \A t \in Tokens : tokens[t] # None /\ tokens'[t] = None
           => Second(tokens[t].expires) <= Second(now)
      /\ \A s \in Sessions : sessions[s] # None /\ sessions'[s] = None
           => s \in revoked' \/ Second(sessions[s].expires) <= Second(now)
<1>1. Spec => [](purge.at <= now)
  <2>1. Init => purge.at <= now
    BY DEF Init
  <2>2. IInv /\ purge.at <= now /\ [Next]_vars => (purge.at <= now)'
    BY StampStep DEF IInv
  <2> QED BY <2>1, <2>2, Invariance, PTL DEF Spec
<1>2. IInv /\ purge.at <= now /\ [Next]_vars => [OnlyDue]_vars
  BY Deletions, PurgeDue DEF IInv
<1> QED BY <1>1, <1>2, Invariance, PTL DEF Spec, PurgedAreDue

-----------------------------------------------------------------------------
(* The state of the promise in a state of the tables.                      *)

\* What the promise sees.
Seen == <<mailbox, tokens, users, origin, sessions>>

\* Steps of the requests that the promise does not see.
LEMMA UnseenStep ==
  ASSUME UNCHANGED Seen
  PROVE  UNCHANGED Promise!vars
  BY DEF Seen, Promise!vars, linkState, linkOwner, provenEmails, honouredTokens, sessionState,
         Unclaimed, Issued, HasEmail

\* The tables a link's state is read from.
LEMMA SameLinks ==
  ASSUME UNCHANGED <<mailbox, tokens>>
  PROVE  UNCHANGED <<linkState, linkOwner>>
  BY DEF linkState, linkOwner, Unclaimed

\* The tables that tell whose address is proven, and which sessions there are.
LEMMA SameSessions ==
  ASSUME UNCHANGED <<users, sessions, origin>>
  PROVE  UNCHANGED <<provenEmails, honouredTokens, sessionState>>
  BY DEF provenEmails, honouredTokens, sessionState, Issued, HasEmail

-----------------------------------------------------------------------------
(* The steps that it does see.                                             *)

\* A new account proves nothing, and no session is its yet.
LEMMA CreateAccountMaps ==
  ASSUME IInv, NEW h \in Handlers, CreateAccount(h)
  PROVE  UNCHANGED Promise!vars
<1> DEFINE u == req[h].uid
           row == [email |-> req[h].addr, verified |-> FALSE]
<1>1. u \in UserIDs /\ users[u] = None /\ users \in [UserIDs -> UserRow \cup {None}]
  BY DEF IInv, TypeOK, Locals, Creating, AccountInv, CreateAccount, At
<1>2. users' = [users EXCEPT ![u] = row] /\ UNCHANGED <<mailbox, tokens, sessions, origin>>
  BY DEF CreateAccount, SaveUser, history
<1>3. row.verified = FALSE
  OBVIOUS
<1> HIDE DEF u, row
<1>4. \A v \in UserIDs : v # u => users'[v] = users[v]
  BY <1>1, <1>2
<1>5. users'[u] = row
  BY <1>1, <1>2
<1>6. UNCHANGED provenEmails
  <2>1. \A v \in UserIDs, e \in Emails :
          (HasEmail(v, e) /\ users[v].verified) <=> (HasEmail(v, e)' /\ users'[v].verified)
    BY <1>1, <1>3, <1>4, <1>5 DEF HasEmail
  <2> QED BY <2>1 DEF provenEmails
<1>7. UNCHANGED sessionState
  <2>1. \A s \in Sessions : sessions[s] # None =>
          users'[sessions[s].user].email = users[sessions[s].user].email
    <3>1. \A s \in Sessions : sessions[s] # None =>
            sessions[s].user \in UserIDs /\ users[sessions[s].user] # None
      BY DEF IInv, TypeOK, SessionRow, SessionInv, Row
    <3> QED BY <1>1, <1>4, <3>1
  <2> QED BY <1>2, <2>1 DEF sessionState
<1>8. UNCHANGED <<linkState, linkOwner, honouredTokens>>
  BY <1>2, SameLinks DEF honouredTokens, Issued
<1> QED BY <1>6, <1>7, <1>8 DEF Promise!vars

\* A link that was not mailed yet is unmailed, whether it is stored or not.
LEMMA SaveLoginTokenMaps ==
  ASSUME IInv, NEW h \in Handlers, SaveLoginToken(h)
  PROVE  UNCHANGED Promise!vars
<1> DEFINE t == req[h].tok
<1>1. t \in Tokens /\ mailbox[t] = None
  BY DEF IInv, TypeOK, Locals, LinkInv, LoginPCs, SaveLoginToken, At
<1>2. /\ \A i \in Tokens : i # t => tokens'[i] = tokens[i]
      /\ UNCHANGED <<mailbox, users, sessions, origin>>
  BY <1>1 DEF IInv, TypeOK, SaveLoginToken, history
<1> HIDE DEF t
<1>3. \A i \in Tokens : mailbox[i] # None => (Unclaimed(i)' <=> Unclaimed(i))
  BY <1>1, <1>2 DEF Unclaimed
<1>4. UNCHANGED <<linkState, linkOwner>>
  BY <1>2, <1>3 DEF linkState, linkOwner
<1> QED BY <1>2, <1>4, SameSessions DEF Promise!vars

\* The mail is sent: its link is open, unless it was purged or used before.
LEMMA SendLoginLinkMaps ==
  ASSUME IInv, NEW h \in Handlers, SendLoginLink(h)
  PROVE  Promise!Next
<1> DEFINE t == req[h].tok
           mail == [to |-> req[h].addr, expires |-> req[h].at + TokenTTL]
<1>1. t \in Tokens /\ req[h].addr \in Emails /\ mailbox[t] = None
  BY DEF IInv, TypeOK, Locals, LinkInv, LoginPCs, SendLoginLink, At
<1>2. mail \in Mail /\ mail # None /\ mail.to = req[h].addr
  <2>1. req[h].at \in 0..MaxTime
    BY DEF IInv, TypeOK, Request
  <2>2. req[h].at + TokenTTL \in Times
    BY <2>1, TimeAssumption DEF Times
  <2> QED BY <1>1, <2>2, NoneAssumption DEF Mail
<1>3. mailbox' = [mailbox EXCEPT ![t] = mail] /\ UNCHANGED <<users, tokens, sessions, origin>>
  BY DEF SendLoginLink, tables, history
<1>4. mailbox \in [Tokens -> Mail \cup {None}]
  BY DEF IInv, TypeOK
<1> HIDE DEF t, mail
<1>5. linkState[t] = "unmailed"
  BY <1>1 DEF linkState
<1>6. PICK l \in {"open", "spent"} : l = IF Unclaimed(t) THEN "open" ELSE "spent"
  OBVIOUS
<1>7. linkState' = [linkState EXCEPT ![t] = l]
  BY <1>1, <1>2, <1>3, <1>4, <1>6 DEF linkState, Unclaimed
<1>8. linkOwner' = [linkOwner EXCEPT ![t] = req[h].addr]
  BY <1>1, <1>2, <1>3, <1>4 DEF linkOwner
<1>9. Promise!MailLink(t, req[h].addr)
  BY <1>3, <1>5, <1>6, <1>7, <1>8, SameSessions DEF Promise!MailLink
<1> QED BY <1>1, <1>9 DEF Promise!Next

\* A claim spends its link; a claim that comes too late changes nothing.
LEMMA MarkLoginTokenUsedMaps ==
  ASSUME IInv, NEW h \in Handlers, MarkLoginTokenUsed(h)
  PROVE  Promise!Next \/ UNCHANGED Promise!vars
<1> DEFINE t == req[h].tok
<1>1. t \in Tokens /\ mailbox[t] # None
  BY DEF IInv, TypeOK, Locals, RedeemPCs, ClaimInv, Claim, MarkLoginTokenUsed, At
<1>2. UNCHANGED <<mailbox, users, sessions, origin>>
  BY DEF MarkLoginTokenUsed, history
<1>3. CASE Unclaimed(t)
  <2>1. tokens' = [tokens EXCEPT ![t].used = TRUE] /\ tokens[t] \in TokenRow
    BY <1>1, <1>3 DEF MarkLoginTokenUsed, Unclaimed, IInv, TypeOK
  <2> HIDE DEF t
  <2>2. /\ tokens'[t].used
        /\ \A i \in Tokens : i # t => tokens'[i] = tokens[i]
    BY <1>1, <2>1 DEF IInv, TypeOK, TokenRow
  <2>3. linkState[t] = "open"
    BY <1>1, <1>3 DEF linkState
  <2>4. linkState' = [i \in Tokens |-> IF i \in {t} THEN "spent" ELSE linkState[i]]
    BY <1>1, <1>2, <2>2 DEF linkState, Unclaimed
  <2>5. UNCHANGED linkOwner
    BY <1>2 DEF linkOwner
  <2>6. Promise!Spend({t})
    BY <1>1, <1>2, <2>3, <2>4, <2>5, SameSessions DEF Promise!Spend
  <2>7. {t} \in SUBSET Tokens
    BY <1>1
  <2> QED BY <2>6, <2>7 DEF Promise!Next
<1>4. CASE ~Unclaimed(t)
  BY <1>2, <1>4, UnseenStep DEF MarkLoginTokenUsed, Seen
<1> QED BY <1>3, <1>4

\* The account of the address is verified: that proves the address.
LEMMA VerifyUserMaps ==
  ASSUME IInv, NEW h \in Handlers, VerifyUser(h)
  PROVE  Promise!Next
<1> DEFINE u == req[h].uid
           t == req[h].tok
           e == req[h].addr
           row == [email |-> e, verified |-> TRUE]
<1>1. u \in UserIDs /\ t \in Tokens /\ e \in Emails
  BY DEF IInv, TypeOK, Locals, RedeemPCs, Submitting, VerifyUser, At
<1>2. HasEmail(u, e) /\ mailbox[t] # None /\ HasEmail(u, mailbox[t].to) /\ ~Unclaimed(t)
  BY DEF IInv, AccountInv, ClaimInv, Claim, RedeemPCs, Submitting, Claiming, VerifyUser, At
<1>3. users' = [users EXCEPT ![u] = row] /\ UNCHANGED <<mailbox, tokens, sessions, origin>>
  BY DEF VerifyUser, SaveUser, history
<1>4. row.email = e /\ row.verified /\ row # None
  <2>1. row \in UserRow
    BY <1>1 DEF UserRow
  <2> QED BY <2>1, NoneAssumption
<1> HIDE DEF u, t, e, row
<1>5. users'[u] = row /\ \A v \in UserIDs : v # u => users'[v] = users[v]
  BY <1>1, <1>3 DEF IInv, TypeOK
<1>6. linkState[t] = "spent" /\ linkOwner[t] = e
  BY <1>1, <1>2 DEF linkState, linkOwner, HasEmail
<1>7. provenEmails' = provenEmails \cup {e}
  <2>1. \A i \in provenEmails' : i \in provenEmails \/ i = e
    BY <1>4, <1>5 DEF provenEmails, HasEmail
  <2>2. e \in provenEmails'
    BY <1>1, <1>4, <1>5 DEF provenEmails, HasEmail
  <2>3. \A i \in provenEmails : i \in provenEmails'
    BY <1>2, <1>4, <1>5 DEF provenEmails, HasEmail
  <2> QED BY <2>1, <2>2, <2>3
<1>8. UNCHANGED sessionState
  <2>1. \A v \in UserIDs : users'[v].email = users[v].email
    BY <1>2, <1>4, <1>5 DEF HasEmail
  <2>2. \A s \in Sessions : sessions[s] # None => sessions[s].user \in UserIDs
    BY DEF IInv, TypeOK, SessionRow
  <2> QED BY <1>3, <2>1, <2>2 DEF sessionState
<1>9. UNCHANGED <<linkState, linkOwner, honouredTokens>>
  BY <1>3, SameLinks DEF honouredTokens, Issued
<1>10. Promise!Prove(t)
  BY <1>6, <1>7, <1>8, <1>9 DEF Promise!Prove
<1> QED BY <1>1, <1>10 DEF Promise!Next

\* The session of a claim: of a spent link, its first, for a proven address.
LEMMA SaveSessionMaps ==
  ASSUME IInv, NEW h \in Handlers, SaveSession(h)
  PROVE  Promise!Next
<1> DEFINE u == req[h].uid
           t == req[h].tok
           row == SessionFor(h)
<1>1. u \in UserIDs /\ t \in Tokens
  BY DEF IInv, TypeOK, Locals, RedeemPCs, Submitting, SaveSession, At
<1>2. /\ mailbox[t] # None /\ HasEmail(u, mailbox[t].to) /\ ~Unclaimed(t)
      /\ users[u].verified /\ \A i \in Sessions : origin[i] # t
  BY DEF IInv, ClaimInv, Claim, RedeemPCs, Submitting, Claiming, SaveSession, At
<1>3. mailbox[t].to \in Emails
  BY <1>1, <1>2 DEF IInv, TypeOK, Mail
<1>4. PICK s \in Sessions : /\ origin[s] = None
                            /\ sessions' = [sessions EXCEPT ![s] = row]
                            /\ origin' = [origin EXCEPT ![s] = t]
  BY DEF SaveSession
<1>5. UNCHANGED <<mailbox, tokens, users>>
  BY DEF SaveSession
<1>6. row.user = u /\ row # None
  <2>1. req[h].at \in 0..MaxTime
    BY DEF IInv, TypeOK, Request
  <2>2. req[h].at \in Times /\ req[h].at + SessionTTL \in Times
    BY <2>1, TimeAssumption DEF Times
  <2> QED BY <1>1, <2>2, NoneAssumption DEF SessionFor, SessionRow
<1> HIDE DEF u, t, row
<1>7. t # None
  BY <1>1, NoneAssumption
<1>8. /\ sessions'[s] = row /\ origin'[s] = t
      /\ \A i \in Sessions : i # s => sessions'[i] = sessions[i] /\ origin'[i] = origin[i]
  BY <1>4 DEF IInv, TypeOK
<1>9. /\ linkState[t] = "spent" /\ linkOwner[t] = mailbox[t].to
      /\ linkOwner[t] \in provenEmails
  BY <1>1, <1>2, <1>3 DEF linkState, linkOwner, provenEmails
<1>10. t \notin honouredTokens /\ honouredTokens' = honouredTokens \cup {t}
  <2>1. s \notin Issued /\ Issued' = Issued \cup {s}
    BY <1>4, <1>7, <1>8 DEF Issued
  <2>2. \A i \in Issued : i # s /\ origin'[i] = origin[i]
    BY <1>8, <2>1 DEF Issued
  <2> QED BY <1>2, <1>8, <2>1, <2>2 DEF honouredTokens, Issued
<1>11. sessionState[s].state = "new"
  BY <1>4 DEF sessionState
<1>12. sessionState' = [sessionState EXCEPT ![s] = [state |-> "open", who |-> linkOwner[t]]]
  <2>1. users'[row.user].email = linkOwner[t]
    BY <1>2, <1>5, <1>6, <1>9 DEF HasEmail
  <2>2. sessionState'[s] = [state |-> "open", who |-> linkOwner[t]]
    BY <1>6, <1>7, <1>8, <2>1 DEF sessionState
  <2>3. \A i \in Sessions : i # s => sessionState'[i] = sessionState[i]
    BY <1>5, <1>8 DEF sessionState
  <2> QED BY <2>2, <2>3 DEF sessionState
<1>13. UNCHANGED <<linkState, linkOwner, provenEmails>>
  BY <1>5, SameLinks DEF provenEmails, HasEmail
<1>14. Promise!OpenSession(s, t)
  BY <1>9, <1>10, <1>11, <1>12, <1>13 DEF Promise!OpenSession
<1> QED BY <1>1, <1>14 DEF Promise!Next

\* Sessions that go away: closed in the promise, all at once.
LEMMA ClosingMaps ==
  ASSUME IInv, UNCHANGED <<mailbox, tokens, users, origin>>,
         \A s \in Sessions : sessions'[s] = sessions[s] \/ sessions'[s] = None
  PROVE  Promise!Next \/ UNCHANGED Promise!vars
<1> DEFINE ss == {s \in Sessions : sessions[s] # None /\ sessions'[s] = None}
<1>1. ASSUME NEW s \in ss
      PROVE  sessionState[s].state = "open" /\ sessionState'[s] = [state |-> "closed", who |-> None]
  <2>1. origin[s] # None
    BY DEF IInv, SessionInv, Row, Issued
  <2> QED BY <2>1 DEF sessionState
<1>2. ASSUME NEW s \in Sessions \ ss PROVE sessionState'[s] = sessionState[s]
  BY DEF sessionState
<1>3. UNCHANGED <<linkState, linkOwner, provenEmails, honouredTokens>>
  BY SameLinks DEF provenEmails, honouredTokens, HasEmail, Issued
<1>4. ss \in SUBSET Sessions
  OBVIOUS
<1>5. sessionState' = [s \in Sessions |-> IF s \in ss THEN [state |-> "closed", who |-> None]
                                                       ELSE sessionState[s]]
  <2>1. sessionState' = [s \in Sessions |-> sessionState'[s]]
    BY DEF sessionState
  <2> HIDE DEF ss
  <2> QED BY <1>1, <1>2, <2>1
<1>6. CASE ss = {}
  <2>1. sessionState = [s \in Sessions |-> sessionState[s]]
    BY DEF sessionState
  <2> QED BY <1>3, <1>5, <1>6, <2>1 DEF Promise!vars
<1>7. CASE ss # {}
  <2> HIDE DEF ss
  <2>1. Promise!CloseSessions(ss)
    BY <1>1, <1>3, <1>5, <1>7 DEF Promise!CloseSessions
  <2> QED BY <1>4, <2>1 DEF Promise!Next
<1> QED BY <1>6, <1>7

\* Signing out closes the session of the cookie.
LEMMA DeleteSessionMaps ==
  ASSUME IInv, NEW h \in Handlers, DeleteSession(h)
  PROVE  Promise!Next \/ UNCHANGED Promise!vars
<1>1. \A s \in Sessions : sessions'[s] = sessions[s] \/ sessions'[s] = None
  BY DEF DeleteSession, IInv, TypeOK
<1> QED BY <1>1, ClosingMaps DEF DeleteSession

\* The purge closes sessions.
LEMMA PurgeSessionsMaps ==
  ASSUME IInv, PurgeSessions
  PROVE  Promise!Next \/ UNCHANGED Promise!vars
<1>1. \A s \in Sessions : sessions'[s] = sessions[s] \/ sessions'[s] = None
  BY DEF PurgeSessions, Without, IInv, TypeOK
<1> QED BY <1>1, ClosingMaps DEF PurgeSessions, history

\* The purge spends what was open of the links it deletes.
LEMMA PurgeTokensMaps ==
  ASSUME IInv, PurgeTokens
  PROVE  Promise!Next \/ UNCHANGED Promise!vars
<1> DEFINE ts == {t \in Tokens : linkState[t] = "open" /\ tokens'[t] = None}
<1>1. /\ \A t \in Tokens : tokens'[t] = tokens[t] \/ tokens'[t] = None
      /\ UNCHANGED <<mailbox, users, sessions, origin>>
  BY DEF PurgeTokens, Without, IInv, TypeOK, history
<1>2. ASSUME NEW t \in ts PROVE linkState'[t] = "spent"
  BY <1>1 DEF linkState, Unclaimed
<1>3. ASSUME NEW t \in Tokens \ ts PROVE linkState'[t] = linkState[t]
  BY <1>1 DEF linkState, Unclaimed
<1>4. linkState' = [t \in Tokens |-> IF t \in ts THEN "spent" ELSE linkState[t]]
  <2>1. linkState' = [t \in Tokens |-> linkState'[t]]
    BY DEF linkState
  <2> HIDE DEF ts
  <2> QED BY <1>2, <1>3, <2>1
<1>5. UNCHANGED <<linkOwner, provenEmails, honouredTokens, sessionState>>
  BY <1>1, SameSessions DEF linkOwner
<1>6. CASE ts = {}
  <2>1. linkState = [t \in Tokens |-> linkState[t]]
    BY DEF linkState
  <2> QED BY <1>4, <1>5, <1>6, <2>1 DEF Promise!vars
<1>7. CASE ts # {}
  <2>1. ts \in SUBSET Tokens /\ \A t \in ts : linkState[t] = "open"
    OBVIOUS
  <2> HIDE DEF ts
  <2>2. Promise!Spend(ts)
    BY <1>4, <1>5, <1>7, <2>1 DEF Promise!Spend
  <2> QED BY <2>1, <2>2 DEF Promise!Next
<1> QED BY <1>6, <1>7

-----------------------------------------------------------------------------
(* The theorem.                                                            *)

\* Tables without rows promise nothing yet.
LEMMA InitMaps == Init => Promise!Init
<1> SUFFICES ASSUME Init PROVE Promise!Init OBVIOUS
<1>1. linkState = [t \in Tokens |-> "unmailed"] /\ linkOwner = [t \in Tokens |-> None]
  BY DEF Init, linkState, linkOwner
<1>2. provenEmails = {} /\ honouredTokens = {}
  BY DEF Init, provenEmails, honouredTokens, HasEmail, Issued
<1>3. sessionState = [s \in Sessions |-> [state |-> "new", who |-> None]]
  BY DEF Init, sessionState
<1> QED BY <1>1, <1>2, <1>3 DEF Promise!Init

\* Every step maps to a step of the promise or to none.
LEMMA StepMaps ==
  ASSUME IInv, [Next]_vars
  PROVE  [Promise!Next]_(Promise!vars)
<1>1. ASSUME NEW h \in Handlers,
             \/ \E e \in Emails, t \in Tokens : RequestLogin(h, e, t)
             \/ \E t \in Tokens : Redeem(h, t)
             \/ \E s \in Sessions : Authenticate(h, s) \/ Logout(h, s)
             \/ FindAccount(h) \/ MintAccount(h) \/ CreateAccountRefused(h)
             \/ LoadToken(h) \/ LoadUser(h) \/ SetSessionCookie(h)
             \/ LoadSession(h) \/ LoadAccount(h) \/ Reply(h) \/ Fail(h)
      PROVE  UNCHANGED Promise!vars
  <2>1. UNCHANGED Seen
    BY <1>1 DEF RequestLogin, Redeem, Authenticate, Logout, FindAccount, MintAccount,
        CreateAccountRefused, LoadToken, LoadUser, SetSessionCookie, LoadSession, LoadAccount,
        Reply, Fail, Seen, tables, history
  <2> QED BY <2>1, UnseenStep
<1>2. ASSUME NEW h \in Handlers, Step(h)
      PROVE  Promise!Next \/ UNCHANGED Promise!vars
  BY <1>1, <1>2, CreateAccountMaps, SaveLoginTokenMaps, SendLoginLinkMaps, MarkLoginTokenUsedMaps,
     VerifyUserMaps, SaveSessionMaps, DeleteSessionMaps DEF Step
<1>3. CASE StartPurge \/ PurgeError \/ Tick \/ Crash \/ UNCHANGED vars
  <2>1. UNCHANGED Seen
    BY <1>3 DEF StartPurge, PurgeError, Tick, Crash, vars, Seen, tables, history
  <2> QED BY <2>1, UnseenStep
<1> QED BY <1>1, <1>2, <1>3, PurgeTokensMaps, PurgeSessionsMaps DEF Next, Purge

\* Whatever requests, purges, errors and crashes do to the tables, a person sees
\* links that can be spent once, addresses proven by spending a link, and one session
\* for each spent link, in the name of the address the link was mailed to.
THEOREM ImplementsMagicLinkHolds == Spec => ImplementsMagicLink
<1>1. IInv /\ [Next]_vars => [Promise!Next]_(Promise!vars)
  BY StepMaps
<1> QED BY <1>1, InitMaps, Invariance, PTL DEF Spec, ImplementsMagicLink, Promise!Spec
=============================================================================
