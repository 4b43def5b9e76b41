------------------------------ MODULE MagicLink ------------------------------
(***************************************************************************)
(* What sign-in promises, with no request, row or clock in sight: a link   *)
(* mailed to an address can be spent once; spending it is what proves the  *)
(* address; and a session is opened only for a spent link, at most one for *)
(* each, in the name of the address the link was mailed to.                *)
(***************************************************************************)
CONSTANTS Emails, Tokens, Sessions, None

VARIABLES
  link,      \* "unmailed", "open" or "spent", for each token
  owner,     \* the address a token was mailed to, or None
  proven,    \* addresses whose owner has followed a link
  honoured,  \* tokens that have opened their session
  session    \* [state, who]: "new", then "open" in a name, then "closed"

vars == <<link, owner, proven, honoured, session>>

Init ==
  /\ link = [t \in Tokens |-> "unmailed"]
  /\ owner = [t \in Tokens |-> None]
  /\ proven = {}
  /\ honoured = {}
  /\ session = [s \in Sessions |-> [state |-> "new", who |-> None]]

\* A mail that took too long arrives with a link that is no longer open.
MailLink(t, e) ==
  /\ link[t] = "unmailed"
  /\ \E l \in {"open", "spent"} : link' = [link EXCEPT ![t] = l]
  /\ owner' = [owner EXCEPT ![t] = e]
  /\ UNCHANGED <<proven, honoured, session>>

\* Links are spent by a redemption, or by expiring: all that are due at once.
Spend(ts) ==
  /\ ts # {}
  /\ \A t \in ts : link[t] = "open"
  /\ link' = [t \in Tokens |-> IF t \in ts THEN "spent" ELSE link[t]]
  /\ UNCHANGED <<owner, proven, honoured, session>>

Prove(t) ==
  /\ link[t] = "spent"
  /\ proven' = proven \cup {owner[t]}
  /\ UNCHANGED <<link, owner, honoured, session>>

OpenSession(s, t) ==
  /\ link[t] = "spent"
  /\ t \notin honoured
  /\ owner[t] \in proven
  /\ session[s].state = "new"
  /\ session' = [session EXCEPT ![s] = [state |-> "open", who |-> owner[t]]]
  /\ honoured' = honoured \cup {t}
  /\ UNCHANGED <<link, owner, proven>>

\* Signed out, or expired: a closed session never opens again.
CloseSessions(ss) ==
  /\ ss # {}
  /\ \A s \in ss : session[s].state = "open"
  /\ session' = [s \in Sessions |-> IF s \in ss
                                    THEN [state |-> "closed", who |-> None]
                                    ELSE session[s]]
  /\ UNCHANGED <<link, owner, proven, honoured>>

Next ==
  \/ \E t \in Tokens, e \in Emails : MailLink(t, e)
  \/ \E ts \in SUBSET Tokens : Spend(ts)
  \/ \E t \in Tokens : Prove(t)
  \/ \E s \in Sessions, t \in Tokens : OpenSession(s, t)
  \/ \E ss \in SUBSET Sessions : CloseSessions(ss)

Spec == Init /\ [][Next]_vars
=============================================================================
