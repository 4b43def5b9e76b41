------------------------- MODULE IdentityRefinement -------------------------
(* Identity implements MagicLink.                                          *)
EXTENDS Identity

linkState == [t \in Tokens |->
  IF mailbox[t] = None THEN "unmailed"
  ELSE IF Unclaimed(t) THEN "open"
  ELSE "spent"]

linkOwner == [t \in Tokens |->
  IF mailbox[t] = None THEN None ELSE mailbox[t].to]

provenEmails == {e \in Emails : \E u \in UserIDs : HasEmail(u, e) /\ users[u].verified}

honouredTokens == {origin[s] : s \in Issued}

sessionState == [s \in Sessions |->
  IF origin[s] = None THEN [state |-> "new", who |-> None]
  ELSE IF sessions[s] = None THEN [state |-> "closed", who |-> None]
  ELSE [state |-> "open", who |-> users[sessions[s].user].email]]

Promise == INSTANCE MagicLink WITH
  link <- linkState, owner <- linkOwner, proven <- provenEmails,
  honoured <- honouredTokens, session <- sessionState

\* Every step of every interleaving of sign-in's requests, its purge and its
\* crashes is a step of the promise, or changes nothing the promise mentions.
ImplementsMagicLink == Promise!Spec
=============================================================================
