------------------------------- MODULE Confirm -------------------------------
(***************************************************************************)
(* The page between a link and a session: authapp's handleConfirm and      *)
(* handleCallback with the nonce of confirm.go, over Peek and Redeem.  A   *)
(* browser has one confirmation cookie for all of its tabs; requests and   *)
(* responses are in flight for as long as they like.                       *)
(*                                                                         *)
(* Of Redeem, the steps that a browser can tell apart are here: the link   *)
(* is looked at, claimed, and a session is opened, and a store call may    *)
(* fail or the process end between any two.  The accounts behind the links *)
(* are Identity's; a link is live until it is used or too old.             *)
(*                                                                         *)
(* A definition no action uses, placed right before the one it resembles,  *)
(* is a plausible defect of it (README.md, "Mutants").                     *)
(***************************************************************************)
EXTENDS Naturals, FiniteSets, SequencesExt

CONSTANTS
  Browsers,
  Links,
  LinkTTL,      \* in ticks; links are minted at time 0
  ConfirmTTL,   \* in ticks
  MaxPages,     \* pages the server renders in a run (bound)
  MaxCalls,     \* requests and responses in flight (bound)
  MaxTime,      \* the clock stops here (bound)
  None          \* no cookie, no nonce

ASSUME TTLAssumption ==
  /\ LinkTTL \in Nat \ {0} /\ ConfirmTTL \in Nat \ {0}
  /\ MaxPages \in Nat /\ MaxTime \in Nat /\ None \notin Nat \cup [nonce : Nat, expires : Nat]

VARIABLES
  now,
  used,       \* links that were claimed
  nonces,     \* how many nonces were minted; a nonce is its number
  cookie,     \* browser -> [nonce, expires], or None
  tabs,       \* browser -> the pages it shows, in order of arrival: [link, nonce]
  calls,      \* in flight
  \* History.
  rendered,   \* [browser, link, nonce] of each page
  accepted,   \* [browser, link, nonce] of each POST that signed in
  wasted,     \* of each POST that claimed its link and then failed
  fresh       \* browser -> no sign-in has completed since the last page arrived

vars == <<now, used, nonces, cookie, tabs, calls, rendered, accepted, wasted, fresh>>

Page == [link : Links, nonce : 1..MaxPages]

\* A GET, the page that answers it, a POST with the cookie it carries, a POST that is
\* being redeemed, before and after its claim, and the two answers to that.
Call == [kind : {"get", "expired"}, browser : Browsers, link : Links]
        \cup [kind : {"page", "redeeming", "claimed", "signed in"},
              browser : Browsers, link : Links, nonce : 1..MaxPages]
        \cup [kind : {"post"}, browser : Browsers, link : Links, nonce : 1..MaxPages,
              carried : 1..MaxPages \cup {None}]

Init ==
  /\ now = 0 /\ used = {} /\ nonces = 0
  /\ cookie = [b \in Browsers |-> None]
  /\ tabs = [b \in Browsers |-> <<>>]
  /\ calls = {} /\ rendered = {} /\ accepted = {} /\ wasted = {}
  /\ fresh = [b \in Browsers |-> TRUE]

IsRedeemable(link) == link \notin used /\ now < LinkTTL

\* What a browser sends along: a cookie is gone when its time has come.
Carried(b) == IF cookie[b] # None /\ now < cookie[b].expires THEN cookie[b].nonce ELSE None

Answer(c, response) == calls' = (calls \ {c}) \cup {response}
Send(c) == Cardinality(calls) < MaxCalls /\ calls' = calls \cup {c}

-----------------------------------------------------------------------------
(* The browser.                                                            *)

\* Following a link; a person may do so again, or be made to.
Follow(b, link) ==
  /\ Send([kind |-> "get", browser |-> b, link |-> link])
  /\ UNCHANGED <<now, used, nonces, cookie, tabs, rendered, accepted, wasted, fresh>>

SetConfirmCookie(b, nonce) == [nonce |-> nonce, expires |-> now + ConfirmTTL]

\* Its Set-Cookie takes the place of that of an earlier page.
PageArrives(c) ==
  /\ c.kind = "page" /\ calls' = calls \ {c}
  /\ cookie' = [cookie EXCEPT ![c.browser] = SetConfirmCookie(c.browser, c.nonce)]
  /\ tabs' = [tabs EXCEPT ![c.browser] = Append(@, [link |-> c.link, nonce |-> c.nonce])]
  /\ fresh' = [fresh EXCEPT ![c.browser] = TRUE]
  /\ UNCHANGED <<now, used, nonces, rendered, accepted, wasted>>

\* "Yes, sign me in", on any page that is open.
Submit(b, page) ==
  /\ page \in ToSet(tabs[b])
  /\ Send([kind |-> "post", browser |-> b, link |-> page.link, nonce |-> page.nonce,
           carried |-> Carried(b)])
  /\ UNCHANGED <<now, used, nonces, cookie, tabs, rendered, accepted, wasted, fresh>>

\* A form on another site, filled from a page of another browser: SameSite=Strict
\* keeps the cookie back.  The same form may be opened and submitted by hand, and
\* then carries the cookie.
ForeignPost(b, page, strict) ==
  /\ \E o \in Browsers \ {b} : page \in ToSet(tabs[o])
  /\ Send([kind |-> "post", browser |-> b, link |-> page.link, nonce |-> page.nonce,
           carried |-> IF strict THEN None ELSE Carried(b)])
  /\ UNCHANGED <<now, used, nonces, cookie, tabs, rendered, accepted, wasted, fresh>>

CallbackClearsAlways(c) ==
  /\ c.kind \in {"signed in", "expired"} /\ calls' = calls \ {c}
  /\ cookie' = [cookie EXCEPT ![c.browser] = None]
  /\ fresh' = IF c.kind = "signed in" THEN [fresh EXCEPT ![c.browser] = FALSE] ELSE fresh
  /\ UNCHANGED <<now, used, nonces, tabs, rendered, accepted, wasted>>

\* The answer of handleCallback: a sign-in clears the confirmation cookie,
\* whichever page it is for; the other answers leave it.
CallbackAnswered(c) ==
  /\ c.kind \in {"signed in", "expired"} /\ calls' = calls \ {c}
  /\ IF c.kind = "signed in"
     THEN /\ cookie' = [cookie EXCEPT ![c.browser] = None]
          /\ fresh' = [fresh EXCEPT ![c.browser] = FALSE]
     ELSE UNCHANGED <<cookie, fresh>>
  /\ UNCHANGED <<now, used, nonces, tabs, rendered, accepted, wasted>>

\* A response is lost, or its tab was closed before it came; an "expired" that
\* is lost is one that changes nothing.
Lose(c) ==
  /\ c.kind \in {"page", "signed in"} /\ calls' = calls \ {c}
  /\ UNCHANGED <<now, used, nonces, cookie, tabs, rendered, accepted, wasted, fresh>>

-----------------------------------------------------------------------------
(* The server.                                                             *)

Expired(c) == [kind |-> "expired", browser |-> c.browser, link |-> c.link]

\* handleConfirm: Peek, and a page with a nonce of its own.
HandleConfirm(c) ==
  /\ c.kind = "get"
  /\ IF IsRedeemable(c.link)
     THEN /\ nonces < MaxPages /\ nonces' = nonces + 1
          /\ Answer(c, [kind |-> "page", browser |-> c.browser, link |-> c.link, nonce |-> nonces'])
          /\ rendered' = rendered \cup {[browser |-> c.browser, link |-> c.link, nonce |-> nonces']}
     ELSE Answer(c, Expired(c)) /\ UNCHANGED <<nonces, rendered>>
  /\ UNCHANGED <<now, used, cookie, tabs, accepted, wasted, fresh>>

ConfirmNoncePresent(c) == c.carried # None

ConfirmNonceMatches(c) == c.carried # None /\ c.carried = c.nonce

\* The request c of a page, at another stage.
Stage(c, kind) == [kind |-> kind, browser |-> c.browser, link |-> c.link, nonce |-> c.nonce]
PageOf(c) == [browser |-> c.browser, link |-> c.link, nonce |-> c.nonce]

\* handleCallback: the nonce first, then Redeem, which looks at the link.
HandleCallback(c) ==
  /\ c.kind = "post"
  /\ Answer(c, IF ConfirmNonceMatches(c) /\ IsRedeemable(c.link)
               THEN Stage(c, "redeeming") ELSE Expired(c))
  /\ UNCHANGED <<now, used, nonces, cookie, tabs, rendered, accepted, wasted, fresh>>

\* Redeem, MarkLoginTokenUsed: another request may have claimed the link by now.
ClaimLink(c) ==
  /\ c.kind = "redeeming"
  /\ Answer(c, IF c.link \notin used THEN Stage(c, "claimed") ELSE Expired(c))
  /\ used' = used \cup {c.link}
  /\ UNCHANGED <<now, nonces, cookie, tabs, rendered, accepted, wasted, fresh>>

\* Redeem, UserByID to SaveSession, and the answer with both cookies.
SignIn(c) ==
  /\ c.kind = "claimed"
  /\ Answer(c, Stage(c, "signed in"))
  /\ accepted' = accepted \cup {PageOf(c)}
  /\ UNCHANGED <<now, used, nonces, cookie, tabs, rendered, wasted, fresh>>

\* A store call of Peek or Redeem fails, or the process ends: no answer is one that changes
\* nothing, like an "expired".  A link that was claimed is spent, and nobody is signed in.
Fail(c) ==
  /\ c.kind \in {"get", "post", "redeeming", "claimed"}
  /\ Answer(c, Expired(c))
  /\ wasted' = IF c.kind = "claimed" THEN wasted \cup {PageOf(c)} ELSE wasted
  /\ UNCHANGED <<now, used, nonces, cookie, tabs, rendered, accepted, fresh>>

Tick ==
  /\ now < MaxTime /\ now' = now + 1
  /\ UNCHANGED <<used, nonces, cookie, tabs, calls, rendered, accepted, wasted, fresh>>

Next ==
  \/ \E b \in Browsers : \/ \E link \in Links : Follow(b, link)
                         \/ \E page \in Page : Submit(b, page)
                         \/ \E page \in Page, strict \in BOOLEAN : ForeignPost(b, page, strict)
  \/ \E c \in calls : PageArrives(c) \/ CallbackAnswered(c) \/ Lose(c)
                      \/ HandleConfirm(c) \/ HandleCallback(c) \/ ClaimLink(c) \/ SignIn(c) \/ Fail(c)
  \/ Tick

Spec == Init /\ [][Next]_vars

-----------------------------------------------------------------------------
TypeOK ==
  /\ now \in 0..MaxTime /\ used \subseteq Links /\ nonces \in 0..MaxPages
  /\ cookie \in [Browsers -> [nonce : 1..MaxPages, expires : 1..MaxTime + ConfirmTTL] \cup {None}]
  /\ tabs \in [Browsers -> Seq(Page)]
  /\ calls \subseteq Call
  /\ rendered \cup accepted \cup wasted \subseteq [browser : Browsers, link : Links, nonce : 1..MaxPages]
  /\ fresh \in [Browsers -> BOOLEAN]

\* The POSTs that claimed a link: signed in, about to be, or failed since.
Claims == accepted \cup wasted \cup {PageOf(c) : c \in {c \in calls : c.kind = "claimed"}}

\* A link is claimed, and a session opened, only from a page that was rendered for
\* that very browser, with the address it showed: a form made from another browser's page
\* signs nobody in and spends nothing (confirm.go:116, "compared, not merely required").
\* Nothing else spends a link, and it is spent once: "a person who closes the
\* confirmation page still has a working link" (identitybus.go:278), and one whose
\* link is gone was signed in with it, or the request failed after its claim.
OwnPageOnly ==
  /\ TypeOK
  /\ Claims \subseteq rendered
  /\ used = {a.link : a \in Claims}
  /\ \A a, b \in Claims : a.link = b.link => a = b

\* The page that came last can be submitted until confirmTTL is over, whatever
\* else the browser's other tabs had answered - unless a sign-in completed after
\* it arrived, which clears the one cookie there is.
LatestPageWorks ==
  \A b \in Browsers : tabs[b] # <<>> /\ fresh[b] =>
    cookie[b] # None /\ (now < cookie[b].expires => Carried(b) = Last(tabs[b]).nonce)
=============================================================================
