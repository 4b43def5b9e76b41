---------------------------- MODULE SigninProofs ----------------------------
(***************************************************************************)
(* Proofs about the two ends of a sign-in (package authapp): Confirm, for  *)
(* any browsers, links, lifetimes and tabs, and any number of requests and *)
(* responses in flight; then Limiter, for any budgets, windows, machines   *)
(* and addresses.  The two share no state.                                 *)
(***************************************************************************)
EXTENDS Confirm, Limiter, TLAPS

-----------------------------------------------------------------------------
(* The inductive invariant, in parts.                                      *)

\* The server rendered this page for that browser.
Rendered(b, link, nonce) == [browser |-> b, link |-> link, nonce |-> nonce] \in rendered

\* A nonce is minted once: it stands for one page of one browser.
NonceInv ==
  /\ \A r \in rendered : r.nonce <= nonces
  /\ \A r, s \in rendered : r.nonce = s.nonce => r = s

\* Whatever a browser shows, and its cookie, were rendered for it.
BrowserInv ==
  /\ \A b \in Browsers : \A page \in ToSet(tabs[b]) : Rendered(b, page.link, page.nonce)
  /\ \A b \in Browsers :
       cookie[b] # None => \E link \in Links : Rendered(b, link, cookie[b].nonce)

\* A page on its way was rendered for the browser it goes to, and one that is redeemed
\* for the browser it came from; a POST repeats some page, of whichever browser, and
\* carries a cookie of its own.
Backed(c) ==
  /\ c.kind \in {"page", "redeeming", "claimed"} => Rendered(c.browser, c.link, c.nonce)
  /\ c.kind = "post" => \E o \in Browsers : Rendered(o, c.link, c.nonce)
  /\ c.kind = "post" /\ c.carried # None => \E link \in Links : Rendered(c.browser, link, c.carried)

MessageInv == \A c \in calls : Backed(c)

\* What claimed a link was rendered, nothing else spent a link, and none is spent twice.
SpentInv ==
  /\ accepted \cup wasted \subseteq rendered
  /\ used = {a.link : a \in Claims}
  /\ \A a, b \in Claims : a.link = b.link => a = b

\* The cookie is that of the page that came last.
LatestInv ==
  \A b \in Browsers : tabs[b] # <<>> /\ fresh[b] =>
    cookie[b] # None /\ cookie[b].nonce = Last(tabs[b]).nonce

IInv == TypeOK /\ NonceInv /\ BrowserInv /\ MessageInv /\ SpentInv /\ LatestInv

-----------------------------------------------------------------------------
(* What the messages and cookies are made of.                              *)

\* The fields of a message, by its kind.
LEMMA CallFields ==
  ASSUME NEW c \in Call
  PROVE  /\ c.browser \in Browsers /\ c.link \in Links
         /\ c.kind \in {"page", "redeeming", "claimed", "signed in", "post"} => c.nonce \in 1..MaxPages
         /\ c.kind = "post" => c.carried \in 1..MaxPages \cup {None}
  BY DEF Call

\* The messages there are.
LEMMA CallType ==
  ASSUME NEW b \in Browsers, NEW link \in Links
  PROVE  /\ [kind |-> "get", browser |-> b, link |-> link] \in Call
         /\ [kind |-> "expired", browser |-> b, link |-> link] \in Call
         /\ \A n \in 1..MaxPages :
              /\ [kind |-> "page", browser |-> b, link |-> link, nonce |-> n] \in Call
              /\ \A kind \in {"redeeming", "claimed", "signed in"} :
                   [kind |-> kind, browser |-> b, link |-> link, nonce |-> n] \in Call
              /\ \A k \in 1..MaxPages \cup {None} :
                   [kind |-> "post", browser |-> b, link |-> link, nonce |-> n, carried |-> k] \in Call
  BY DEF Call

\* A cookie is sent with the nonce it was set with, or not at all.
LEMMA CarriedType ==
  ASSUME TypeOK, NEW b \in Browsers
  PROVE  /\ Carried(b) \in 1..MaxPages \cup {None}
         /\ Carried(b) # None => cookie[b] # None /\ Carried(b) = cookie[b].nonce
  BY DEF TypeOK, Carried

\* A page that is shown somewhere is a page.
LEMMA TabPages ==
  ASSUME TypeOK, NEW b \in Browsers, NEW page \in ToSet(tabs[b])
  PROVE  page \in Page
  BY DEF TypeOK, ToSet

\* The set-cookie of a page that arrives.
LEMMA CookieType ==
  ASSUME TypeOK, NEW b \in Browsers, NEW n \in 1..MaxPages
  PROVE  /\ SetConfirmCookie(b, n) \in [nonce : 1..MaxPages, expires : 1..MaxTime + ConfirmTTL]
         /\ SetConfirmCookie(b, n) # None
         /\ SetConfirmCookie(b, n).nonce = n
<1>1. now + ConfirmTTL \in 1..MaxTime + ConfirmTTL
  BY TTLAssumption DEF TypeOK
<1>2. SetConfirmCookie(b, n) \in [nonce : Nat, expires : Nat]
  BY TTLAssumption DEF TypeOK, SetConfirmCookie
<1> QED BY <1>1, <1>2, TTLAssumption DEF SetConfirmCookie

\* Showing one more page: it comes last, the others stay.
LEMMA ShowPage ==
  ASSUME NEW s \in Seq(Page), NEW page \in Page
  PROVE  /\ Append(s, page) \in Seq(Page)
         /\ Append(s, page) # <<>>
         /\ Last(Append(s, page)) = page
         /\ \A p \in ToSet(Append(s, page)) : p \in ToSet(s) \/ p = page
<1>1. /\ Append(s, page) \in Seq(Page)
      /\ Len(Append(s, page)) = Len(s) + 1
      /\ Append(s, page)[Len(s) + 1] = page
      /\ \A i \in 1..Len(s) : Append(s, page)[i] = s[i]
  OBVIOUS
<1>2. ASSUME NEW i \in DOMAIN Append(s, page), Append(s, page)[i] # page
      PROVE  Append(s, page)[i] \in ToSet(s)
  BY <1>1, <1>2 DEF ToSet
<1> QED BY <1>1, <1>2 DEF Last, ToSet

\* What was rendered stays rendered.
LEMMA BackedStays ==
  ASSUME rendered \subseteq rendered', NEW c, Backed(c)
  PROVE  Backed(c)'
  BY DEF Backed, Rendered

\* The messages on their way stay backed when one joins them that is.
LEMMA MessagesStay ==
  ASSUME MessageInv, rendered \subseteq rendered', NEW m, calls' \subseteq calls \cup {m}, Backed(m)'
  PROVE  MessageInv'
  BY BackedStays DEF MessageInv

-----------------------------------------------------------------------------
(* The steps.  Each operation is shown to keep the parts it can disturb.   *)

\* Every step keeps the types.
LEMMA TypeStep ==
  ASSUME TypeOK, [Next]_vars
  PROVE  TypeOK'
<1> USE DEF TypeOK
<1>1. ASSUME NEW b \in Browsers, NEW link \in Links, Follow(b, link) PROVE TypeOK'
  BY <1>1, CallType DEF Follow, Send
<1>2. ASSUME NEW b \in Browsers, NEW page \in Page, Submit(b, page) PROVE TypeOK'
  <2> DEFINE m == [kind |-> "post", browser |-> b, link |-> page.link, nonce |-> page.nonce,
                   carried |-> Carried(b)]
  <2>1. m \in Call
    BY CallType, CarriedType DEF Page
  <2>2. calls' = calls \cup {m} /\ UNCHANGED <<now, used, nonces, cookie, tabs, rendered, accepted, wasted, fresh>>
    BY <1>2 DEF Submit, Send
  <2> HIDE DEF m
  <2> QED BY <2>1, <2>2
<1>3. ASSUME NEW b \in Browsers, NEW page \in Page, NEW strict \in BOOLEAN, ForeignPost(b, page, strict)
      PROVE  TypeOK'
  <2> DEFINE m == [kind |-> "post", browser |-> b, link |-> page.link, nonce |-> page.nonce,
                   carried |-> IF strict THEN None ELSE Carried(b)]
  <2>1. m \in Call
    BY CallType, CarriedType DEF Page
  <2>2. calls' = calls \cup {m} /\ UNCHANGED <<now, used, nonces, cookie, tabs, rendered, accepted, wasted, fresh>>
    BY <1>3 DEF ForeignPost, Send
  <2> HIDE DEF m
  <2> QED BY <2>1, <2>2
<1>4. ASSUME NEW c \in calls, PageArrives(c) PROVE TypeOK'
  BY <1>4, CallFields, CookieType, ShowPage DEF PageArrives, Page
<1>5. ASSUME NEW c \in calls, CallbackAnswered(c) PROVE TypeOK'
  BY <1>5, CallFields DEF CallbackAnswered
<1>6. ASSUME NEW c \in calls, Lose(c) PROVE TypeOK'
  BY <1>6 DEF Lose
<1>7. ASSUME NEW c \in calls, HandleConfirm(c) PROVE TypeOK'
  <2>1. c.browser \in Browsers /\ c.link \in Links
    BY CallFields
  <2>2. CASE IsRedeemable(c.link)
    <3>1. nonces' = nonces + 1 /\ nonces' \in 1..MaxPages
      BY <1>7, <2>2, TTLAssumption DEF HandleConfirm
    <3> DEFINE m == [kind |-> "page", browser |-> c.browser, link |-> c.link, nonce |-> nonces']
               r == [browser |-> c.browser, link |-> c.link, nonce |-> nonces']
    <3>2. m \in Call /\ r \in [browser : Browsers, link : Links, nonce : 1..MaxPages]
      BY <2>1, <3>1, CallType
    <3>3. /\ calls' = (calls \ {c}) \cup {m} /\ rendered' = rendered \cup {r}
          /\ UNCHANGED <<now, used, cookie, tabs, accepted, wasted, fresh>>
      BY <1>7, <2>2 DEF HandleConfirm, Answer
    <3> HIDE DEF m, r
    <3> QED BY <3>1, <3>2, <3>3
  <2>3. CASE ~IsRedeemable(c.link)
    <3>1. Expired(c) \in Call
      BY <2>1, CallType DEF Expired
    <3>2. /\ calls' = (calls \ {c}) \cup {Expired(c)} /\ UNCHANGED <<nonces, rendered>>
          /\ UNCHANGED <<now, used, cookie, tabs, accepted, wasted, fresh>>
      BY <1>7, <2>3 DEF HandleConfirm, Answer
    <3> QED BY <3>1, <3>2
  <2> QED BY <2>2, <2>3
<1>8. ASSUME NEW c \in calls, HandleCallback(c) PROVE TypeOK'
  <2>1. c.browser \in Browsers /\ c.link \in Links /\ c.nonce \in 1..MaxPages
    BY <1>8, CallFields DEF HandleCallback
  <2>2. Stage(c, "redeeming") \in Call /\ Expired(c) \in Call
    BY <2>1, CallType DEF Expired, Stage
  <2>3. /\ calls' \subseteq calls \cup {Stage(c, "redeeming"), Expired(c)}
        /\ UNCHANGED <<now, used, nonces, cookie, tabs, rendered, accepted, wasted, fresh>>
    BY <1>8 DEF HandleCallback, Answer
  <2> QED BY <2>1, <2>2, <2>3
<1>12. ASSUME NEW c \in calls, ClaimLink(c) PROVE TypeOK'
  <2>1. c.browser \in Browsers /\ c.link \in Links /\ c.nonce \in 1..MaxPages
    BY <1>12, CallFields DEF ClaimLink
  <2>2. Stage(c, "claimed") \in Call /\ Expired(c) \in Call
    BY <2>1, CallType DEF Expired, Stage
  <2>3. /\ calls' \subseteq calls \cup {Stage(c, "claimed"), Expired(c)} /\ used' = used \cup {c.link}
        /\ UNCHANGED <<now, nonces, cookie, tabs, rendered, accepted, wasted, fresh>>
    BY <1>12 DEF ClaimLink, Answer
  <2> QED BY <2>1, <2>2, <2>3
<1>13. ASSUME NEW c \in calls, SignIn(c) PROVE TypeOK'
  <2>1. c.browser \in Browsers /\ c.link \in Links /\ c.nonce \in 1..MaxPages
    BY <1>13, CallFields DEF SignIn
  <2>2. /\ Stage(c, "signed in") \in Call
        /\ PageOf(c) \in [browser : Browsers, link : Links, nonce : 1..MaxPages]
    BY <2>1, CallType DEF Stage, PageOf
  <2>3. /\ calls' \subseteq calls \cup {Stage(c, "signed in")} /\ accepted' = accepted \cup {PageOf(c)}
        /\ UNCHANGED <<now, used, nonces, cookie, tabs, rendered, wasted, fresh>>
    BY <1>13 DEF SignIn, Answer
  <2> QED BY <2>1, <2>2, <2>3
<1>9. ASSUME NEW c \in calls, Fail(c) PROVE TypeOK'
  <2>1. c.browser \in Browsers /\ c.link \in Links /\ Expired(c) \in Call
    BY CallFields, CallType DEF Expired
  <2>2. /\ calls' \subseteq calls \cup {Expired(c)}
        /\ UNCHANGED <<now, used, nonces, cookie, tabs, rendered, accepted, fresh>>
    BY <1>9 DEF Fail, Answer
  <2>3. CASE c.kind = "claimed"
    <3>1. PageOf(c) \in [browser : Browsers, link : Links, nonce : 1..MaxPages]
      BY <2>1, <2>3, CallFields DEF PageOf
    <3>2. wasted' = wasted \cup {PageOf(c)}
      BY <1>9, <2>3 DEF Fail
    <3> QED BY <2>1, <2>2, <3>1, <3>2
  <2>4. CASE c.kind # "claimed"
    <3>1. wasted' = wasted
      BY <1>9, <2>4 DEF Fail
    <3> QED BY <2>1, <2>2, <3>1
  <2> QED BY <2>3, <2>4
<1>10. ASSUME Tick PROVE TypeOK'
  BY <1>10, TTLAssumption DEF Tick
<1>11. CASE UNCHANGED vars
  BY <1>11 DEF vars
<1> QED BY <1>1, <1>2, <1>3, <1>4, <1>5, <1>6, <1>7, <1>8, <1>9, <1>10, <1>11, <1>12, <1>13 DEF Next

\* Nonces stay unique.
LEMMA NonceStep ==
  ASSUME TypeOK, NonceInv, [Next]_vars
  PROVE  NonceInv'
<1> USE DEF TypeOK, NonceInv
<1>1. ASSUME NEW b \in Browsers, NEW link \in Links, Follow(b, link) PROVE NonceInv'
  BY <1>1 DEF Follow, Send
<1>2. ASSUME NEW b \in Browsers, NEW page \in Page, Submit(b, page) PROVE NonceInv'
  BY <1>2 DEF Submit, Send
<1>3. ASSUME NEW b \in Browsers, NEW page \in Page, NEW strict \in BOOLEAN, ForeignPost(b, page, strict)
      PROVE  NonceInv'
  BY <1>3 DEF ForeignPost, Send
<1>4. ASSUME NEW c \in calls, PageArrives(c) PROVE NonceInv'
  BY <1>4 DEF PageArrives
<1>5. ASSUME NEW c \in calls, CallbackAnswered(c) PROVE NonceInv'
  BY <1>5 DEF CallbackAnswered
<1>6. ASSUME NEW c \in calls, Lose(c) PROVE NonceInv'
  BY <1>6 DEF Lose
<1>7. ASSUME NEW c \in calls, HandleConfirm(c) PROVE NonceInv'
  <2>1. CASE IsRedeemable(c.link)
    <3> DEFINE r == [browser |-> c.browser, link |-> c.link, nonce |-> nonces']
    <3>1. nonces' = nonces + 1 /\ rendered' = rendered \cup {r} /\ r.nonce = nonces'
      BY <1>7, <2>1 DEF HandleConfirm
    <3>2. \A q \in rendered : q.nonce < nonces'
      BY <3>1
    <3> HIDE DEF r
    <3> QED BY <3>1, <3>2
  <2>2. CASE ~IsRedeemable(c.link)
    BY <1>7, <2>2 DEF HandleConfirm
  <2> QED BY <2>1, <2>2
<1>8. ASSUME NEW c \in calls, HandleCallback(c) PROVE NonceInv'
  BY <1>8 DEF HandleCallback
<1>12. ASSUME NEW c \in calls, ClaimLink(c) PROVE NonceInv'
  BY <1>12 DEF ClaimLink
<1>13. ASSUME NEW c \in calls, SignIn(c) PROVE NonceInv'
  BY <1>13 DEF SignIn
<1>9. ASSUME NEW c \in calls, Fail(c) PROVE NonceInv'
  BY <1>9 DEF Fail, Answer, Expired
<1>10. ASSUME Tick PROVE NonceInv'
  BY <1>10 DEF Tick
<1>11. CASE UNCHANGED vars
  BY <1>11 DEF vars
<1> QED BY <1>1, <1>2, <1>3, <1>4, <1>5, <1>6, <1>7, <1>8, <1>9, <1>10, <1>11, <1>12, <1>13 DEF Next

\* A browser gets what was rendered for it.
LEMMA BrowserStep ==
  ASSUME TypeOK, MessageInv, BrowserInv, [Next]_vars
  PROVE  BrowserInv'
<1> USE DEF TypeOK, BrowserInv
<1>1. ASSUME NEW b \in Browsers, NEW link \in Links, Follow(b, link) PROVE BrowserInv'
  BY <1>1 DEF Follow, Rendered
<1>2. ASSUME NEW b \in Browsers, NEW page \in Page, Submit(b, page) PROVE BrowserInv'
  BY <1>2 DEF Submit, Rendered
<1>3. ASSUME NEW b \in Browsers, NEW page \in Page, NEW strict \in BOOLEAN, ForeignPost(b, page, strict)
      PROVE  BrowserInv'
  BY <1>3 DEF ForeignPost, Rendered
<1>4. ASSUME NEW c \in calls, PageArrives(c) PROVE BrowserInv'
  <2>1. /\ c.browser \in Browsers /\ c.link \in Links /\ c.nonce \in 1..MaxPages
        /\ Rendered(c.browser, c.link, c.nonce)
    BY <1>4, CallFields DEF PageArrives, MessageInv, Backed
  <2> DEFINE page == [link |-> c.link, nonce |-> c.nonce]
             k == SetConfirmCookie(c.browser, c.nonce)
  <2>2. page \in Page /\ page.link = c.link /\ page.nonce = c.nonce /\ k.nonce = c.nonce
    BY <2>1, CookieType DEF Page
  <2>3. /\ tabs' = [tabs EXCEPT ![c.browser] = Append(@, page)]
        /\ cookie' = [cookie EXCEPT ![c.browser] = k]
        /\ rendered' = rendered
    BY <1>4 DEF PageArrives
  <2>4. \A p \in ToSet(Append(tabs[c.browser], page)) : p \in ToSet(tabs[c.browser]) \/ p = page
    BY <2>1, <2>2, ShowPage
  <2> HIDE DEF page, k
  <2> QED BY <2>1, <2>2, <2>3, <2>4 DEF Rendered
<1>5. ASSUME NEW c \in calls, CallbackAnswered(c) PROVE BrowserInv'
  BY <1>5, CallFields DEF CallbackAnswered, Rendered
<1>6. ASSUME NEW c \in calls, Lose(c) PROVE BrowserInv'
  BY <1>6 DEF Lose, Rendered
<1>7. ASSUME NEW c \in calls, HandleConfirm(c) PROVE BrowserInv'
  BY <1>7 DEF HandleConfirm, Rendered
<1>8. ASSUME NEW c \in calls, HandleCallback(c) PROVE BrowserInv'
  BY <1>8 DEF HandleCallback, Rendered
<1>12. ASSUME NEW c \in calls, ClaimLink(c) PROVE BrowserInv'
  BY <1>12 DEF ClaimLink, Rendered
<1>13. ASSUME NEW c \in calls, SignIn(c) PROVE BrowserInv'
  BY <1>13 DEF SignIn, Rendered
<1>9. ASSUME NEW c \in calls, Fail(c) PROVE BrowserInv'
  BY <1>9 DEF Fail, Rendered
<1>10. ASSUME Tick PROVE BrowserInv'
  BY <1>10 DEF Tick, Rendered
<1>11. CASE UNCHANGED vars
  BY <1>11 DEF vars, Rendered
<1> QED BY <1>1, <1>2, <1>3, <1>4, <1>5, <1>6, <1>7, <1>8, <1>9, <1>10, <1>11, <1>12, <1>13 DEF Next

\* Messages are backed by what was rendered.
LEMMA MessageStep ==
  ASSUME TypeOK, NonceInv, BrowserInv, MessageInv, [Next]_vars
  PROVE  MessageInv'
<1>1. ASSUME NEW b \in Browsers, NEW link \in Links, Follow(b, link) PROVE MessageInv'
  <2> DEFINE m == [kind |-> "get", browser |-> b, link |-> link]
  <2>1. calls' = calls \cup {m} /\ UNCHANGED rendered /\ Backed(m)'
    BY <1>1 DEF Follow, Send, Backed
  <2> HIDE DEF m
  <2> QED BY <2>1, MessagesStay
<1>2. ASSUME NEW b \in Browsers, NEW page \in Page, Submit(b, page) PROVE MessageInv'
  <2>1. PICK m : m = [kind |-> "post", browser |-> b, link |-> page.link, nonce |-> page.nonce,
                       carried |-> Carried(b)]
    OBVIOUS
  <2>2. calls' = calls \cup {m} /\ UNCHANGED rendered
    BY <1>2, <2>1 DEF Submit, Send
  <2>3. \E o \in Browsers : Rendered(o, page.link, page.nonce)
    BY <1>2 DEF Submit, BrowserInv
  <2>4. m.carried # None => \E link \in Links : Rendered(b, link, m.carried)
    BY <2>1, CarriedType DEF BrowserInv
  <2>5. Backed(m)'
    BY <2>1, <2>2, <2>3, <2>4 DEF Backed, Rendered
  <2> QED BY <2>2, <2>5, MessagesStay
<1>3. ASSUME NEW b \in Browsers, NEW page \in Page, NEW strict \in BOOLEAN, ForeignPost(b, page, strict)
      PROVE  MessageInv'
  <2>1. PICK m : m = [kind |-> "post", browser |-> b, link |-> page.link, nonce |-> page.nonce,
                       carried |-> IF strict THEN None ELSE Carried(b)]
    OBVIOUS
  <2>2. calls' = calls \cup {m} /\ UNCHANGED rendered
    BY <1>3, <2>1 DEF ForeignPost, Send
  <2>3. \E o \in Browsers : Rendered(o, page.link, page.nonce)
    BY <1>3 DEF ForeignPost, BrowserInv
  <2>4. m.carried # None => \E link \in Links : Rendered(b, link, m.carried)
    BY <2>1, CarriedType DEF BrowserInv
  <2>5. Backed(m)'
    BY <2>1, <2>2, <2>3, <2>4 DEF Backed, Rendered
  <2> QED BY <2>2, <2>5, MessagesStay
<1>4. ASSUME NEW c \in calls, PageArrives(c) PROVE MessageInv'
  BY <1>4, BackedStays DEF PageArrives, MessageInv
<1>5. ASSUME NEW c \in calls, CallbackAnswered(c) PROVE MessageInv'
  BY <1>5, BackedStays DEF CallbackAnswered, MessageInv
<1>6. ASSUME NEW c \in calls, Lose(c) PROVE MessageInv'
  BY <1>6, BackedStays DEF Lose, MessageInv
<1>7. ASSUME NEW c \in calls, HandleConfirm(c) PROVE MessageInv'
  <2>1. CASE IsRedeemable(c.link)
    <3>1. PICK m : m = [kind |-> "page", browser |-> c.browser, link |-> c.link, nonce |-> nonces']
      OBVIOUS
    <3>2. calls' \subseteq calls \cup {m} /\ rendered \subseteq rendered'
      BY <1>7, <2>1, <3>1 DEF HandleConfirm, Answer
    <3>3. Backed(m)'
      BY <1>7, <2>1, <3>1 DEF HandleConfirm, Backed, Rendered
    <3> QED BY <3>2, <3>3, MessagesStay
  <2>2. CASE ~IsRedeemable(c.link)
    <3>1. calls' \subseteq calls \cup {Expired(c)} /\ UNCHANGED rendered /\ Backed(Expired(c))'
      BY <1>7, <2>2 DEF HandleConfirm, Answer, Expired, Backed
    <3> QED BY <3>1, MessagesStay
  <2> QED BY <2>1, <2>2
<1>8. ASSUME NEW c \in calls, HandleCallback(c) PROVE MessageInv'
  <2>1. CASE ConfirmNonceMatches(c) /\ IsRedeemable(c.link)
    <3>1. PICK o \in Browsers : Rendered(o, c.link, c.nonce)
      BY <1>8 DEF HandleCallback, MessageInv, Backed
    <3>2. PICK link \in Links : Rendered(c.browser, link, c.nonce)
      BY <1>8, <2>1 DEF HandleCallback, MessageInv, Backed, ConfirmNonceMatches
    <3>3. [browser |-> o, link |-> c.link, nonce |-> c.nonce] = [browser |-> c.browser, link |-> link, nonce |-> c.nonce]
      BY <3>1, <3>2 DEF NonceInv, Rendered
    <3>4. Rendered(c.browser, c.link, c.nonce)
      BY <3>1, <3>3 DEF Rendered
    <3>5. calls' \subseteq calls \cup {Stage(c, "redeeming")} /\ UNCHANGED rendered
      BY <1>8, <2>1 DEF HandleCallback, Answer
    <3>6. Backed(Stage(c, "redeeming"))'
      BY <3>4, <3>5 DEF Backed, Stage, Rendered
    <3> QED BY <3>5, <3>6, MessagesStay
  <2>2. CASE ~(ConfirmNonceMatches(c) /\ IsRedeemable(c.link))
    <3>1. calls' \subseteq calls \cup {Expired(c)} /\ UNCHANGED rendered /\ Backed(Expired(c))'
      BY <1>8, <2>2 DEF HandleCallback, Answer, Expired, Backed
    <3> QED BY <3>1, MessagesStay
  <2> QED BY <2>1, <2>2
<1>12. ASSUME NEW c \in calls, ClaimLink(c) PROVE MessageInv'
  <2>1. /\ calls' \subseteq calls \cup {Stage(c, "claimed")} \/ calls' \subseteq calls \cup {Expired(c)}
        /\ UNCHANGED rendered
    BY <1>12 DEF ClaimLink, Answer
  <2>2. Rendered(c.browser, c.link, c.nonce)
    BY <1>12 DEF ClaimLink, MessageInv, Backed
  <2>3. Backed(Stage(c, "claimed"))' /\ Backed(Expired(c))'
    BY <2>1, <2>2 DEF Backed, Stage, Expired, Rendered
  <2> QED BY <2>1, <2>3, MessagesStay
<1>13. ASSUME NEW c \in calls, SignIn(c) PROVE MessageInv'
  <2>1. calls' \subseteq calls \cup {Stage(c, "signed in")} /\ UNCHANGED rendered
        /\ Backed(Stage(c, "signed in"))'
    BY <1>13 DEF SignIn, Answer, Stage, Backed
  <2> QED BY <2>1, MessagesStay
<1>9. ASSUME NEW c \in calls, Fail(c) PROVE MessageInv'
  <2>1. calls' \subseteq calls \cup {Expired(c)} /\ UNCHANGED rendered /\ Backed(Expired(c))'
    BY <1>9 DEF Fail, Answer, Expired, Backed
  <2> QED BY <2>1, MessagesStay
<1>10. ASSUME Tick PROVE MessageInv'
  BY <1>10, BackedStays DEF Tick, MessageInv
<1>11. CASE UNCHANGED vars
  BY <1>11, BackedStays DEF vars, MessageInv
<1> QED BY <1>1, <1>2, <1>3, <1>4, <1>5, <1>6, <1>7, <1>8, <1>9, <1>10, <1>11, <1>12, <1>13 DEF Next

\* The requests that have claimed their link.
Claimed == {PageOf(c) : c \in {c \in calls : c.kind = "claimed"}}

\* A step that claims nothing and ends no request that has leaves all of it.
LEMMA SpentStays ==
  ASSUME SpentInv, rendered \subseteq rendered',
         UNCHANGED <<used, accepted, wasted>>,
         \A c \in calls \cup calls' : c.kind = "claimed" => c \in calls /\ c \in calls'
  PROVE  SpentInv'
<1>1. Claims' = Claims
  BY DEF Claims, PageOf
<1> QED BY <1>1 DEF SpentInv

\* A request that has claimed its link signs in, or fails: its claim is recorded.
LEMMA ClaimIsKept ==
  ASSUME MessageInv, SpentInv, NEW c \in calls, c.kind = "claimed",
         NEW m, m.kind # "claimed", calls' = (calls \ {c}) \cup {m},
         accepted' \cup wasted' = accepted \cup wasted \cup {PageOf(c)},
         UNCHANGED <<used, rendered>>
  PROVE  SpentInv'
<1>1. PageOf(c) \in rendered
  BY DEF MessageInv, Backed, Rendered, PageOf
<1>2. Claimed' \cup {PageOf(c)} = Claimed
  BY DEF Claimed, PageOf
<1>3. Claims = accepted \cup wasted \cup Claimed /\ Claims' = accepted' \cup wasted' \cup Claimed'
  BY DEF Claims, Claimed, PageOf
<1>4. Claims' = Claims
  BY <1>2, <1>3
<1> QED BY <1>1, <1>4 DEF SpentInv

\* Claiming needs a page of one's own.
LEMMA SpentStep ==
  ASSUME TypeOK, MessageInv, SpentInv, [Next]_vars
  PROVE  SpentInv'
<1>1. ASSUME NEW b \in Browsers, NEW link \in Links, Follow(b, link) PROVE SpentInv'
  BY <1>1, SpentStays DEF Follow, Send
<1>2. ASSUME NEW b \in Browsers, NEW page \in Page, Submit(b, page) PROVE SpentInv'
  BY <1>2, SpentStays DEF Submit, Send
<1>3. ASSUME NEW b \in Browsers, NEW page \in Page, NEW strict \in BOOLEAN, ForeignPost(b, page, strict)
      PROVE  SpentInv'
  BY <1>3, SpentStays DEF ForeignPost, Send
<1>4. ASSUME NEW c \in calls, PageArrives(c) PROVE SpentInv'
  BY <1>4, SpentStays DEF PageArrives
<1>5. ASSUME NEW c \in calls, CallbackAnswered(c) PROVE SpentInv'
  BY <1>5, SpentStays DEF CallbackAnswered
<1>6. ASSUME NEW c \in calls, Lose(c) PROVE SpentInv'
  BY <1>6, SpentStays DEF Lose
<1>7. ASSUME NEW c \in calls, HandleConfirm(c) PROVE SpentInv'
  BY <1>7, SpentStays DEF HandleConfirm, Answer, Expired
<1>8. ASSUME NEW c \in calls, HandleCallback(c) PROVE SpentInv'
  BY <1>8, SpentStays DEF HandleCallback, Answer, Expired, Stage
<1>9. ASSUME NEW c \in calls, Fail(c) PROVE SpentInv'
  <2>1. CASE c.kind = "claimed"
    <3>1. calls' = (calls \ {c}) \cup {Expired(c)} /\ Expired(c).kind # "claimed"
      BY <1>9 DEF Fail, Answer, Expired
    <3>2. /\ wasted' = wasted \cup {PageOf(c)} /\ accepted' = accepted
          /\ UNCHANGED <<used, rendered>>
      BY <1>9, <2>1 DEF Fail
    <3>3. accepted' \cup wasted' = accepted \cup wasted \cup {PageOf(c)}
      BY <3>2
    <3> QED BY <2>1, <3>1, <3>2, <3>3, ClaimIsKept
  <2>2. CASE c.kind # "claimed"
    BY <1>9, <2>2, SpentStays DEF Fail, Answer, Expired
  <2> QED BY <2>1, <2>2
<1>12. ASSUME NEW c \in calls, ClaimLink(c) PROVE SpentInv'
  <2>1. CASE c.link \notin used
    <3>1. PICK m : m = Stage(c, "claimed")
      OBVIOUS
    <3>2. m.kind = "claimed" /\ PageOf(m) = PageOf(c) /\ PageOf(c).link = c.link
      BY <3>1 DEF Stage, PageOf
    <3>3. calls' = (calls \ {c}) \cup {m} /\ used' = used \cup {c.link} /\ c.kind = "redeeming"
          /\ UNCHANGED <<rendered, accepted, wasted>>
      BY <1>12, <2>1, <3>1 DEF ClaimLink, Answer
    <3>4. Claimed' = Claimed \cup {PageOf(c)}
      BY <3>2, <3>3 DEF Claimed, PageOf
    <3>5. Claims = accepted \cup wasted \cup Claimed /\ Claims' = accepted' \cup wasted' \cup Claimed'
      BY DEF Claims, Claimed, PageOf
    <3>6. Claims' = Claims \cup {PageOf(c)}
      BY <3>3, <3>4, <3>5
    <3>7. \A a \in Claims : a.link # c.link
      BY <2>1 DEF SpentInv
    <3> QED BY <3>2, <3>3, <3>6, <3>7 DEF SpentInv
  <2>2. CASE c.link \in used
    <3>1. used' = used
      BY <1>12, <2>2 DEF ClaimLink
    <3> QED BY <1>12, <2>2, <3>1, SpentStays DEF ClaimLink, Answer, Expired
  <2> QED BY <2>1, <2>2
<1>13. ASSUME NEW c \in calls, SignIn(c) PROVE SpentInv'
  <2>1. calls' = (calls \ {c}) \cup {Stage(c, "signed in")} /\ Stage(c, "signed in").kind # "claimed"
    BY <1>13 DEF SignIn, Answer, Stage
  <2>2. /\ accepted' = accepted \cup {PageOf(c)} /\ wasted' = wasted /\ c.kind = "claimed"
        /\ UNCHANGED <<used, rendered>>
    BY <1>13 DEF SignIn
  <2>3. accepted' \cup wasted' = accepted \cup wasted \cup {PageOf(c)}
    BY <2>2
  <2> QED BY <2>1, <2>2, <2>3, ClaimIsKept
<1>10. ASSUME Tick PROVE SpentInv'
  BY <1>10, SpentStays DEF Tick
<1>11. CASE UNCHANGED vars
  BY <1>11, SpentStays DEF vars
<1> QED BY <1>1, <1>2, <1>3, <1>4, <1>5, <1>6, <1>7, <1>8, <1>9, <1>10, <1>11, <1>12, <1>13 DEF Next

\* The cookie follows the page that came last.
LEMMA LatestStep ==
  ASSUME TypeOK, LatestInv, [Next]_vars
  PROVE  LatestInv'
<1> USE DEF TypeOK, LatestInv
<1>1. ASSUME NEW b \in Browsers, NEW link \in Links, Follow(b, link) PROVE LatestInv'
  BY <1>1 DEF Follow, Send
<1>2. ASSUME NEW b \in Browsers, NEW page \in Page, Submit(b, page) PROVE LatestInv'
  BY <1>2 DEF Submit, Send
<1>3. ASSUME NEW b \in Browsers, NEW page \in Page, NEW strict \in BOOLEAN, ForeignPost(b, page, strict)
      PROVE  LatestInv'
  BY <1>3 DEF ForeignPost, Send
<1>4. ASSUME NEW c \in calls, PageArrives(c) PROVE LatestInv'
  <2>1. c.browser \in Browsers /\ c.link \in Links /\ c.nonce \in 1..MaxPages
    BY <1>4, CallFields DEF PageArrives
  <2> DEFINE page == [link |-> c.link, nonce |-> c.nonce]
             k == SetConfirmCookie(c.browser, c.nonce)
  <2>2. page \in Page /\ page.nonce = c.nonce /\ k # None /\ k.nonce = c.nonce
    BY <2>1, CookieType DEF Page
  <2>3. /\ tabs' = [tabs EXCEPT ![c.browser] = Append(@, page)]
        /\ cookie' = [cookie EXCEPT ![c.browser] = k]
        /\ fresh' = [fresh EXCEPT ![c.browser] = TRUE]
    BY <1>4 DEF PageArrives
  <2>4. Last(Append(tabs[c.browser], page)) = page
    BY <2>1, <2>2, ShowPage
  <2> HIDE DEF page, k
  <2> QED BY <2>1, <2>2, <2>3, <2>4
<1>5. ASSUME NEW c \in calls, CallbackAnswered(c) PROVE LatestInv'
  BY <1>5, CallFields DEF CallbackAnswered
<1>6. ASSUME NEW c \in calls, Lose(c) PROVE LatestInv'
  BY <1>6 DEF Lose
<1>7. ASSUME NEW c \in calls, HandleConfirm(c) PROVE LatestInv'
  BY <1>7 DEF HandleConfirm, Answer, Expired
<1>8. ASSUME NEW c \in calls, HandleCallback(c) PROVE LatestInv'
  BY <1>8 DEF HandleCallback, Answer, Expired
<1>12. ASSUME NEW c \in calls, ClaimLink(c) PROVE LatestInv'
  BY <1>12 DEF ClaimLink
<1>13. ASSUME NEW c \in calls, SignIn(c) PROVE LatestInv'
  BY <1>13 DEF SignIn
<1>9. ASSUME NEW c \in calls, Fail(c) PROVE LatestInv'
  BY <1>9 DEF Fail, Answer, Expired
<1>10. ASSUME Tick PROVE LatestInv'
  BY <1>10 DEF Tick
<1>11. CASE UNCHANGED vars
  BY <1>11 DEF vars
<1> QED BY <1>1, <1>2, <1>3, <1>4, <1>5, <1>6, <1>7, <1>8, <1>9, <1>10, <1>11, <1>12, <1>13 DEF Next

-----------------------------------------------------------------------------
(* The theorems.                                                           *)

\* The parts hold together in every state.
LEMMA Invariance == Spec => []IInv
<1>1. Init => IInv
  BY TTLAssumption DEF Init, IInv, TypeOK, NonceInv, BrowserInv, MessageInv, SpentInv, Claims, LatestInv, ToSet
<1>2. IInv /\ [Next]_vars => IInv'
  BY TypeStep, NonceStep, BrowserStep, MessageStep, SpentStep, LatestStep DEF IInv
<1> QED BY <1>1, <1>2, PTL DEF Spec

\* Whatever pages are open, requests repeated or cut off anywhere, responses lost and
\* forms filled from another browser's page: a link is claimed, and a session opened,
\* only by a page rendered for that browser with that link; nothing else spends it,
\* and it is spent once (confirm.go:116, identitybus.go:278, 333).
THEOREM OwnPageOnlyHolds == Spec => []OwnPageOnly
<1>1. IInv => OwnPageOnly
  <2> SUFFICES ASSUME IInv PROVE OwnPageOnly
    OBVIOUS
  <2>1. \A c \in calls : c.kind = "claimed" => PageOf(c) \in rendered
    BY DEF IInv, MessageInv, Backed, Rendered, PageOf
  <2>2. Claims \subseteq rendered
    BY <2>1 DEF IInv, SpentInv, Claims
  <2> QED BY <2>2 DEF IInv, SpentInv, OwnPageOnly
<1> QED BY <1>1, Invariance, PTL

\* The page a browser got last can be submitted for confirmTTL, however many
\* other tabs and answers there are, unless a sign-in completed after it came.
THEOREM LatestPageWorksHolds == Spec => []LatestPageWorks
<1>1. IInv => LatestPageWorks
  BY DEF IInv, LatestInv, LatestPageWorks, Carried
<1> QED BY <1>1, Invariance, PTL

-----------------------------------------------------------------------------
(* The limiter: the inductive invariant, key by key.                       *)

\* Mails of m that left at t or later.
Late(m, t) == m[End] - m[t]

\* What the restarts in the window that begins at t give back of a budget.
Restored(max) == [t \in 0..End |-> max * InWindow(restarted, t)]

\* m is a running total, and nothing has left after the time at.
Growing(m, at) ==
  /\ \A t \in 0..End : t > at => m[t] = m[End]
  /\ \A t, u \in 0..End : t <= u => m[t] <= m[u]

\* What leaves room for a whole new budget when a key has no counter: every window
\* that reaches up to now has room for one mail more, beside what restarts gave back.
UncountedFits(m, max, at, back) ==
  \A t \in 0..End : t + Window > at => Late(m, t) < max + back[t]

\* A counter that was opened at that time counts every mail since, and the attempt
\* that opened it beside those that came later; no mail left after its window
\* without a new counter; and a window that began before it, and overlaps it, had
\* room for one mail more when it was opened.
CountedFits(count, opened, m, max, at, back) ==
  /\ opened \in 0..at
  /\ \A t \in 0..End : t > opened => Late(m, t) < count
  /\ opened + Window <= at => Late(m, opened + Window) = 0
  /\ \A t \in 0..End : t <= opened /\ t + Window > opened => Late(m, t) < max + back[t] + count

\* What holds between one key's counter c and its mails m.
KeyInv(c, m, max, at, back) ==
  /\ Growing(m, at)
  /\ c = NoCounter => UncountedFits(m, max, at, back)
  /\ c # NoCounter => CountedFits(c.count, c.reset - Window, m, max, at, back)
  /\ \A t \in Time : InWindow(m, t) < 2 * max + back[t]

\* An open counter is not older than the last request of its key.
Recent(c, a) == c # NoCounter /\ clock < c.reset => a # NoCounter /\ c.reset <= a + Window

\* All of it, with what was asked last.
KeyOK(c, m, a, max) == KeyInv(c, m, max, clock, Restored(max)) /\ Recent(c, a)

\* The inductive invariant.
LimiterIInv ==
  /\ LimiterTypeOK /\ ByIPIsSwept /\ Growing(restarted, clock)
  /\ \A p \in Peers : KeyOK(byIP[p], mailed[p], asked[p], PerIP)
  /\ \A e \in Emails : KeyOK(byEmail[e], mailed[e], asked[e], PerEmail)
  /\ FreshCallerServed

-----------------------------------------------------------------------------
(* What happens to the counter and the mails of one key.                   *)

\* The mails of one key.
Mails == [0..End -> Nat]
\* One more leaves.
Bumped(m, at) == [t \in 0..End |-> IF t > at THEN m[t] + 1 ELSE m[t]]

\* Times are numbers; the end comes after all of them.
LEMMA Times ==
  /\ End \in Nat /\ End >= 1 /\ MaxClock \in Nat /\ Window \in Nat /\ Window >= 1
  /\ \A t \in Time : t \in 0..End /\ t \in Nat /\ t < End
  /\ \A t \in 0..End : t \in Nat /\ (t < End => t \in Time)
  BY BudgetAssumption DEF Time, End

\* One mail more makes every later total one larger.
LEMMA BumpedMails ==
  ASSUME NEW m \in Mails, NEW at \in Time
  PROVE  /\ Bumped(m, at) \in Mails
         /\ \A t \in 0..End : Bumped(m, at)[t] = IF t > at THEN m[t] + 1 ELSE m[t]
         /\ Bumped(m, at)[End] = m[End] + 1
         /\ Growing(m, at) => Growing(Bumped(m, at), at)
<1> DEFINE b == Bumped(m, at)
<1>1. \A t \in 0..End : b[t] = IF t > at THEN m[t] + 1 ELSE m[t]
  BY DEF Bumped
<1>2. at \in Nat /\ End \in 0..End /\ End > at /\ \A t \in 0..End : t \in Nat /\ m[t] \in Nat
  BY Times DEF Mails
<1>3. b \in Mails
  BY <1>2 DEF Bumped, Mails
<1>4. b[End] = m[End] + 1
  BY <1>1, <1>2
<1>5. ASSUME Growing(m, at) PROVE Growing(b, at)
  <2>1. \A t \in 0..End : t > at => b[t] = b[End]
    BY <1>1, <1>2, <1>4, <1>5 DEF Growing
  <2>2. \A t, u \in 0..End : t <= u => b[t] <= b[u]
    BY <1>1, <1>2, <1>5 DEF Growing
  <2> QED BY <2>1, <2>2 DEF Growing
<1> QED BY <1>1, <1>3, <1>4, <1>5

\* A counter that is opened now finds a whole budget left.
LEMMA OpensAWindow ==
  ASSUME NEW m \in Mails, NEW at \in Time, NEW max \in Nat \ {0}, NEW back \in Mails,
         Growing(m, at), UncountedFits(m, max, at, back)
  PROVE  /\ CountedFits(1, at, m, max, at, back)
         /\ CountedFits(1, at, Bumped(m, at), max, at, back)
<1> DEFINE b == Bumped(m, at)
<1>1. /\ at \in 0..End /\ at \in Nat /\ End \in 0..End /\ Window \in Nat /\ Window >= 1
      /\ \A t \in 0..End : t \in Nat /\ m[t] \in Nat /\ back[t] \in Nat
  BY Times DEF Mails
<1>2. /\ \A t \in 0..End : b[t] = IF t > at THEN m[t] + 1 ELSE m[t]
      /\ b[End] = m[End] + 1
  BY BumpedMails
<1>3. \A t \in 0..End : t > at => m[t] = m[End]
  BY DEF Growing
<1>4. \A t \in 0..End : t + Window > at => m[End] - m[t] < max + back[t]
  BY DEF UncountedFits, Late
<1>5. CountedFits(1, at, m, max, at, back)
  BY <1>1, <1>3, <1>4 DEF CountedFits, Late
<1>6. \A t \in 0..End : t > at => b[t] = b[End]
  BY <1>1, <1>2, <1>3
<1>7. \A t \in 0..End : t <= at => b[t] = m[t]
  BY <1>1, <1>2
<1>8. CountedFits(1, at, b, max, at, back)
  BY <1>1, <1>2, <1>3, <1>4, <1>6, <1>7 DEF CountedFits, Late
<1> QED BY <1>5, <1>8

\* An open counter that counts an attempt, mailed or not, still counts every mail.
LEMMA CountsOneMore ==
  ASSUME NEW m \in Mails, NEW at \in Time, NEW max \in Nat \ {0}, NEW back \in Mails,
         NEW count \in Nat, NEW opened \in Nat, opened + Window > at,
         Growing(m, at), CountedFits(count, opened, m, max, at, back)
  PROVE  /\ CountedFits(count + 1, opened, m, max, at, back)
         /\ CountedFits(count + 1, opened, Bumped(m, at), max, at, back)
<1> DEFINE b == Bumped(m, at)
<1>1. /\ at \in 0..End /\ at \in Nat /\ End \in 0..End /\ Window \in Nat /\ Window >= 1
      /\ opened \in 0..at /\ opened \in 0..End
      /\ \A t \in 0..End : t \in Nat /\ m[t] \in Nat /\ back[t] \in Nat
  BY Times DEF Mails, CountedFits
<1>2. /\ \A t \in 0..End : b[t] = IF t > at THEN m[t] + 1 ELSE m[t]
      /\ b[End] = m[End] + 1
  BY BumpedMails
<1>3. /\ \A t \in 0..End : t > opened => m[End] - m[t] < count
      /\ \A t \in 0..End : t <= opened /\ t + Window > opened => m[End] - m[t] < max + back[t] + count
  BY DEF CountedFits, Late
<1>4. CountedFits(count + 1, opened, m, max, at, back)
  BY <1>1, <1>3 DEF CountedFits, Late
<1>5. ASSUME NEW t \in 0..End PROVE b[End] - b[t] <= m[End] - m[t] + 1
  <2>1. m[t] \in Nat /\ m[End] \in Nat
    BY <1>1
  <2>2. b[t] = m[t] \/ b[t] = m[t] + 1
    BY <1>2
  <2> QED BY <2>1, <2>2, <1>2
<1>6. \A t \in 0..End : b[t] \in Nat
  BY <1>1, <1>2
<1>7. \A t \in 0..End : t > opened => b[End] - b[t] < count + 1
  BY <1>1, <1>3, <1>5, <1>6
<1>8. \A t \in 0..End : t <= opened /\ t + Window > opened => b[End] - b[t] < max + back[t] + (count + 1)
  BY <1>1, <1>3, <1>5, <1>6
<1>9. CountedFits(count + 1, opened, b, max, at, back)
  BY <1>1, <1>7, <1>8 DEF CountedFits, Late
<1> QED BY <1>4, <1>9

\* Why the budget is only nearly spent twice: when a window has closed, the attempt
\* that opened it is outside every window of the same length that reaches the present.
LEMMA ClosedIsUncounted ==
  ASSUME NEW m \in Mails, NEW at \in Time, NEW max \in Nat \ {0}, NEW back \in Mails,
         NEW count \in 1..max, NEW opened \in Nat, opened + Window <= at,
         CountedFits(count, opened, m, max, at, back)
  PROVE  UncountedFits(m, max, at, back)
<1>1. /\ at \in Nat /\ Window \in Nat /\ End \in 0..End
      /\ \A t \in 0..End : t \in Nat /\ m[t] \in Nat /\ back[t] \in Nat
  BY Times DEF Mails
<1>2. \A t \in 0..End : t > opened => m[End] - m[t] < count
  BY DEF CountedFits, Late
<1>3. \A t \in 0..End : t + Window > at => m[End] - m[t] < max + back[t]
  BY <1>1, <1>2
<1> QED BY <1>3 DEF UncountedFits, Late

\* One mail more makes no window exceed twice the budget less one, beside what
\* restarts gave back.
LEMMA WindowsHold ==
  ASSUME NEW m \in Mails, NEW at \in Time, NEW max \in Nat \ {0}, NEW back \in Mails,
         NEW count \in 1..max, NEW opened \in Nat, opened + Window > at,
         Growing(m, at), \A t \in Time : InWindow(m, t) < 2 * max + back[t],
         CountedFits(count, opened, Bumped(m, at), max, at, back)
  PROVE  \A t \in Time : InWindow(Bumped(m, at), t) < 2 * max + back[t]
<1> DEFINE b == Bumped(m, at)
<1>1. /\ at \in 0..End /\ at \in Nat /\ End \in 0..End /\ Window \in Nat /\ Window >= 1
      /\ opened \in 0..at /\ opened \in 0..End /\ End > at
      /\ \A t \in 0..End : t \in Nat /\ m[t] \in Nat /\ back[t] \in Nat
  BY Times DEF Mails, CountedFits
<1>2. /\ \A t \in 0..End : b[t] = IF t > at THEN m[t] + 1 ELSE m[t]
      /\ Growing(b, at)
      /\ b \in Mails
  BY BumpedMails
<1>3. /\ \A t \in 0..End : t > at => b[t] = b[End]
      /\ \A t \in 0..End : b[t] \in Nat
  BY <1>2 DEF Growing, Mails
<1>4. /\ \A t \in 0..End : t > opened => b[End] - b[t] < count
      /\ \A t \in 0..End : t <= opened /\ t + Window > opened => b[End] - b[t] < max + back[t] + count
  BY DEF CountedFits, Late
<1>5. SUFFICES ASSUME NEW t \in Time PROVE InWindow(b, t) < 2 * max + back[t]
  OBVIOUS
<1>6. t \in Nat /\ t \in 0..End /\ t < End /\ back[t] \in Nat
  BY <1>1, Times
<1>7. PICK u \in 0..End : u = IF t + Window < End THEN t + Window ELSE End
  BY <1>1, <1>6
<1>8. InWindow(b, t) = b[u] - b[t] /\ InWindow(m, t) = m[u] - m[t]
  BY <1>7 DEF InWindow
<1>9. b[u] \in Nat /\ b[t] \in Nat /\ b[End] \in Nat
  BY <1>1, <1>3, <1>6
<1>10. CASE t > at
  <2>1. b[t] = b[End] /\ b[u] = b[End]
    BY <1>1, <1>3, <1>6, <1>7, <1>10
  <2> QED BY <2>1, <1>6, <1>8, <1>9
<1>11. CASE t + Window <= at
  <2>1. t + Window < End /\ t <= at
    BY <1>1, <1>6, <1>11
  <2>2. u = t + Window /\ u <= at
    BY <2>1, <1>7, <1>11
  <2>3. b[u] = m[u] /\ b[t] = m[t]
    BY <2>1, <2>2, <1>1, <1>2, <1>6
  <2> QED BY <2>3, <1>8
<1>12. CASE t <= at /\ t + Window > at
  <2>1. b[u] = b[End]
    BY <1>1, <1>3, <1>6, <1>7, <1>12
  <2>2. CASE t > opened
    <3>1. b[End] - b[t] < count
      BY <2>2, <1>4, <1>6
    <3> QED BY <3>1, <2>1, <1>6, <1>8, <1>9
  <2>3. CASE t <= opened
    <3>1. b[End] - b[t] < max + back[t] + count
      BY <2>3, <1>1, <1>4, <1>6, <1>12
    <3> QED BY <3>1, <2>1, <1>6, <1>8, <1>9
  <2> QED BY <2>2, <2>3, <1>1, <1>6
<1> QED BY <1>1, <1>6, <1>10, <1>11, <1>12

\* A tick closes windows and opens none.
LEMMA TimePasses ==
  ASSUME NEW m \in Mails, NEW at \in Time, at + 1 \in Time,
         NEW max \in Nat \ {0}, NEW back, NEW c \in Counters(max), KeyInv(c, m, max, at, back)
  PROVE  KeyInv(c, m, max, at + 1, back)
<1>1. /\ at \in 0..End /\ at \in Nat /\ End \in 0..End /\ Window \in Nat /\ Window >= 1
      /\ at + 1 \in 0..End
      /\ \A t \in 0..End : t \in Nat /\ m[t] \in Nat
  BY Times DEF Mails
<1>2. Growing(m, at + 1)
  BY <1>1 DEF Growing, KeyInv
<1>3. m[at + 1] = m[End]
  BY <1>1 DEF Growing, KeyInv
<1>4. ASSUME c = NoCounter PROVE UncountedFits(m, max, at + 1, back)
  BY <1>1, <1>4 DEF UncountedFits, KeyInv
<1>5. ASSUME c # NoCounter PROVE CountedFits(c.count, c.reset - Window, m, max, at + 1, back)
  <2>1. PICK opened : opened = c.reset - Window
    OBVIOUS
  <2>2. CountedFits(c.count, opened, m, max, at, back)
    BY <1>5, <2>1 DEF KeyInv
  <2>3. opened \in 0..at /\ opened \in Nat
    BY <2>2, <1>1 DEF CountedFits
  <2>4. opened + Window <= at + 1 => m[End] = m[opened + Window]
    <3>1. CASE opened + Window <= at
      <4>1. opened + Window \in 0..End
        BY <3>1, <2>3, <1>1
      <4> QED BY <4>1, <3>1, <2>2, <1>1 DEF CountedFits, Late
    <3>2. CASE opened + Window = at + 1
      BY <3>2, <1>3
    <3> QED BY <3>1, <3>2, <2>3, <1>1
  <2>5. opened + Window <= at + 1 => opened + Window \in 0..End
    BY <2>3, <1>1
  <2>6. opened + Window <= at + 1 => Late(m, opened + Window) = 0
    BY <2>4, <2>5, <1>1 DEF Late
  <2>7. CountedFits(c.count, opened, m, max, at + 1, back)
    BY <2>2, <2>3, <2>6, <1>1 DEF CountedFits
  <2> QED BY <2>7, <2>1
<1> QED BY <1>2, <1>4, <1>5 DEF KeyInv

-----------------------------------------------------------------------------
(* allow and sweep, seen from one key.                                     *)

\* allow's answer for one key,
Fits(c, max) == c = NoCounter \/ Closed(c) \/ c.count < max

\* the counter it leaves,
Counted(c, max) ==
  IF c = NoCounter \/ Closed(c) THEN [count |-> 1, reset |-> clock + Window]
  ELSE IF c.count >= max THEN c ELSE [c EXCEPT !.count = @ + 1]

\* and what sweep leaves of it.
Swept(c) == IF Closed(c) THEN NoCounter ELSE c

\* What a caller may have written.
Headers == {<<>>} \cup {<<q>> : q \in Peers}

\* Whatever a caller forges, with a proxy or without, its key is its own address.
LEMMA CallerIsKnown ==
  ASSUME NEW p \in Peers, NEW forged \in Headers, proxied \in BOOLEAN
  PROVE  ClientIP(IF proxied THEN Append(forged, p) ELSE forged, IF proxied THEN Proxy ELSE p) = p
<1>1. CASE proxied
  <2>0. <<>> \in Seq(Peers) /\ \A q \in Peers : <<q>> \in Seq(Peers)
    OBVIOUS
  <2>1. forged \in Seq(Peers)
    BY <2>0 DEF Headers
  <2>6. Append(forged, p) \in Seq(Peers)
    BY <2>1
  <2>2. PICK h \in Seq(Peers) : h = Append(forged, p)
    BY <2>6
  <2>3. Len(h) = Len(forged) + 1 /\ Len(forged) \in Nat
    BY <2>1, <2>2
  <2>4. h # <<>> /\ h[Len(h)] = p
    BY <2>1, <2>2, <2>3
  <2>5. ClientIP(h, Proxy) = p
    BY <1>1, <2>4 DEF ClientIP, Last
  <2> QED BY <1>1, <2>2, <2>5
<1>2. CASE ~proxied
  BY <1>2 DEF ClientIP
<1> QED BY <1>1, <1>2

\* The fields of a counter.
LEMMA CounterFields ==
  ASSUME NEW max \in Nat \ {0}, NEW c \in Counters(max), c # NoCounter
  PROVE  /\ c \in [count : 1..max, reset : 0..MaxClock + Window]
         /\ c.count \in 1..max /\ c.count \in Nat /\ c.reset \in Nat
         /\ c.reset \in 0..MaxClock + Window
         /\ Closed(c) <=> clock >= c.reset
<1>1. c \in [count : 1..max, reset : 0..MaxClock + Window]
  BY DEF Counters
<1>2. c.count \in 1..max /\ c.reset \in 0..MaxClock + Window
  BY <1>1
<1> QED BY <1>1, <1>2, Times DEF Closed

\* No counter is taken for none.
LEMMA NoCounterIsNone ==
  ASSUME NEW n \in Nat, NEW r \in Nat
  PROVE  [count |-> n, reset |-> r] # NoCounter
  BY BudgetAssumption

\* The counter that an attempt leaves.
LEMMA CountedCounter ==
  ASSUME clock \in Time, NEW max \in Nat \ {0}, NEW c \in Counters(max)
  PROVE  /\ Counted(c, max) \in Counters(max)
         /\ Counted(c, max) # NoCounter
         /\ c = NoCounter \/ Closed(c) =>
              Counted(c, max).count = 1 /\ Counted(c, max).reset = clock + Window
         /\ c # NoCounter /\ ~Closed(c) =>
              /\ Counted(c, max).reset = c.reset
              /\ c.count < max => Counted(c, max).count = c.count + 1
              /\ ~(c.count < max) => Counted(c, max) = c
<1>1. clock \in Nat /\ Window \in Nat /\ MaxClock \in Nat /\ clock \in 0..MaxClock
  BY Times DEF Time
<1>2. CASE c = NoCounter \/ Closed(c)
  <2>1. Counted(c, max) = [count |-> 1, reset |-> clock + Window]
    BY <1>2 DEF Counted
  <2>2. PICK r \in 0..MaxClock + Window : r = clock + Window
    BY <1>1
  <2>3. [count |-> 1, reset |-> r] \in [count : 1..max, reset : 0..MaxClock + Window]
    OBVIOUS
  <2>4. [count |-> 1, reset |-> r] # NoCounter
    BY <1>1, NoCounterIsNone
  <2> QED BY <1>2, <2>1, <2>2, <2>3, <2>4 DEF Counters
<1>3. CASE c # NoCounter /\ ~Closed(c)
  <2>1. /\ c \in [count : 1..max, reset : 0..MaxClock + Window]
        /\ c.count \in 1..max /\ c.reset \in 0..MaxClock + Window
    BY <1>3, CounterFields
  <2>2. CASE c.count >= max
    BY <1>3, <2>1, <2>2 DEF Counted
  <2>3. CASE c.count < max
    <3>1. PICK n \in 1..max : n = c.count + 1
      BY <2>1, <2>3
    <3>2. PICK e : e = [c EXCEPT !.count = n]
      OBVIOUS
    <3>3. e \in [count : 1..max, reset : 0..MaxClock + Window] /\ e.count = n /\ e.reset = c.reset
      BY <2>1, <3>2
    <3>4. Counted(c, max) = e
      BY <1>3, <2>1, <2>3, <3>1, <3>2 DEF Counted
    <3>5. e # NoCounter
      <4>1. e \in [count : Nat, reset : Nat]
        BY <3>3, <1>1
      <4> QED BY <4>1, BudgetAssumption
    <3> QED BY <1>3, <2>3, <3>1, <3>3, <3>4, <3>5 DEF Counters
  <2> QED BY <2>1, <2>2, <2>3
<1> QED BY <1>2, <1>3

\* allow answers for one key and leaves the others alone.
LEMMA AllowAnswers ==
  ASSUME clock \in Time, NEW max \in Nat \ {0}, NEW K,
         NEW hits \in [K -> Counters(max)], NEW key \in K
  PROVE  /\ Allow(hits, key, max).ok \in BOOLEAN
         /\ Allow(hits, key, max).ok <=> Fits(hits[key], max)
         /\ Allow(hits, key, max).hits \in [K -> Counters(max)]
         /\ \A k \in K : Allow(hits, key, max).hits[k] =
                           IF k = key THEN Counted(hits[key], max) ELSE hits[k]
<1> DEFINE c == hits[key]
           a == Allow(hits, key, max)
<1>0. c \in Counters(max)
  OBVIOUS
<1>1. Counted(c, max) \in Counters(max)
  BY <1>0, CountedCounter
<1>2. CASE c = NoCounter \/ Closed(c)
  <2>1. a = [ok |-> TRUE, hits |-> [hits EXCEPT ![key] = [count |-> 1, reset |-> clock + Window]]]
    BY <1>2 DEF Allow
  <2>2. Counted(c, max) = [count |-> 1, reset |-> clock + Window]
    BY <1>2 DEF Counted
  <2>3. a.ok = TRUE /\ a.hits = [hits EXCEPT ![key] = Counted(c, max)]
    BY <2>1, <2>2
  <2>4. Fits(c, max)
    BY <1>2 DEF Fits
  <2> QED BY <1>1, <2>3, <2>4
<1>3. CASE ~(c = NoCounter \/ Closed(c))
  <2>0. c.count \in Nat
    BY <1>0, <1>3, CounterFields
  <2>7. PICK fit \in BOOLEAN : fit = (c.count < max)
    <3>1. CASE c.count < max
      <4>1. (c.count < max) = TRUE
        BY <3>1
      <4> QED BY <4>1, Zenon
    <3>2. CASE ~(c.count < max)
      <4>1. (c.count < max) = FALSE
        BY <3>2
      <4> QED BY <4>1, Zenon
    <3> QED BY <3>1, <3>2
  <2>8. fit <=> c.count < max
    BY <2>7, Zenon
  <2>1. a = [ok |-> fit,
             hits |-> IF c.count >= max THEN hits ELSE [hits EXCEPT ![key].count = @ + 1]]
    BY <1>3, <2>7 DEF Allow
  <2>2. Fits(c, max) <=> c.count < max
    BY <1>3 DEF Fits
  <2>3. CASE c.count >= max
    <3>1. Counted(c, max) = c /\ a.hits = hits
      BY <1>3, <2>1, <2>3 DEF Counted
    <3>2. a.ok = FALSE /\ ~Fits(c, max)
      <4>1. ~(c.count < max)
        BY <2>0, <2>3
      <4>2. fit = FALSE
        BY <4>1, <2>8
      <4>3. a.ok = fit
        BY <2>1
      <4> QED BY <4>1, <4>2, <4>3, <2>2, Zenon
    <3> QED BY <3>1, <3>2
  <2>4. CASE c.count < max
    <3>1. Counted(c, max) = [c EXCEPT !.count = @ + 1]
      BY <1>3, <2>0, <2>4 DEF Counted
    <3>2. a.hits = [hits EXCEPT ![key] = [c EXCEPT !.count = @ + 1]]
      BY <2>0, <2>1, <2>4
    <3>3. a.hits = [hits EXCEPT ![key] = Counted(c, max)]
      BY <3>1, <3>2
    <3>4. a.ok = TRUE /\ Fits(c, max)
      <4>1. (c.count < max)
        BY <2>0, <2>4
      <4>2. fit = TRUE
        BY <4>1, <2>8
      <4>3. a.ok = fit
        BY <2>1
      <4> QED BY <4>1, <4>2, <4>3, <2>2, Zenon
    <3> QED BY <1>1, <3>3, <3>4
  <2> QED BY <2>0, <2>3, <2>4
<1> QED BY <1>2, <1>3

\* An attempt keeps a key's invariant, and so does the mail if the budget has room.
LEMMA AttemptKeeps ==
  ASSUME clock \in Time, NEW max \in Nat \ {0}, NEW c \in Counters(max),
         NEW m \in Mails, NEW back \in Mails, KeyInv(c, m, max, clock, back)
  PROVE  /\ KeyInv(Counted(c, max), m, max, clock, back)
         /\ Fits(c, max) => KeyInv(Counted(c, max), Bumped(m, clock), max, clock, back)
         /\ clock < Counted(c, max).reset /\ Counted(c, max).reset <= clock + Window
<1> DEFINE d == Counted(c, max)
           b == Bumped(m, clock)
<1>0. clock \in Nat /\ Window \in Nat /\ Window >= 1
  BY Times
<1>1. Growing(m, clock) /\ Growing(b, clock) /\ b \in Mails
  BY BumpedMails DEF KeyInv
<1>2. \A t \in Time : InWindow(m, t) < 2 * max + back[t]
  BY DEF KeyInv
<1>3. d \in Counters(max) /\ d # NoCounter
  BY CountedCounter
<1>4. d.count \in 1..max /\ d.count \in Nat /\ d.reset \in Nat
  BY <1>3, CounterFields
<1>5. CASE c = NoCounter \/ Closed(c)
  <2>1. UncountedFits(m, max, clock, back)
    <3>1. CASE c = NoCounter
      BY <3>1 DEF KeyInv
    <3>2. CASE c # NoCounter /\ Closed(c)
      <4>1. c.count \in 1..max /\ c.reset \in Nat /\ c.reset <= clock
        BY <3>2, CounterFields, <1>0
      <4>2. PICK opened : opened = c.reset - Window
        OBVIOUS
      <4>3. CountedFits(c.count, opened, m, max, clock, back)
        BY <3>2, <4>2 DEF KeyInv
      <4>4. opened \in Nat
        BY <4>3, <1>0 DEF CountedFits
      <4>5. opened + Window <= clock
        BY <4>1, <4>2, <4>4, <1>0
      <4> QED BY <4>1, <4>3, <4>4, <4>5, <1>1, ClosedIsUncounted
    <3> QED BY <3>1, <3>2, <1>5
  <2>2. CountedFits(1, clock, m, max, clock, back) /\ CountedFits(1, clock, b, max, clock, back)
    BY <2>1, <1>1, OpensAWindow
  <2>3. d.count = 1 /\ d.reset = clock + Window
    BY <1>5, CountedCounter
  <2>4. d.reset - Window = clock
    BY <2>3, <1>0
  <2>5. clock + Window > clock /\ 1 \in 1..max
    BY <1>0
  <2>6. \A t \in Time : InWindow(b, t) < 2 * max + back[t]
    BY <2>2, <2>5, <1>0, <1>1, <1>2, WindowsHold
  <2>7. KeyInv(d, m, max, clock, back) /\ KeyInv(d, b, max, clock, back)
    BY <1>1, <1>2, <1>3, <2>2, <2>3, <2>4, <2>6 DEF KeyInv
  <2> QED BY <2>3, <2>5, <2>7, <1>0
<1>6. CASE c # NoCounter /\ ~Closed(c)
  <2>1. c.count \in 1..max /\ c.count \in Nat /\ c.reset \in Nat /\ clock < c.reset
    BY <1>6, CounterFields, <1>0
  <2>2. PICK opened : opened = c.reset - Window
    OBVIOUS
  <2>3. CountedFits(c.count, opened, m, max, clock, back)
    BY <1>6, <2>2 DEF KeyInv
  <2>4. opened \in Nat /\ opened <= clock
    BY <2>3, <1>0 DEF CountedFits
  <2>5. opened + Window > clock /\ c.reset <= clock + Window
    BY <2>1, <2>2, <2>4, <1>0
  <2>6. CountedFits(c.count + 1, opened, m, max, clock, back) /\ CountedFits(c.count + 1, opened, b, max, clock, back)
    BY <2>1, <2>3, <2>4, <2>5, <1>1, CountsOneMore
  <2>7. d.reset = c.reset
    BY <1>6, CountedCounter
  <2>8. CASE c.count < max
    <3>1. d.count = c.count + 1 /\ d.count \in 1..max
      BY <1>4, <1>6, <2>8, CountedCounter
    <3>2. \A t \in Time : InWindow(b, t) < 2 * max + back[t]
      BY <3>1, <2>4, <2>5, <2>6, <1>1, <1>2, WindowsHold
    <3>3. KeyInv(d, m, max, clock, back) /\ KeyInv(d, b, max, clock, back)
      BY <1>1, <1>2, <1>3, <2>2, <2>6, <2>7, <3>1, <3>2 DEF KeyInv
    <3> QED BY <3>3, <2>1, <2>5, <2>7
  <2>9. CASE ~(c.count < max)
    <3>1. d = c /\ ~Fits(c, max)
      BY <1>6, <2>9, CountedCounter DEF Fits
    <3> QED BY <3>1, <2>1, <2>5
  <2> QED BY <2>8, <2>9
<1> QED BY <1>5, <1>6

\* sweep forgets nothing that allow would look at.
LEMMA SweepKeeps ==
  ASSUME clock \in Time, NEW max \in Nat \ {0}, NEW c \in Counters(max),
         NEW m \in Mails, NEW back \in Mails, KeyInv(c, m, max, clock, back)
  PROVE  /\ Swept(c) \in Counters(max)
         /\ KeyInv(Swept(c), m, max, clock, back)
         /\ Counted(Swept(c), max) = Counted(c, max)
         /\ Fits(Swept(c), max) <=> Fits(c, max)
         /\ Swept(c) # NoCounter => Swept(c) = c /\ clock < c.reset
<1>0. clock \in Nat /\ Window \in Nat /\ Window >= 1
  BY Times
<1>1. CASE Closed(c)
  <2>1. c # NoCounter /\ Swept(c) = NoCounter
    BY <1>1 DEF Closed, Swept
  <2>2. c.count \in 1..max /\ c.reset \in Nat /\ c.reset <= clock
    BY <1>1, <2>1, CounterFields, <1>0
  <2>3. PICK opened : opened = c.reset - Window
    OBVIOUS
  <2>4. CountedFits(c.count, opened, m, max, clock, back)
    BY <2>1, <2>3 DEF KeyInv
  <2>5. opened \in Nat
    BY <2>4, <1>0 DEF CountedFits
  <2>6. opened + Window <= clock
    BY <2>2, <2>3, <2>5, <1>0
  <2>7. Growing(m, clock) /\ \A t \in Time : InWindow(m, t) < 2 * max + back[t]
    BY DEF KeyInv
  <2>8. UncountedFits(m, max, clock, back)
    BY <2>2, <2>4, <2>5, <2>6, <2>7, ClosedIsUncounted
  <2>9. KeyInv(NoCounter, m, max, clock, back)
    BY <2>7, <2>8 DEF KeyInv
  <2>10. ~Closed(NoCounter)
    BY DEF Closed
  <2> QED BY <1>1, <2>1, <2>9, <2>10 DEF Counters, Counted, Fits
<1>2. CASE ~Closed(c)
  <2>1. Swept(c) = c
    BY <1>2 DEF Swept
  <2>2. c # NoCounter => clock < c.reset
    BY <1>2, <1>0, CounterFields
  <2> QED BY <2>1, <2>2
<1> QED BY <1>1, <1>2

\* handleRequest, key by key.
LEMMA RequestStep ==
  ASSUME LimiterTypeOK, NEW p \in Peers, NEW e \in Emails, NEW forged \in Headers,
         Request(p, e, forged)
  PROVE  LET sent == Fits(Swept(byIP[p]), PerIP) /\ Fits(byEmail[e], PerEmail)
         IN  /\ clock' = clock /\ proxied' = proxied /\ restarted' = restarted
             /\ byIP' \in [Callers -> Counters(PerIP)] /\ byEmail' \in [Emails -> Counters(PerEmail)]
             /\ \A k \in Callers : byIP'[k] = IF k = p THEN Counted(Swept(byIP[p]), PerIP) ELSE Swept(byIP[k])
             /\ \A k \in Emails : byEmail'[k] = IF k = e THEN Counted(byEmail[e], PerEmail) ELSE byEmail[k]
             /\ mailed' \in [Peers \cup Emails -> Mails]
             /\ \A k \in Peers \cup Emails :
                  mailed'[k] = IF sent /\ k \in {p, e} THEN Bumped(mailed[k], clock) ELSE mailed[k]
             /\ asked' \in [Peers \cup Emails -> Time \cup {NoCounter}]
             /\ \A k \in Peers \cup Emails : asked'[k] = IF k \in {p, e} THEN clock ELSE asked[k]
             /\ last' \in [at : Time, fresh : BOOLEAN, served : BOOLEAN] /\ last'.at = clock
             /\ last'.served <=> sent
             /\ last'.fresh => \A k \in {p, e} : asked[k] = NoCounter \/ clock >= asked[k] + Window
<1> DEFINE key == ClientIP(IF proxied THEN Append(forged, p) ELSE forged, IF proxied THEN Proxy ELSE p)
           ip == Allow(Sweep(byIP), key, PerIP)
           addr == Allow(byEmail, e, PerEmail)
<1>0. /\ clock \in Time /\ proxied \in BOOLEAN
      /\ PerIP \in Nat \ {0} /\ PerEmail \in Nat \ {0}
      /\ byIP \in [Callers -> Counters(PerIP)] /\ byEmail \in [Emails -> Counters(PerEmail)]
      /\ mailed \in [Peers \cup Emails -> Mails]
      /\ asked \in [Peers \cup Emails -> Time \cup {NoCounter}]
      /\ p \in Callers
  BY BudgetAssumption DEF LimiterTypeOK, Mails, Callers
<1>1. key = p
  BY <1>0, CallerIsKnown
<1>2. PICK swept : swept = Sweep(byIP)
  OBVIOUS
<1>3. swept \in [Callers -> Counters(PerIP)] /\ \A k \in Callers : swept[k] = Swept(byIP[k])
  <2>1. swept = [k \in Callers |-> IF Closed(byIP[k]) THEN NoCounter ELSE byIP[k]]
    BY <1>0, <1>2 DEF Sweep
  <2>2. \A k \in Callers : swept[k] = Swept(byIP[k])
    BY <2>1 DEF Swept
  <2>3. \A k \in Callers : (IF Closed(byIP[k]) THEN NoCounter ELSE byIP[k]) \in Counters(PerIP)
    BY <1>0 DEF Counters
  <2> QED BY <2>1, <2>2, <2>3
<1>4. /\ ip.ok \in BOOLEAN /\ (ip.ok <=> Fits(swept[p], PerIP))
      /\ ip.hits \in [Callers -> Counters(PerIP)]
      /\ \A k \in Callers : ip.hits[k] = IF k = p THEN Counted(swept[p], PerIP) ELSE swept[k]
  <2>1. ip = Allow(swept, p, PerIP)
    BY <1>1, <1>2
  <2> QED BY <2>1, <1>0, <1>3, AllowAnswers
<1>5. /\ addr.ok \in BOOLEAN /\ (addr.ok <=> Fits(byEmail[e], PerEmail))
      /\ addr.hits \in [Emails -> Counters(PerEmail)]
      /\ \A k \in Emails : addr.hits[k] = IF k = e THEN Counted(byEmail[e], PerEmail) ELSE byEmail[k]
  BY <1>0, AllowAnswers
<1>6. /\ byIP' = ip.hits /\ byEmail' = addr.hits
      /\ mailed' = [k \in DOMAIN mailed |->
                      IF ip.ok /\ addr.ok /\ k \in {p, e}
                      THEN Bumped(mailed[k], clock) ELSE mailed[k]]
      /\ asked' = [k \in DOMAIN asked |-> IF k \in {p, e} THEN clock ELSE asked[k]]
      /\ last' = [at |-> clock, served |-> ip.ok /\ addr.ok,
                  fresh |-> \A k \in {p, e} : asked[k] = NoCounter \/ clock >= asked[k] + Window]
      /\ clock' = clock /\ proxied' = proxied /\ restarted' = restarted
  BY DEF Request, OneMore, Bumped
<1> HIDE DEF ip, addr, key
<1> DEFINE sent == Fits(Swept(byIP[p]), PerIP) /\ Fits(byEmail[e], PerEmail)
<1>7. sent <=> ip.ok /\ addr.ok
  BY <1>0, <1>3, <1>4, <1>5
<1>8. /\ byIP' \in [Callers -> Counters(PerIP)] /\ byEmail' \in [Emails -> Counters(PerEmail)]
      /\ \A k \in Callers : byIP'[k] = IF k = p THEN Counted(Swept(byIP[p]), PerIP) ELSE Swept(byIP[k])
      /\ \A k \in Emails : byEmail'[k] = IF k = e THEN Counted(byEmail[e], PerEmail) ELSE byEmail[k]
  BY <1>0, <1>3, <1>4, <1>5, <1>6
<1>9. mailed' = [k \in Peers \cup Emails |->
                   IF sent /\ k \in {p, e} THEN Bumped(mailed[k], clock) ELSE mailed[k]]
  BY <1>0, <1>6, <1>7
<1>10. \A k \in Peers \cup Emails : mailed[k] \in Mails /\ Bumped(mailed[k], clock) \in Mails
  BY <1>0, BumpedMails
<1> HIDE DEF sent
<1>11. mailed' \in [Peers \cup Emails -> Mails]
  BY <1>9, <1>10
<1>12. \A k \in Peers \cup Emails :
         mailed'[k] = IF sent /\ k \in {p, e} THEN Bumped(mailed[k], clock) ELSE mailed[k]
  BY <1>9
<1>13. /\ asked' \in [Peers \cup Emails -> Time \cup {NoCounter}]
       /\ \A k \in Peers \cup Emails : asked'[k] = IF k \in {p, e} THEN clock ELSE asked[k]
  BY <1>0, <1>6
<1>14. PICK served \in BOOLEAN : served = (ip.ok /\ addr.ok)
  BY <1>4, <1>5
<1>15. PICK quiet \in BOOLEAN :
         quiet = (\A k \in {p, e} : asked[k] = NoCounter \/ clock >= asked[k] + Window)
  <2> DEFINE F == \A k \in {p, e} : asked[k] = NoCounter \/ clock >= asked[k] + Window
  <2> HIDE DEF F
  <2>1. CASE F
    <3>1. TRUE = F
      BY <2>1
    <3> QED BY <3>1, Zenon DEF F
  <2>2. CASE ~F
    <3>1. FALSE = F
      BY <2>2
    <3> QED BY <3>1, Zenon DEF F
  <2> QED BY <2>1, <2>2
<1>16. last' = [at |-> clock, served |-> served, fresh |-> quiet]
  BY <1>6, <1>14, <1>15, Zenon
<1>17. served <=> sent
  BY <1>4, <1>5, <1>7, <1>14, Zenon
<1>18. quiet => \A k \in {p, e} : asked[k] = NoCounter \/ clock >= asked[k] + Window
  BY <1>15, Zenon
<1>19. /\ last' \in [at : Time, fresh : BOOLEAN, served : BOOLEAN] /\ last'.at = clock
       /\ (last'.served <=> sent) /\ last'.fresh = quiet
  BY <1>0, <1>16, <1>17
<1> QED BY <1>6, <1>8, <1>11, <1>12, <1>13, <1>18, <1>19 DEF sent

\* The restarts of a window are counted.
LEMMA Restarts ==
  ASSUME restarted \in Mails, NEW at, Growing(restarted, at)
  PROVE  \A t \in 0..End : InWindow(restarted, t) \in Nat
<1> SUFFICES ASSUME NEW t \in 0..End PROVE InWindow(restarted, t) \in Nat
  OBVIOUS
<1>1. t \in Nat /\ Window \in Nat /\ End \in Nat
  BY Times
<1>2. PICK u \in 0..End : u = (IF t + Window < End THEN t + Window ELSE End) /\ t <= u
  BY <1>1
<1>3. restarted[u] \in Nat /\ restarted[t] \in Nat /\ restarted[t] <= restarted[u]
  BY <1>2 DEF Growing, Mails
<1> QED BY <1>2, <1>3 DEF InWindow

\* What they give back is a number of mails, and none when there was none.
LEMMA RestoredMails ==
  ASSUME restarted \in Mails, NEW at, Growing(restarted, at), NEW max \in Nat
  PROVE  /\ Restored(max) \in Mails
         /\ \A t \in 0..End : Restored(max)[t] = max * InWindow(restarted, t)
<1>1. \A t \in 0..End : max * InWindow(restarted, t) \in Nat
  <2> TAKE t \in 0..End
  <2>1. PICK n \in Nat : n = InWindow(restarted, t)
    BY Restarts
  <2> QED BY <2>1
<1> QED BY <1>1 DEF Restored, Mails

\* The same with the time of the request.
LEMMA AttemptOK ==
  ASSUME clock \in Time, restarted \in Mails, Growing(restarted, clock), NEW max \in Nat \ {0}, NEW c \in Counters(max),
         NEW m \in Mails, NEW a, KeyOK(c, m, a, max)
  PROVE  /\ KeyOK(Counted(c, max), m, clock, max)
         /\ Fits(c, max) => KeyOK(Counted(c, max), Bumped(m, clock), clock, max)
<1>1. clock # NoCounter
  BY Times, BudgetAssumption
<1>2. Restored(max) \in Mails
  BY RestoredMails
<1> QED BY <1>1, <1>2, AttemptKeeps DEF KeyOK, Recent

\* Sweeping keeps both parts.
LEMMA SweepOK ==
  ASSUME clock \in Time, restarted \in Mails, Growing(restarted, clock), NEW max \in Nat \ {0}, NEW c \in Counters(max),
         NEW m \in Mails, NEW a, KeyOK(c, m, a, max)
  PROVE  Swept(c) \in Counters(max) /\ KeyOK(Swept(c), m, a, max)
<1>1. Restored(max) \in Mails
  BY RestoredMails
<1> QED BY <1>1, SweepKeeps DEF KeyOK, Recent

\* Who has been quiet for a window has no open counter.
LEMMA QuietFits ==
  ASSUME clock \in Time, NEW max \in Nat \ {0}, NEW c \in Counters(max),
         NEW a \in Time \cup {NoCounter}, Recent(c, a),
         a = NoCounter \/ clock >= a + Window
  PROVE  Fits(c, max)
<1>1. CASE c = NoCounter
  BY <1>1 DEF Fits
<1>2. CASE c # NoCounter
  <2>1. c.reset \in Nat /\ clock \in Nat /\ Window \in Nat
    BY <1>2, CounterFields, Times
  <2>2. ~(clock < c.reset)
    BY <1>2, <2>1, Times DEF Recent
  <2>3. Closed(c)
    BY <1>2, <2>1, <2>2 DEF Closed
  <2> QED BY <2>3 DEF Fits
<1> QED BY <1>1, <1>2

-----------------------------------------------------------------------------
(* The invariant is inductive.                                             *)

\* No mails, no counters.
LEMMA NothingSent ==
  ASSUME NEW zero \in Mails, \A t \in 0..End : zero[t] = 0,
         NEW at \in Time, NEW max \in Nat \ {0}, NEW back \in Mails
  PROVE  KeyInv(NoCounter, zero, max, at, back)
<1>1. /\ at \in 0..End /\ End \in 0..End /\ Window \in Nat /\ at \in Nat /\ End \in Nat
      /\ \A t \in 0..End : back[t] \in Nat
      /\ \A t \in Time : t \in 0..End /\ t \in Nat
  BY Times DEF Mails
<1>2. Growing(zero, at)
  BY <1>1 DEF Growing
<1>3. UncountedFits(zero, max, at, back)
  BY <1>1 DEF UncountedFits, Late
<1>4. \A t \in Time : InWindow(zero, t) < 2 * max + back[t]
  <2> TAKE t \in Time
  <2>0. t \in Nat /\ t + Window \in Nat
    BY <1>1
  <2>1. PICK x \in 0..End : x = IF t + Window < End THEN t + Window ELSE End
    BY <2>0, <1>1
  <2>2. InWindow(zero, t) = zero[x] - zero[t]
    BY <2>1 DEF InWindow
  <2> QED BY <2>2, <1>1
<1> QED BY <1>2, <1>3, <1>4 DEF KeyInv

\* The invariant holds at first,
LEMMA LimiterInvInit == LimiterInit => LimiterIInv
<1> SUFFICES ASSUME LimiterInit PROVE LimiterIInv
  OBVIOUS
<1>0. /\ 0 \in Time /\ End \in Nat /\ Window \in Nat /\ Window >= 1 /\ MaxClock \in Nat
      /\ \A t \in Time : t \in Nat /\ t \in 0..End
  BY Times DEF Time
<1>1. PICK zero : zero = [t \in 0..End |-> 0]
  OBVIOUS
<1>2. zero \in Mails /\ \A t \in 0..End : zero[t] = 0
  BY <1>1 DEF Mails
<1>3. /\ clock = 0 /\ proxied \in BOOLEAN
      /\ byIP = [k \in Callers |-> NoCounter] /\ byEmail = [k \in Emails |-> NoCounter]
      /\ mailed = [k \in Peers \cup Emails |-> zero] /\ restarted = zero
      /\ asked = [k \in Peers \cup Emails |-> NoCounter]
      /\ last = [at |-> 0, fresh |-> FALSE, served |-> FALSE]
  BY <1>1 DEF LimiterInit
<1>4. LimiterTypeOK
  <2>1. restarted \in [0..End -> 0..MaxRestarts]
    BY <1>0, <1>1, <1>3, BudgetAssumption
  <2> QED BY <2>1, <1>0, <1>2, <1>3 DEF LimiterTypeOK, Counters, Mails
<1>5. ByIPIsSwept /\ FreshCallerServed
  BY <1>3 DEF ByIPIsSwept, FreshCallerServed
<1>10. restarted \in Mails /\ Growing(restarted, clock)
  BY <1>0, <1>2, <1>3 DEF Growing
<1>6. \A max \in Nat \ {0} : KeyInv(NoCounter, zero, max, 0, Restored(max))
  BY <1>0, <1>2, <1>10, NothingSent, RestoredMails
<1>7. \A p \in Peers : byIP[p] = NoCounter /\ mailed[p] = zero
  BY <1>3 DEF Callers
<1>8. \A e \in Emails : byEmail[e] = NoCounter /\ mailed[e] = zero
  BY <1>3
<1>9. PerIP \in Nat \ {0} /\ PerEmail \in Nat \ {0}
  BY BudgetAssumption
<1> QED BY <1>3, <1>4, <1>5, <1>6, <1>7, <1>8, <1>9, <1>10 DEF LimiterIInv, KeyOK, Recent

\* after a request,
LEMMA LimiterInvRequest ==
  ASSUME LimiterIInv, NEW p \in Peers, NEW e \in Emails, NEW forged \in Headers,
         Request(p, e, forged)
  PROVE  LimiterIInv'
<1> DEFINE sent == Fits(Swept(byIP[p]), PerIP) /\ Fits(byEmail[e], PerEmail)
<1>14. restarted \in Mails /\ Growing(restarted, clock)
  <2>1. restarted \in [0..End -> 0..MaxRestarts] /\ MaxRestarts \in Nat
    BY BudgetAssumption DEF LimiterIInv, LimiterTypeOK
  <2>2. restarted \in [0..End -> Nat]
    BY <2>1
  <2> QED BY <2>2 DEF LimiterIInv, Mails
<1>0. /\ LimiterTypeOK /\ clock \in Time /\ clock \in Nat
      /\ restarted \in Mails /\ Growing(restarted, clock)
      /\ PerIP \in Nat \ {0} /\ PerEmail \in Nat \ {0}
      /\ byIP \in [Callers -> Counters(PerIP)] /\ byEmail \in [Emails -> Counters(PerEmail)]
      /\ mailed \in [Peers \cup Emails -> Mails]
      /\ asked \in [Peers \cup Emails -> Time \cup {NoCounter}]
      /\ proxied \in BOOLEAN
      /\ \A k \in Peers : k \in Callers /\ k \in Peers \cup Emails
      /\ \A k \in Emails : k \in Peers \cup Emails
      /\ p # e /\ \A k \in Peers : k # e
      /\ \A k \in Emails : k # p
  BY <1>14, Times, BudgetAssumption DEF LimiterIInv, LimiterTypeOK, Mails, Callers
<1>1. /\ clock' = clock /\ proxied' = proxied /\ restarted' = restarted
      /\ byIP' \in [Callers -> Counters(PerIP)] /\ byEmail' \in [Emails -> Counters(PerEmail)]
      /\ \A k \in Callers : byIP'[k] = IF k = p THEN Counted(Swept(byIP[p]), PerIP) ELSE Swept(byIP[k])
      /\ \A k \in Emails : byEmail'[k] = IF k = e THEN Counted(byEmail[e], PerEmail) ELSE byEmail[k]
      /\ mailed' \in [Peers \cup Emails -> Mails]
      /\ \A k \in Peers \cup Emails :
           mailed'[k] = IF sent /\ k \in {p, e} THEN Bumped(mailed[k], clock) ELSE mailed[k]
      /\ asked' \in [Peers \cup Emails -> Time \cup {NoCounter}]
      /\ \A k \in Peers \cup Emails : asked'[k] = IF k \in {p, e} THEN clock ELSE asked[k]
      /\ last' \in [at : Time, fresh : BOOLEAN, served : BOOLEAN] /\ last'.at = clock
      /\ last'.served <=> sent
      /\ last'.fresh => \A k \in {p, e} : asked[k] = NoCounter \/ clock >= asked[k] + Window
  BY <1>0, RequestStep
<1>2. \A k \in Peers : KeyOK(byIP[k], mailed[k], asked[k], PerIP)
  BY DEF LimiterIInv, KeyOK
<1>3. \A k \in Emails : KeyOK(byEmail[k], mailed[k], asked[k], PerEmail)
  BY DEF LimiterIInv, KeyOK
<1>4. \A k \in Peers : Swept(byIP[k]) \in Counters(PerIP) /\ KeyOK(Swept(byIP[k]), mailed[k], asked[k], PerIP)
  <2> TAKE k \in Peers
  <2>1. byIP[k] \in Counters(PerIP) /\ mailed[k] \in Mails
    BY <1>0
  <2> QED BY <2>1, <1>0, <1>2, SweepOK
<1>5. sent => Fits(Swept(byIP[p]), PerIP) /\ Fits(byEmail[e], PerEmail)
  OBVIOUS
<1> HIDE DEF sent
<1>6. LimiterTypeOK'
  BY <1>0, <1>1 DEF LimiterTypeOK, Mails
<1>7. ASSUME NEW k \in Peers PROVE KeyOK(byIP'[k], mailed'[k], asked'[k], PerIP)
  <2>0. mailed[k] \in Mails
    BY <1>0
  <2>1. CASE k = p
    <3>1. byIP'[k] = Counted(Swept(byIP[p]), PerIP) /\ asked'[k] = clock
      BY <2>1, <1>0, <1>1
    <3>2. mailed'[k] = mailed[p] \/ (sent /\ mailed'[k] = Bumped(mailed[p], clock))
      BY <2>1, <1>0, <1>1
    <3>3. /\ KeyOK(Counted(Swept(byIP[p]), PerIP), mailed[p], clock, PerIP)
          /\ sent => KeyOK(Counted(Swept(byIP[p]), PerIP), Bumped(mailed[p], clock), clock, PerIP)
      BY <2>0, <2>1, <1>0, <1>4, <1>5, AttemptOK
    <3> QED BY <3>1, <3>2, <3>3
  <2>2. CASE k # p
    <3>1. byIP'[k] = Swept(byIP[k]) /\ asked'[k] = asked[k] /\ mailed'[k] = mailed[k]
      BY <2>2, <1>0, <1>1
    <3> QED BY <3>1, <1>4
  <2> QED BY <2>1, <2>2
<1>8. ASSUME NEW k \in Emails PROVE KeyOK(byEmail'[k], mailed'[k], asked'[k], PerEmail)
  <2>0. mailed[k] \in Mails /\ byEmail[k] \in Counters(PerEmail)
    BY <1>0
  <2>1. CASE k = e
    <3>1. byEmail'[k] = Counted(byEmail[e], PerEmail) /\ asked'[k] = clock
      BY <2>1, <1>0, <1>1
    <3>2. mailed'[k] = mailed[e] \/ (sent /\ mailed'[k] = Bumped(mailed[e], clock))
      BY <2>1, <1>0, <1>1
    <3>3. /\ KeyOK(Counted(byEmail[e], PerEmail), mailed[e], clock, PerEmail)
          /\ sent => KeyOK(Counted(byEmail[e], PerEmail), Bumped(mailed[e], clock), clock, PerEmail)
      BY <2>0, <2>1, <1>0, <1>3, <1>5, AttemptOK
    <3> QED BY <3>1, <3>2, <3>3
  <2>2. CASE k # e
    <3>1. byEmail'[k] = byEmail[k] /\ asked'[k] = asked[k] /\ mailed'[k] = mailed[k]
      BY <2>2, <1>0, <1>1
    <3> QED BY <3>1, <1>3
  <2> QED BY <2>1, <2>2
<1>9. ByIPIsSwept'
  <2> SUFFICES ASSUME NEW k \in Callers, byIP'[k] # NoCounter PROVE byIP'[k].reset > last'.at
    BY DEF ByIPIsSwept
  <2>1. CASE k = p
    <3>1. byIP'[k] = Counted(Swept(byIP[p]), PerIP)
      BY <2>1, <1>1
    <3>2. KeyInv(Swept(byIP[p]), mailed[p], PerIP, clock, Restored(PerIP)) /\ mailed[p] \in Mails
          /\ Restored(PerIP) \in Mails
      BY <1>0, <1>4, RestoredMails DEF KeyOK
    <3>3. clock < byIP'[k].reset
      BY <3>1, <3>2, <1>0, <1>4, AttemptKeeps
    <3>4. byIP'[k] \in Counters(PerIP)
      BY <1>1
    <3>5. byIP'[k].reset \in Nat
      BY <3>4, <1>0, CounterFields
    <3> QED BY <3>3, <3>5, <1>0, <1>1
  <2>2. CASE k # p
    <3>1. byIP'[k] = Swept(byIP[k])
      BY <2>2, <1>1
    <3>2. ~Closed(byIP[k]) /\ byIP'[k] = byIP[k]
      BY <3>1 DEF Swept
    <3>3. byIP[k] \in Counters(PerIP) /\ byIP[k] # NoCounter
      BY <3>2, <1>0
    <3>4. byIP[k].reset \in Nat /\ byIP[k].reset > clock
      BY <3>2, <3>3, <1>0, CounterFields
    <3> QED BY <3>2, <3>4, <1>1
  <2> QED BY <2>1, <2>2
<1>10. FreshCallerServed'
  <2> SUFFICES ASSUME last'.fresh PROVE last'.served
    BY DEF FreshCallerServed
  <2>1. \A k \in {p, e} : asked[k] = NoCounter \/ clock >= asked[k] + Window
    BY <1>1
  <2>2. asked[p] \in Time \cup {NoCounter} /\ asked[e] \in Time \cup {NoCounter} /\ byEmail[e] \in Counters(PerEmail)
    BY <1>0
  <2>3. Fits(Swept(byIP[p]), PerIP)
    BY <2>1, <2>2, <1>0, <1>4, QuietFits DEF KeyOK
  <2>4. Fits(byEmail[e], PerEmail)
    BY <2>1, <2>2, <1>0, <1>3, QuietFits DEF KeyOK
  <2> QED BY <2>3, <2>4, <1>1 DEF sent
<1>11. \A k \in Peers : KeyOK(byIP[k], mailed[k], asked[k], PerIP)'
  <2> TAKE k \in Peers
  <2>1. KeyInv(byIP'[k], mailed'[k], PerIP, clock', Restored(PerIP)) /\ Recent(byIP'[k], asked'[k])
    BY <1>1, <1>7 DEF KeyOK
  <2> QED BY <2>1, <1>1 DEF KeyOK, Recent, KeyInv, Growing, UncountedFits, CountedFits, Late, InWindow, Restored
<1>12. \A k \in Emails : KeyOK(byEmail[k], mailed[k], asked[k], PerEmail)'
  <2> TAKE k \in Emails
  <2>1. KeyInv(byEmail'[k], mailed'[k], PerEmail, clock', Restored(PerEmail)) /\ Recent(byEmail'[k], asked'[k])
    BY <1>1, <1>8 DEF KeyOK
  <2> QED BY <2>1, <1>1 DEF KeyOK, Recent, KeyInv, Growing, UncountedFits, CountedFits, Late, InWindow, Restored
<1>13. Growing(restarted, clock)'
  BY <1>0, <1>1 DEF Growing
<1> QED BY <1>6, <1>9, <1>10, <1>11, <1>12, <1>13 DEF LimiterIInv

\* A restart drops a counter, and gives its budget back to each window it is in.
LEMMA RestartFits ==
  ASSUME clock \in Time, NEW max \in Nat \ {0}, NEW c, NEW m \in Mails, NEW back \in Mails,
         NEW more \in Mails, KeyInv(c, m, max, clock, back),
         \A t \in 0..End : more[t] = IF t <= clock /\ t + Window > clock THEN back[t] + max ELSE back[t]
  PROVE  KeyInv(NoCounter, m, max, clock, more)
<1>1. /\ clock \in 0..End /\ clock \in Nat /\ End \in 0..End /\ End > clock /\ Window \in Nat
      /\ \A t \in 0..End : t \in Nat /\ m[t] \in Nat /\ back[t] \in Nat /\ more[t] \in Nat
      /\ \A t \in Time : t \in 0..End
  BY Times DEF Mails
<1>2. Growing(m, clock) /\ \A t \in Time : InWindow(m, t) < 2 * max + back[t]
  BY DEF KeyInv
<1>3. UncountedFits(m, max, clock, more)
  <2> SUFFICES ASSUME NEW t \in 0..End, t + Window > clock PROVE m[End] - m[t] < max + more[t]
    BY DEF UncountedFits, Late
  <2>1. CASE t > clock
    BY <2>1, <1>1, <1>2 DEF Growing
  <2>2. CASE t <= clock
    <3>1. t \in Time
      BY <2>2, <1>1, Times
    <3>2. PICK u \in 0..End : u = (IF t + Window < End THEN t + Window ELSE End) /\ u > clock
      BY <1>1
    <3>3. InWindow(m, t) = m[End] - m[t]
      BY <3>2, <1>2 DEF InWindow, Growing
    <3>4. m[End] - m[t] < 2 * max + back[t] /\ more[t] = back[t] + max
      BY <2>2, <3>1, <3>3, <1>2
    <3> QED BY <3>4, <1>1
  <2> QED BY <2>1, <2>2, <1>1
<1>4. \A t \in Time : InWindow(m, t) < 2 * max + more[t]
  <2> TAKE t \in Time
  <2>1. t \in Nat /\ t + Window \in Nat /\ back[t] \in Nat /\ more[t] \in Nat /\ more[t] >= back[t]
    BY <1>1
  <2>2. PICK u \in 0..End : u = IF t + Window < End THEN t + Window ELSE End
    BY <1>1, <2>1
  <2>3. InWindow(m, t) = m[u] - m[t] /\ m[u] \in Nat /\ m[t] \in Nat
    BY <1>1, <2>2 DEF InWindow
  <2> QED BY <1>2, <2>1, <2>3
<1> QED BY <1>2, <1>3, <1>4 DEF KeyInv

\* after a restart, which forgets the counters,
LEMMA LimiterInvRestart ==
  ASSUME LimiterIInv, Restart
  PROVE  LimiterIInv'
<1>0. /\ clock \in Time /\ clock \in Nat /\ PerIP \in Nat \ {0} /\ PerEmail \in Nat \ {0}
      /\ MaxRestarts \in Nat /\ Window \in Nat /\ End \in Nat /\ End \in 0..End /\ clock < End
      /\ restarted \in [0..End -> 0..MaxRestarts] /\ restarted \in Mails /\ Growing(restarted, clock)
      /\ mailed \in [Peers \cup Emails -> Mails]
      /\ \A p \in Peers : p \in Callers
  BY Times, BudgetAssumption DEF LimiterIInv, LimiterTypeOK, Mails, Callers
<1>1. PICK r : r = Bumped(restarted, clock)
  OBVIOUS
<1>2. /\ clock' = clock /\ proxied' = proxied /\ mailed' = mailed /\ asked' = asked /\ last' = last
      /\ byIP' = [k \in Callers |-> NoCounter] /\ byEmail' = [k \in Emails |-> NoCounter]
      /\ restarted' = r /\ restarted[End] < MaxRestarts
  BY <1>1 DEF Restart, OneMore, Bumped
<1>3. /\ r \in Mails /\ Growing(r, clock)
      /\ \A t \in 0..End : r[t] = IF t > clock THEN restarted[t] + 1 ELSE restarted[t]
  BY <1>0, <1>1, BumpedMails
<1>4. r \in [0..End -> 0..MaxRestarts]
  <2>1. \A t \in 0..End : t > clock => restarted[t] = restarted[End]
    BY <1>0 DEF Growing
  <2>2. \A t \in 0..End : r[t] \in 0..MaxRestarts
    BY <2>1, <1>0, <1>2, <1>3
  <2> QED BY <2>2, <1>3 DEF Mails
<1>5. LimiterTypeOK'
  BY <1>2, <1>4 DEF LimiterIInv, LimiterTypeOK, Counters
<1>6. ByIPIsSwept' /\ FreshCallerServed' /\ Growing(restarted, clock)'
  BY <1>2, <1>3 DEF LimiterIInv, ByIPIsSwept, FreshCallerServed, Growing
<1>7. ASSUME NEW max \in Nat \ {0}, NEW c, NEW m \in Mails, KeyInv(c, m, max, clock, Restored(max))
      PROVE  KeyInv(NoCounter, m, max, clock, Restored(max)')
  <2>1. PICK back \in Mails : back = Restored(max)
    BY <1>0, RestoredMails
  <2>2. PICK more : more = Restored(max)'
    OBVIOUS
  <2>3. more = [t \in 0..End |-> max * InWindow(r, t)]
    BY <2>2, <1>2 DEF Restored, InWindow
  <2>4. ASSUME NEW t \in 0..End
        PROVE  /\ more[t] \in Nat
               /\ more[t] = IF t <= clock /\ t + Window > clock THEN back[t] + max ELSE back[t]
    <3>1. PICK n \in Nat : n = InWindow(restarted, t)
      BY <1>0, Restarts
    <3>2. back[t] = max * n /\ more[t] = max * InWindow(r, t)
      BY <2>1, <2>3, <3>1, <1>0, RestoredMails
    <3>3. PICK u \in 0..End : u = IF t + Window < End THEN t + Window ELSE End
      BY <1>0
    <3>4. n = restarted[u] - restarted[t] /\ InWindow(r, t) = r[u] - r[t]
      BY <3>1, <3>3 DEF InWindow
    <3>5. restarted[u] \in Nat /\ restarted[t] \in Nat /\ t \in Nat /\ u \in Nat
      BY <1>0 DEF Mails
    <3>6. InWindow(r, t) = IF t <= clock /\ t + Window > clock THEN n + 1 ELSE n
      <4>1. /\ r[u] = IF u > clock THEN restarted[u] + 1 ELSE restarted[u]
            /\ r[t] = IF t > clock THEN restarted[t] + 1 ELSE restarted[t]
        BY <1>3
      <4>2. (t > clock => u > clock) /\ (u > clock <=> t + Window > clock)
        BY <3>3, <3>5, <1>0
      <4> QED BY <4>1, <4>2, <3>4, <3>5, <1>0
    <3>7. max * (n + 1) = max * n + max /\ max * n \in Nat
      OBVIOUS
    <3> QED BY <3>2, <3>6, <3>7
  <2>5. more \in Mails
    BY <2>3, <2>4 DEF Mails
  <2> QED BY <1>0, <1>7, <2>1, <2>2, <2>4, <2>5, RestartFits
<1>8. \A p \in Peers : KeyOK(byIP[p], mailed[p], asked[p], PerIP)'
  <2> TAKE p \in Peers
  <2>1. KeyInv(byIP[p], mailed[p], PerIP, clock, Restored(PerIP)) /\ mailed[p] \in Mails
    BY <1>0 DEF LimiterIInv, KeyOK
  <2>2. KeyInv(NoCounter, mailed[p], PerIP, clock, Restored(PerIP)')
    BY <2>1, <1>0, <1>7
  <2>3. byIP'[p] = NoCounter /\ mailed'[p] = mailed[p] /\ clock' = clock
    BY <1>0, <1>2
  <2>4. KeyInv(byIP[p], mailed[p], PerIP, clock, Restored(PerIP))'
    BY <2>2, <2>3 DEF KeyInv, Growing, UncountedFits, CountedFits, Late, InWindow
  <2> QED BY <2>3, <2>4 DEF KeyOK, Recent
<1>9. \A e \in Emails : KeyOK(byEmail[e], mailed[e], asked[e], PerEmail)'
  <2> TAKE e \in Emails
  <2>1. KeyInv(byEmail[e], mailed[e], PerEmail, clock, Restored(PerEmail)) /\ mailed[e] \in Mails
    BY <1>0 DEF LimiterIInv, KeyOK
  <2>2. KeyInv(NoCounter, mailed[e], PerEmail, clock, Restored(PerEmail)')
    BY <2>1, <1>0, <1>7
  <2>3. byEmail'[e] = NoCounter /\ mailed'[e] = mailed[e] /\ clock' = clock
    BY <1>2
  <2>4. KeyInv(byEmail[e], mailed[e], PerEmail, clock, Restored(PerEmail))'
    BY <2>2, <2>3 DEF KeyInv, Growing, UncountedFits, CountedFits, Late, InWindow
  <2> QED BY <2>3, <2>4 DEF KeyOK, Recent
<1> QED BY <1>5, <1>6, <1>8, <1>9 DEF LimiterIInv

\* as time passes,
LEMMA LimiterInvTicks ==
  ASSUME LimiterIInv, ClockTicks
  PROVE  LimiterIInv'
<1>0. /\ clock \in Time /\ restarted \in Mails /\ Growing(restarted, clock)
      /\ PerIP \in Nat \ {0} /\ PerEmail \in Nat \ {0}
      /\ byIP \in [Callers -> Counters(PerIP)] /\ byEmail \in [Emails -> Counters(PerEmail)]
      /\ mailed \in [Peers \cup Emails -> Mails]
      /\ \A k \in Peers : k \in Callers
  BY BudgetAssumption DEF LimiterIInv, LimiterTypeOK, Mails, Callers
<1>1. /\ clock' = clock + 1 /\ clock + 1 \in Time /\ clock \in Nat
      /\ proxied' = proxied /\ byIP' = byIP /\ byEmail' = byEmail /\ mailed' = mailed
      /\ asked' = asked /\ last' = last /\ restarted' = restarted
  BY <1>0, Times DEF ClockTicks, Time
<1>2. LimiterTypeOK'
  BY <1>1 DEF LimiterIInv, LimiterTypeOK
<1>3. ByIPIsSwept' /\ FreshCallerServed' /\ Growing(restarted, clock)'
  BY <1>0, <1>1, Times DEF LimiterIInv, ByIPIsSwept, FreshCallerServed, Growing
<1>4. ASSUME NEW p \in Peers PROVE KeyOK(byIP[p], mailed[p], asked[p], PerIP)'
  <2>1. byIP[p] \in Counters(PerIP) /\ mailed[p] \in Mails
    BY <1>0
  <2>2. KeyInv(byIP[p], mailed[p], PerIP, clock + 1, Restored(PerIP))
    BY <2>1, <1>0, <1>1, TimePasses DEF LimiterIInv, KeyOK
  <2>3. byIP[p] # NoCounter /\ clock + 1 < byIP[p].reset => clock < byIP[p].reset
    BY <2>1, <1>0, <1>1, CounterFields
  <2>4. Recent(byIP[p], asked[p])
    BY DEF LimiterIInv, KeyOK
  <2>5. Recent(byIP[p], asked[p])'
    BY <2>3, <2>4, <1>1 DEF Recent
  <2> QED BY <2>2, <2>5, <1>1 DEF KeyOK, KeyInv, Growing, UncountedFits, CountedFits, Late, InWindow, Restored
<1>5. ASSUME NEW e \in Emails PROVE KeyOK(byEmail[e], mailed[e], asked[e], PerEmail)'
  <2>1. byEmail[e] \in Counters(PerEmail) /\ mailed[e] \in Mails
    BY <1>0
  <2>2. KeyInv(byEmail[e], mailed[e], PerEmail, clock + 1, Restored(PerEmail))
    BY <2>1, <1>0, <1>1, TimePasses DEF LimiterIInv, KeyOK
  <2>3. byEmail[e] # NoCounter /\ clock + 1 < byEmail[e].reset => clock < byEmail[e].reset
    BY <2>1, <1>0, <1>1, CounterFields
  <2>4. Recent(byEmail[e], asked[e])
    BY DEF LimiterIInv, KeyOK
  <2>5. Recent(byEmail[e], asked[e])'
    BY <2>3, <2>4, <1>1 DEF Recent
  <2> QED BY <2>2, <2>5, <1>1 DEF KeyOK, KeyInv, Growing, UncountedFits, CountedFits, Late, InWindow, Restored
<1> QED BY <1>2, <1>3, <1>4, <1>5 DEF LimiterIInv

\* and when nothing happens.
LEMMA LimiterInvStutter ==
  ASSUME LimiterIInv, UNCHANGED limiterVars
  PROVE  LimiterIInv'
<1>1. /\ clock' = clock /\ proxied' = proxied /\ byIP' = byIP /\ byEmail' = byEmail
      /\ mailed' = mailed /\ asked' = asked /\ last' = last /\ restarted' = restarted
  BY DEF limiterVars
<1>2. LimiterTypeOK' /\ ByIPIsSwept' /\ FreshCallerServed' /\ Growing(restarted, clock)'
  BY <1>1 DEF LimiterIInv, LimiterTypeOK, ByIPIsSwept, FreshCallerServed, Growing
<1>3. \A p \in Peers : KeyOK(byIP[p], mailed[p], asked[p], PerIP)'
  BY <1>1 DEF LimiterIInv, KeyOK, Recent, KeyInv, Growing, UncountedFits, CountedFits, Late, InWindow, Restored
<1>4. \A e \in Emails : KeyOK(byEmail[e], mailed[e], asked[e], PerEmail)'
  BY <1>1 DEF LimiterIInv, KeyOK, Recent, KeyInv, Growing, UncountedFits, CountedFits, Late, InWindow, Restored
<1> QED BY <1>2, <1>3, <1>4 DEF LimiterIInv

-----------------------------------------------------------------------------
(* The theorems.                                                           *)

\* The inductive invariant holds.
LEMMA LimiterInvHolds == LimiterSpec => []LimiterIInv
<1>1. LimiterInit => LimiterIInv
  BY LimiterInvInit
<1>2. LimiterIInv /\ [LimiterNext]_limiterVars => LimiterIInv'
  <2> SUFFICES ASSUME LimiterIInv, [LimiterNext]_limiterVars PROVE LimiterIInv'
    OBVIOUS
  <2>1. ASSUME NEW p \in Peers, NEW e \in Emails, NEW forged \in Headers, Request(p, e, forged)
        PROVE  LimiterIInv'
    BY <2>1, LimiterInvRequest
  <2>2. CASE Restart
    BY <2>2, LimiterInvRestart
  <2>3. CASE ClockTicks
    BY <2>3, LimiterInvTicks
  <2>4. CASE UNCHANGED limiterVars
    BY <2>4, LimiterInvStutter
  <2> QED BY <2>1, <2>2, <2>3, <2>4 DEF LimiterNext, Headers
<1> QED BY <1>1, <1>2, PTL DEF LimiterSpec

\* For any budgets, window, machines, addresses and restarts: in no stretch of time as
\* long as the window do twice the budget's mails leave for one address or one caller,
\* and one budget more for each restart within that stretch, with a proxy or without,
\* whatever headers are forged; and no closed counter is kept for a caller
\* (limiter.go, clientip.go).
THEOREM SlidingBudgetHolds == LimiterSpec => []SlidingBudget
<1>1. LimiterIInv => SlidingBudget
  <2> SUFFICES ASSUME LimiterIInv PROVE SlidingBudget
    OBVIOUS
  <2>1. restarted \in Mails /\ Growing(restarted, clock) /\ PerIP \in Nat /\ PerEmail \in Nat
    BY BudgetAssumption DEF LimiterIInv, LimiterTypeOK, Mails
  <2>2. ASSUME NEW t \in Time, NEW max \in Nat
        PROVE  2 * max + Restored(max)[t] = (2 + InWindow(restarted, t)) * max
    <3>1. PICK n \in Nat : n = InWindow(restarted, t)
      BY <2>1, Restarts, Times
    <3>2. Restored(max)[t] = max * n
      BY <2>1, <3>1, RestoredMails, Times
    <3>3. 2 * max + max * n = (2 + n) * max
      OBVIOUS
    <3> QED BY <3>1, <3>2, <3>3
  <2>3. ASSUME NEW t \in Time, NEW e \in Emails
        PROVE  InWindow(mailed[e], t) < (2 + InWindow(restarted, t)) * PerEmail
    BY <2>1, <2>2 DEF LimiterIInv, KeyOK, KeyInv
  <2>4. ASSUME NEW t \in Time, NEW p \in Peers
        PROVE  InWindow(mailed[p], t) < (2 + InWindow(restarted, t)) * PerIP
    BY <2>1, <2>2 DEF LimiterIInv, KeyOK, KeyInv
  <2> QED BY <2>3, <2>4 DEF LimiterIInv, SlidingBudget
<1> QED BY <1>1, LimiterInvHolds, PTL

\* A request by somebody quiet for an address nobody asked for within the window
\* is served, whatever all the others did (handleRequest, clientip.go).
THEOREM FreshCallerServedHolds == LimiterSpec => []FreshCallerServed
<1>1. LimiterIInv => FreshCallerServed
  BY DEF LimiterIInv
<1> QED BY <1>1, LimiterInvHolds, PTL
=============================================================================
