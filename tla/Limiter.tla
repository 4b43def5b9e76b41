------------------------------- MODULE Limiter -------------------------------
(***************************************************************************)
(* How many sign-in mails leave the house: authapp's handleRequest with    *)
(* its two limiters (limiter.go), one keyed by the caller (clientip.go)    *)
(* and one by the address that is asked for.                               *)
(*                                                                         *)
(* Each call of a limiter holds its mutex; the calls of two requests may   *)
(* interleave, which changes nothing but whose attempt was the last to     *)
(* fit, so a request is one action.  What RequestLogin does is Identity's. *)
(*                                                                         *)
(* A definition no action uses, placed right before the one it resembles,  *)
(* is a plausible defect of it (README.md, "Mutants").                     *)
(***************************************************************************)
EXTENDS Naturals, Sequences, SequencesExt

CONSTANTS
  Peers,        \* the machines requests come from
  Emails,
  Proxy,        \* the reverse proxy's own address
  PerIP,        \* the two budgets
  PerEmail,
  Window,       \* in ticks
  MaxClock,     \* the clock stops here (bound)
  MaxRestarts,  \* in a run (bound)
  NoCounter     \* no counter, nothing asked

ASSUME BudgetAssumption ==
  /\ PerIP \in Nat \ {0} /\ PerEmail \in Nat \ {0} /\ Window \in Nat \ {0}
  /\ MaxClock \in Nat /\ MaxRestarts \in Nat
  /\ Proxy \notin Peers /\ Peers \cap Emails = {}
  /\ NoCounter \notin Nat \cup [count : Nat, reset : Nat]

VARIABLES
  clock,
  proxied,   \* the deployment: behind a proxy, and told so by -trust-proxy
  byIP,      \* limiter: key -> [count, reset], or NoCounter
  byEmail,
  \* History.
  mailed,    \* how many mails had left for a peer or an address before each time
  restarted, \* how many restarts there had been before each time
  asked,     \* when a peer last asked, or an address was last asked for, or NoCounter
  last       \* the last request: [at, fresh, served]

limiterVars == <<clock, proxied, byIP, byEmail, mailed, restarted, asked, last>>

Callers == Peers \cup {Proxy}
Time == 0..MaxClock
End == MaxClock + 1

LimiterInit ==
  /\ clock = 0
  /\ proxied \in BOOLEAN
  /\ byIP = [k \in Callers |-> NoCounter] /\ byEmail = [k \in Emails |-> NoCounter]
  /\ mailed = [k \in Peers \cup Emails |-> [t \in 0..End |-> 0]]
  /\ restarted = [t \in 0..End |-> 0]
  /\ asked = [k \in Peers \cup Emails |-> NoCounter]
  /\ last = [at |-> 0, fresh |-> FALSE, served |-> FALSE]

-----------------------------------------------------------------------------
(* limiter.go                                                              *)

\* A running total with one more from now on.
OneMore(total) == [t \in 0..End |-> IF t > clock THEN total[t] + 1 ELSE total[t]]

Closed(c) == c # NoCounter /\ clock >= c.reset

\* What allow answers, and the counters it leaves.
AllowOneMore(hits, key, max) ==
  LET c == hits[key]
  IN  IF c = NoCounter \/ Closed(c)
      THEN [ok |-> TRUE, hits |-> [hits EXCEPT ![key] = [count |-> 1, reset |-> clock + Window]]]
      ELSE [ok |-> c.count <= max,
            hits |-> IF c.count > max THEN hits ELSE [hits EXCEPT ![key].count = @ + 1]]

Allow(hits, key, max) ==
  LET c == hits[key]
  IN  IF c = NoCounter \/ Closed(c)
      THEN [ok |-> TRUE, hits |-> [hits EXCEPT ![key] = [count |-> 1, reset |-> clock + Window]]]
      ELSE [ok |-> c.count < max,
            hits |-> IF c.count >= max THEN hits ELSE [hits EXCEPT ![key].count = @ + 1]]

Sweep(hits) == [k \in DOMAIN hits |-> IF Closed(hits[k]) THEN NoCounter ELSE hits[k]]

-----------------------------------------------------------------------------
(* clientip.go: header is X-Forwarded-For, split at its commas.            *)

ClientIPSocket(header, remote) == remote

ClientIP(header, remote) == IF proxied /\ header # <<>> THEN Last(header) ELSE remote

-----------------------------------------------------------------------------
\* handleRequest, for a well-formed address.  The caller may have written a
\* header of its own; the proxy appends the peer it saw.
Request(p, email, forged) ==
  LET header == IF proxied THEN Append(forged, p) ELSE forged
      ip     == Allow(Sweep(byIP), ClientIP(header, IF proxied THEN Proxy ELSE p), PerIP)
      addr   == Allow(byEmail, email, PerEmail)
  IN  /\ byIP' = ip.hits /\ byEmail' = addr.hits
      /\ mailed' = [k \in DOMAIN mailed |->
                      IF ip.ok /\ addr.ok /\ k \in {p, email}
                      THEN OneMore(mailed[k]) ELSE mailed[k]]
      /\ asked' = [k \in DOMAIN asked |-> IF k \in {p, email} THEN clock ELSE asked[k]]
      /\ last' = [at |-> clock, served |-> ip.ok /\ addr.ok,
                  fresh |-> \A k \in {p, email} : asked[k] = NoCounter \/ clock >= asked[k] + Window]
      /\ UNCHANGED <<clock, proxied, restarted>>

\* The counters are in memory; the mails have left.
Restart ==
  /\ restarted[End] < MaxRestarts /\ restarted' = OneMore(restarted)
  /\ byIP' = [k \in Callers |-> NoCounter] /\ byEmail' = [k \in Emails |-> NoCounter]
  /\ UNCHANGED <<clock, proxied, mailed, asked, last>>

ClockTicks ==
  /\ clock < MaxClock /\ clock' = clock + 1
  /\ UNCHANGED <<proxied, byIP, byEmail, mailed, restarted, asked, last>>

LimiterNext ==
  \/ \E p \in Peers, email \in Emails, forged \in {<<>>} \cup {<<q>> : q \in Peers} :
       Request(p, email, forged)
  \/ Restart
  \/ ClockTicks

LimiterSpec == LimiterInit /\ [][LimiterNext]_limiterVars

-----------------------------------------------------------------------------
Counters(max) == [count : 1..max, reset : 0..MaxClock + Window] \cup {NoCounter}

LimiterTypeOK ==
  /\ clock \in Time /\ proxied \in BOOLEAN
  /\ byIP \in [Callers -> Counters(PerIP)] /\ byEmail \in [Emails -> Counters(PerEmail)]
  /\ mailed \in [Peers \cup Emails -> [0..End -> Nat]]
  /\ restarted \in [0..End -> 0..MaxRestarts]
  /\ asked \in [Peers \cup Emails -> Time \cup {NoCounter}]
  /\ last \in [at : Time, fresh : BOOLEAN, served : BOOLEAN]

\* What was added to a running total in the window that begins at t.
InWindow(total, t) == total[IF t + Window < End THEN t + Window ELSE End] - total[t]

\* "The map only grows as fast as distinct callers arrive within one window"
\* (limiter.go:61): after a sweep no closed window is left.  byEmail, which
\* handleRequest does not sweep, keeps every address that was ever asked for.
ByIPIsSwept == \A k \in Callers : byIP[k] # NoCounter => byIP[k].reset > last.at

\* The window is fixed, not sliding, and a restart forgets it: "no more than N mails
\* to this address per hour" (limiter.go:19) holds from reset to reset of one process.
\* In any hour there are fewer than twice the budget's mails, and one budget more for
\* each restart within that hour; a caller has no more, whatever header it sends.  The
\* counters that this takes do not pile up for callers.
SlidingBudget ==
  /\ LimiterTypeOK /\ ByIPIsSwept
  /\ \A t \in Time :
       /\ \A e \in Emails : InWindow(mailed[e], t) < (2 + InWindow(restarted, t)) * PerEmail
       /\ \A p \in Peers  : InWindow(mailed[p], t) < (2 + InWindow(restarted, t)) * PerIP

\* Who has not asked within an hour, for an address nobody has asked for since,
\* gets the mail: callers behind the proxy do not share "one allowance"
\* (clientip.go:13), and nobody else's requests use it up.
FreshCallerServed == last.fresh => last.served
=============================================================================
