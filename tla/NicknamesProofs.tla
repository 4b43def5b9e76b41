--------------------------- MODULE NicknamesProofs ---------------------------
(***************************************************************************)
(* Proofs about Nicknames, for any accounts, names and keys, any word      *)
(* lists of the generator, and any number of requests in flight; and about *)
(* the rules for texts (Naming), for texts of any length.                  *)
(***************************************************************************)
EXTENDS NicknameTexts, SequenceTheorems, WellFoundedInduction, TLAPS

-----------------------------------------------------------------------------
(* The inductive invariant, in parts.                                      *)

Claiming == {"generate", "load", "claim"}

\* The table: a key is that of its name, and was on the account since the last lull.
TableInv ==
  \A u \in Accounts :
    /\ ~HasNickname(u) => users[u].fold = None
    /\ HasNickname(u) => /\ users[u].fold = FoldOf[users[u].nickname]
                         /\ <<u, users[u].fold>> \in held

\* The unique index.
UniqueInv ==
  \A u, v \in Accounts : u # v /\ HasNickname(u) /\ HasNickname(v) => users[u].fold # users[v].fold

\* Somebody else has had this name.
Gone(u, name) == \E e \in held : e[1] # u /\ e[2] = FoldOf[name]

\* A request claims for an account, answers "taken" of a name that was, and leaves the
\* name on the button only after somebody else has had it.
Fair(r) ==
  /\ r.pc # "idle" => r.user \in Accounts
  /\ r.pc \in {"load", "claim"} => r.want \in Names
  /\ r.pc = "suggest" => ~r.skip
  /\ r.answer = "taken" => r.pc = "answered" /\ Gone(r.user, r.want)
  /\ r.skip /\ r.first # None =>
       /\ r.pc \in Claiming => IF r.attempt = -1 THEN r.pc # "generate" /\ r.want = r.first
                           ELSE Gone(r.user, r.first)
       /\ r.pc = "answered" /\ r.answer = "name" => r.name = r.first \/ Gone(r.user, r.first)

RequestInv == \A h \in Handlers : Fair(req[h])

\* A skip that is still on its way found no name; one that is there now came later.
SkipInv ==
  \A h \in Handlers : req[h].skip /\ req[h].pc \in Claiming =>
    ~HasNickname(req[h].user) \/ h \in renamed

IInv == TypeOK /\ TableInv /\ UniqueInv /\ RequestInv /\ SkipInv /\ NameIsLastClaimed

-----------------------------------------------------------------------------
(* Requests and their fields.                                              *)

\* No request, and the budgets of the bounds.
LEMMA IdleType == Idle \in Request /\ 0 \in 0..MaxRequests /\ 0 \in 0..MaxFaults
  BY AttemptsAssumption DEF Idle, Request, Answers

\* One more request, one more fault.
LEMMA BoundType ==
  ASSUME TypeOK
  PROVE  /\ sent < MaxRequests => sent + 1 \in 0..MaxRequests
         /\ faults < MaxFaults => faults + 1 \in 0..MaxFaults
  BY AttemptsAssumption DEF TypeOK

\* The generator proposes names.
LEMMA GenerateType ==
  ASSUME NEW attempt \in Int
  PROVE  Generate(attempt) \subseteq Names
  BY NamesAssumption DEF Generate

\* The answers to a request.
LEMMA AnswerType ==
  ASSUME NEW r \in Request, NEW what \in Answers, NEW name \in Names \cup {None}
  PROVE  /\ [r EXCEPT !.pc = "answered", !.answer = what, !.attempt = 0] \in Request
         /\ [r EXCEPT !.pc = "answered", !.answer = "name", !.name = name, !.attempt = 0] \in Request
<1>1. 0 \in -1 .. SuggestAttempts - 1
  BY AttemptsAssumption
<1>2. "name" \in Answers
  BY DEF Answers
<1> QED BY <1>1, <1>2 DEF Request

\* A request that is answered for what is asked moves on fairly.
LEMMA AnswerFair ==
  ASSUME NEW r \in Request, NEW what \in Answers \ {"name", "taken"}, r.pc # "idle", Fair(r)
  PROVE  Fair([r EXCEPT !.pc = "answered", !.answer = what, !.attempt = 0])
  BY DEF Request, Fair, Claiming

\* What somebody else has had stays known.
LEMMA FairStays ==
  ASSUME held \subseteq held', NEW r, Fair(r)
  PROVE  Fair(r)'
  BY DEF Fair, Gone

\* A step that moves one request and writes no row.
LEMMA MoveStep ==
  ASSUME IInv, NEW h \in Handlers, NEW r \in Request, Go(h, r),
         Fair(r), r.skip /\ r.pc \in Claiming => ~HasNickname(r.user) \/ h \in renamed,
         UNCHANGED <<users, claimed, renamed, held>>,
         sent' \in 0..MaxRequests, faults' \in 0..MaxFaults
  PROVE  IInv'
<1> USE DEF IInv, TypeOK, Go
<1>1. TypeOK'
  OBVIOUS
<1>2. TableInv' /\ UniqueInv' /\ NameIsLastClaimed'
  BY DEF TableInv, UniqueInv, NameIsLastClaimed, HasNickname
<1>3. RequestInv'
  <2>1. \A g \in Handlers : req'[g] = req[g] \/ req'[g] = r
    OBVIOUS
  <2>2. Fair(r)' /\ \A g \in Handlers : Fair(req[g])
    BY DEF Fair, Gone, RequestInv
  <2> QED BY <2>1, <2>2 DEF Fair, Gone, RequestInv
<1>4. SkipInv'
  BY DEF SkipInv, HasNickname
<1> QED BY <1>1, <1>2, <1>3, <1>4

\* A request that is answered, with neither a name nor "taken".
LEMMA AnswerStep ==
  ASSUME IInv, NEW h \in Handlers, NEW what \in Answers \ {"name", "taken"}, Answer(h, what),
         req[h].pc # "idle",
         UNCHANGED <<users, claimed, renamed, held>>,
         sent' \in 0..MaxRequests, faults' \in 0..MaxFaults
  PROVE  IInv'
<1> DEFINE r == [req[h] EXCEPT !.pc = "answered", !.answer = what, !.attempt = 0]
<1>1. req[h] \in Request /\ Fair(req[h])
  BY DEF IInv, TypeOK, RequestInv
<1>2. r \in Request
  BY <1>1, AnswerType
<1>3. Fair(r)
  BY <1>1, AnswerFair
<1>4. r.pc \notin Claiming /\ Go(h, r)
  BY <1>1 DEF Answer, Claiming, Request
<1> HIDE DEF r
<1> QED BY <1>2, <1>3, <1>4, MoveStep

\* A request that arrives.
LEMMA ReceiveStep ==
  ASSUME IInv, NEW h \in Handlers, NEW r \in Request, Receive(h, r),
         Fair(r), r.skip => ~HasNickname(r.user)
  PROVE  IInv'
<1>1. sent' \in 0..MaxRequests /\ faults' \in 0..MaxFaults
  BY BoundType DEF Receive, IInv, TypeOK
<1> QED BY <1>1, MoveStep DEF Receive

-----------------------------------------------------------------------------
(* One lemma per operation.                                                *)

\* An account that has a name is answered with it.
LEMMA NamedAnswer ==
  ASSUME TypeOK, NEW u \in Accounts
  PROVE  Named(u) \in Request /\ Fair(Named(u)) /\ ~Named(u).skip
<1>1. users[u].nickname \in Names \cup {None}
  BY DEF TypeOK
<1>2. Named(u) \in Request
  BY <1>1, IdleType DEF Named, Request, Answers
<1> QED BY <1>2 DEF Named, Idle, Fair

\* GET of one's name.
LEMMA MeStep ==
  ASSUME IInv, NEW h \in Handlers, NEW u \in Accounts, Me(h, u)
  PROVE  IInv'
<1>1. CASE HasNickname(u)
  BY <1>1, NamedAnswer, ReceiveStep DEF Me, IInv
<1>2. CASE ~HasNickname(u)
  <2> DEFINE r == [Idle EXCEPT !.user = u, !.pc = "suggest"]
  <2>1. r \in Request /\ ~r.skip /\ Fair(r)
    BY IdleType DEF Idle, Request, Fair, Claiming
  <2>2. Receive(h, r)
    BY <1>2 DEF Me
  <2> HIDE DEF r
  <2> QED BY <2>1, <2>2, ReceiveStep
<1> QED BY <1>1, <1>2

\* A sign-in loads the account.
LEMMA SignInStep ==
  ASSUME IInv, NEW h \in Handlers, NEW u \in Accounts, SignIn(h, u)
  PROVE  IInv'
<1> DEFINE r == [Idle EXCEPT !.user = u, !.pc = "save", !.row = users[u].nickname]
<1>1. users[u].nickname \in Names \cup {None}
  BY DEF IInv, TypeOK
<1>2. r \in Request /\ ~r.skip /\ Fair(r)
  BY <1>1, IdleType DEF Idle, Request, Fair, Claiming
<1>3. Receive(h, r)
  BY DEF SignIn
<1> HIDE DEF r
<1> QED BY <1>2, <1>3, ReceiveStep

\* A name is asked for.
LEMMA PostNicknameStep ==
  ASSUME IInv, NEW h \in Handlers, NEW u \in Accounts, NEW name \in Names \cup {None},
         PostNickname(h, u, name)
  PROVE  IInv'
<1> DEFINE r == IF name = None
                THEN [Idle EXCEPT !.user = u, !.pc = "answered", !.answer = "refused"]
                ELSE [Idle EXCEPT !.user = u, !.pc = "load", !.want = name]
<1>1. r \in Request /\ ~r.skip /\ Fair(r)
  BY IdleType DEF Idle, Request, Answers, Fair, Claiming
<1>2. Receive(h, r)
  BY DEF PostNickname
<1> HIDE DEF r
<1> QED BY <1>1, <1>2, ReceiveStep

\* A skip looks whether there is a name.
LEMMA PostSkipStep ==
  ASSUME IInv, NEW h \in Handlers, NEW u \in Accounts, NEW name \in Names \cup {None},
         PostSkip(h, u, name)
  PROVE  IInv'
<1>1. CASE HasNickname(u)
  BY <1>1, NamedAnswer, ReceiveStep DEF PostSkip, IInv
<1>2. CASE ~HasNickname(u)
  <2> DEFINE r == [Idle EXCEPT !.user = u, !.skip = TRUE, !.first = name, !.want = name,
                               !.attempt = IF name = None THEN 0 ELSE -1,
                               !.pc = IF name = None THEN "generate" ELSE "load"]
  <2>1. r \in Request
    <3>1. 0 \in -1 .. SuggestAttempts - 1 /\ -1 \in -1 .. SuggestAttempts - 1
      BY AttemptsAssumption
    <3> QED BY <3>1 DEF Idle, Request, Answers
  <2>2. Fair(r) /\ r.user = u
    BY DEF Idle, Fair, Claiming
  <2>3. Receive(h, r)
    BY <1>2 DEF PostSkip
  <2> HIDE DEF r
  <2> QED BY <1>2, <2>1, <2>2, <2>3, ReceiveStep
<1> QED BY <1>1, <1>2

\* A proposal is answered, or the next one tried.
LEMMA SuggestStep ==
  ASSUME IInv, NEW h \in Handlers, Suggest(h)
  PROVE  IInv'
<1>1. /\ req[h] \in Request /\ Fair(req[h]) /\ req[h].pc = "suggest"
      /\ UNCHANGED <<users, claimed, renamed, held>>
      /\ sent' \in 0..MaxRequests /\ faults' \in 0..MaxFaults
  BY DEF IInv, TypeOK, RequestInv, Suggest, At
<1>2. PICK name \in Generate(req[h].attempt) :
        \/ Holders(name) = {} /\ AnswerName(h, name)
        \/ req[h].attempt + 1 < SuggestAttempts /\ Go(h, [req[h] EXCEPT !.attempt = @ + 1])
        \/ Answer(h, "no suggestion")
  BY DEF Suggest
<1>3. name \in Names
  BY <1>1, GenerateType, AttemptsAssumption DEF Request
<1>4. CASE AnswerName(h, name)
  <2> DEFINE r == [req[h] EXCEPT !.pc = "answered", !.answer = "name", !.name = name, !.attempt = 0]
  <2>1. r \in Request
    BY <1>1, <1>3, AnswerType DEF Answers
  <2>2. Fair(r)
    BY <1>1 DEF Request, Fair, Claiming
  <2>3. Go(h, r) /\ r.pc = "answered"
    BY <1>1, <1>4 DEF AnswerName, Request
  <2> HIDE DEF r
  <2> QED BY <1>1, <2>1, <2>2, <2>3, MoveStep DEF Claiming
<1>5. CASE req[h].attempt + 1 < SuggestAttempts /\ Go(h, [req[h] EXCEPT !.attempt = @ + 1])
  <2> DEFINE r == [req[h] EXCEPT !.attempt = @ + 1]
  <2>1. r \in Request
    BY <1>1, <1>5, AttemptsAssumption DEF Request
  <2>2. Fair(r) /\ r.pc = "suggest"
    BY <1>1 DEF Request, Fair, Claiming
  <2>3. Go(h, r)
    BY <1>5
  <2> HIDE DEF r
  <2> QED BY <1>1, <2>1, <2>2, <2>3, MoveStep DEF Claiming
<1>6. CASE Answer(h, "no suggestion")
  BY <1>1, <1>6, AnswerStep DEF Answers
<1> QED BY <1>2, <1>4, <1>5, <1>6

\* A skip goes on with a generated name.
LEMMA GenerateNameStep ==
  ASSUME IInv, NEW h \in Handlers, GenerateName(h)
  PROVE  IInv'
<1>1. /\ req[h] \in Request /\ Fair(req[h]) /\ req[h].pc = "generate"
      /\ UNCHANGED <<users, claimed, renamed, held>>
      /\ sent' \in 0..MaxRequests /\ faults' \in 0..MaxFaults
  BY DEF IInv, TypeOK, RequestInv, GenerateName, At
<1>2. PICK name \in Generate(req[h].attempt) : Go(h, [req[h] EXCEPT !.pc = "load", !.want = name])
  BY DEF GenerateName
<1>3. name \in Names
  BY <1>1, GenerateType, AttemptsAssumption DEF Request
<1> DEFINE r == [req[h] EXCEPT !.pc = "load", !.want = name]
<1>4. r \in Request /\ r.user = req[h].user /\ r.skip = req[h].skip
  BY <1>1, <1>3 DEF Request
<1>5. Fair(r)
  BY <1>1, <1>3 DEF Request, Fair, Claiming
<1>6. r.skip => ~HasNickname(r.user) \/ h \in renamed
  BY <1>1, <1>4 DEF IInv, SkipInv, Claiming
<1> HIDE DEF r
<1> QED BY <1>1, <1>2, <1>4, <1>5, <1>6, MoveStep DEF r

\* The account is loaded.
LEMMA LoadAccountStep ==
  ASSUME IInv, NEW h \in Handlers, LoadAccount(h)
  PROVE  IInv'
<1>1. /\ req[h] \in Request /\ Fair(req[h]) /\ req[h].pc = "load"
      /\ UNCHANGED <<users, claimed, renamed, held>>
      /\ sent' \in 0..MaxRequests /\ faults' \in 0..MaxFaults
  BY DEF IInv, TypeOK, RequestInv, LoadAccount, At
<1> DEFINE r == [req[h] EXCEPT !.pc = "claim"]
<1>2. r \in Request /\ r.user = req[h].user /\ r.skip = req[h].skip
  BY <1>1 DEF Request
<1>3. Fair(r)
  BY <1>1 DEF Request, Fair, Claiming
<1>4. r.skip => ~HasNickname(r.user) \/ h \in renamed
  BY <1>1, <1>2 DEF IInv, SkipInv, Claiming
<1>5. Go(h, r)
  BY DEF LoadAccount
<1> HIDE DEF r
<1> QED BY <1>1, <1>2, <1>3, <1>4, <1>5, MoveStep

\* The name is somebody's: it is gone, and the request says so or asks for another.
LEMMA ClaimTakenStep ==
  ASSUME IInv, NEW h \in Handlers, Claim(h), Taken(req[h].want, req[h].user)
  PROVE  IInv'
<1>1. /\ req[h] \in Request /\ Fair(req[h]) /\ req[h].pc = "claim" /\ req[h].want \in Names
      /\ UNCHANGED <<users, claimed, renamed, held>>
      /\ sent' \in 0..MaxRequests /\ faults' \in 0..MaxFaults
  BY DEF IInv, TypeOK, RequestInv, Claim, At, Fair
<1>2. Gone(req[h].user, req[h].want)
  <2>1. PICK v \in Accounts : v # req[h].user /\ users[v].fold = FoldOf[req[h].want]
    BY DEF Taken, Holders, Key
  <2>2. <<v, users[v].fold>> \in held
    BY <1>1, <2>1, NamesAssumption DEF IInv, TableInv
  <2> QED BY <2>1, <2>2 DEF Gone
<1>3. \/ ~req[h].skip /\ Answer(h, "taken")
      \/ /\ req[h].skip /\ req[h].attempt + 1 < SuggestAttempts
         /\ Go(h, [req[h] EXCEPT !.pc = "generate", !.attempt = @ + 1])
      \/ Answer(h, "failed")
  BY <1>1 DEF Claim, Retry, Request
<1>4. CASE ~req[h].skip /\ Answer(h, "taken")
  <2> DEFINE r == [req[h] EXCEPT !.pc = "answered", !.answer = "taken", !.attempt = 0]
  <2>1. r \in Request
    BY <1>1, AnswerType DEF Answers
  <2>2. Fair(r) /\ r.pc = "answered"
    BY <1>1, <1>2, <1>4 DEF Request, Fair, Claiming
  <2>3. Go(h, r)
    BY <1>4 DEF Answer
  <2> HIDE DEF r
  <2> QED BY <1>1, <2>1, <2>2, <2>3, MoveStep DEF Claiming
<1>5. CASE /\ req[h].skip /\ req[h].attempt + 1 < SuggestAttempts
           /\ Go(h, [req[h] EXCEPT !.pc = "generate", !.attempt = @ + 1])
  <2> DEFINE r == [req[h] EXCEPT !.pc = "generate", !.attempt = @ + 1]
  <2>0. req[h].attempt + 1 \in -1 .. SuggestAttempts - 1 /\ req[h].attempt + 1 # -1
    BY <1>1, <1>5, AttemptsAssumption DEF Request
  <2>1. r \in Request /\ r.attempt # -1
    BY <1>1, <2>0 DEF Request
  <2>2. /\ r.pc = "generate" /\ r.user = req[h].user /\ r.skip /\ r.first = req[h].first
        /\ r.answer = req[h].answer /\ r.want = req[h].want
    BY <1>1, <1>5 DEF Request
  <2>3. r.first # None => Gone(r.user, r.first)
    BY <1>1, <1>2, <1>5, <2>2 DEF Fair, Claiming
  <2>4. Go(h, r)
    BY <1>5
  <2> HIDE DEF r
  <2>5. Fair(r)
    BY <1>1, <2>1, <2>2, <2>3 DEF Fair
  <2>6. ~HasNickname(r.user) \/ h \in renamed
    BY <1>1, <1>5, <2>2 DEF IInv, SkipInv, Claiming
  <2> QED BY <1>1, <2>1, <2>4, <2>5, <2>6, MoveStep
<1>6. CASE Answer(h, "failed")
  BY <1>1, <1>6, AnswerStep DEF Answers
<1> QED BY <1>3, <1>4, <1>5, <1>6

\* The name is nobody else's: it is written, with its key, and answered.
LEMMA ClaimFreeStep ==
  ASSUME IInv, NEW h \in Handlers, Claim(h), ~Taken(req[h].want, req[h].user)
  PROVE  IInv'
<1> DEFINE u == req[h].user
           name == req[h].want
           r == [req[h] EXCEPT !.pc = "answered", !.answer = "name", !.name = name, !.attempt = 0]
<1>1. /\ req[h] \in Request /\ Fair(req[h]) /\ req[h].pc = "claim"
      /\ name \in Names /\ u \in Accounts /\ UNCHANGED <<sent, faults>>
  BY DEF IInv, TypeOK, RequestInv, Claim, At, Fair
<1>2. FoldOf[name] \in Range(FoldOf) /\ FoldOf[name] # None /\ name # None
  BY <1>1, NamesAssumption DEF Range
<1>3. /\ users' = [users EXCEPT ![u] = [nickname |-> name, fold |-> FoldOf[name]]]
      /\ claimed' = [claimed EXCEPT ![u] = name]
      /\ renamed' = renamed \cup {g \in Handlers : req[g].user = u}
      /\ held' = held \cup {<<u, FoldOf[name]>>}
      /\ req' = [req EXCEPT ![h] = r]
  BY DEF Claim, Write, Key, AnswerName, Go
<1>4. \A v \in Accounts : v # u => users[v].fold # FoldOf[name]
  BY DEF Taken, Holders, Key
<1>5. r \in Request
  BY <1>1, AnswerType DEF Answers
<1>6. Fair(r) /\ r.pc = "answered" /\ r.user = u
  BY <1>1 DEF Request, Fair, Claiming
<1> HIDE DEF u, name, r
<1>7. TypeOK'
  BY <1>1, <1>2, <1>3, <1>5 DEF IInv, TypeOK
<1>8. /\ users'[u] = [nickname |-> name, fold |-> FoldOf[name]]
      /\ \A v \in Accounts : v # u => users'[v] = users[v]
  BY <1>1, <1>3 DEF IInv, TypeOK
<1>9. TableInv'
  BY <1>2, <1>3, <1>8 DEF IInv, TableInv, HasNickname
<1>10. UniqueInv'
  <2>1. \A v \in Accounts : v # u /\ HasNickname(v) => HasNickname(v)' /\ users'[v].fold = users[v].fold
    BY <1>8 DEF HasNickname
  <2>2. \A v \in Accounts : v # u /\ HasNickname(v)' => HasNickname(v)
    BY <1>8 DEF HasNickname
  <2> QED BY <1>4, <1>8, <2>1, <2>2 DEF IInv, UniqueInv
<1>11. RequestInv'
  <2>1. \A g \in Handlers : req'[g] = req[g] \/ req'[g] = r
    BY <1>3 DEF IInv, TypeOK
  <2>2. held \subseteq held'
    BY <1>3
  <2>3. \A g \in Handlers : Fair(req[g])
    BY DEF IInv, RequestInv
  <2> QED BY <1>6, <2>1, <2>2, <2>3 DEF Fair, Gone, RequestInv
<1>12. SkipInv'
  <2>1. req'[h] = r /\ \A g \in Handlers : g # h => req'[g] = req[g]
    BY <1>3 DEF IInv, TypeOK
  <2>2. ASSUME NEW g \in Handlers, g # h, req[g].skip, req[g].pc \in Claiming, g \notin renamed'
        PROVE  ~HasNickname(req[g].user)'
    <3>1. req[g].user # u /\ req[g].user \in Accounts /\ ~HasNickname(req[g].user)
      BY <1>3, <2>2 DEF IInv, SkipInv, RequestInv, Fair, Claiming
    <3>2. users'[req[g].user] = users[req[g].user] /\ req'[g] = req[g]
      BY <1>8, <2>1, <2>2, <3>1
    <3> QED BY <3>1, <3>2 DEF HasNickname
  <2> QED BY <1>6, <2>1, <2>2 DEF SkipInv, HasNickname, Claiming
<1>13. NameIsLastClaimed'
  BY <1>1, <1>3 DEF IInv, TypeOK, NameIsLastClaimed
<1> QED BY <1>7, <1>9, <1>10, <1>11, <1>12, <1>13 DEF IInv

\* The save of a sign-in leaves the name columns out.
LEMMA SaveUserStep ==
  ASSUME IInv, NEW h \in Handlers, SaveUser(h)
  PROVE  IInv'
  BY AnswerStep DEF SaveUser, At, Answers, IInv, TypeOK

\* A store call fails.
LEMMA FailStep ==
  ASSUME IInv, NEW h \in Handlers, Fail(h)
  PROVE  IInv'
<1>1. sent' \in 0..MaxRequests /\ faults' \in 0..MaxFaults
  BY BoundType DEF Fail, IInv, TypeOK
<1>2. Answer(h, "no suggestion") \/ Answer(h, "failed")
  BY DEF Fail
<1> QED BY <1>1, <1>2, AnswerStep DEF Fail, Busy, At, Answers

\* A crash ends every request, and leaves the table.
LEMMA CrashStep ==
  ASSUME IInv, Crash
  PROVE  IInv'
<1> USE DEF IInv, Crash
<1>1. faults' \in 0..MaxFaults
  BY BoundType DEF TypeOK
<1>2. TypeOK'
  BY <1>1, IdleType DEF TypeOK
<1>3. TableInv' /\ UniqueInv' /\ NameIsLastClaimed'
  BY DEF TableInv, UniqueInv, NameIsLastClaimed, HasNickname
<1>4. RequestInv' /\ SkipInv'
  BY DEF RequestInv, SkipInv, Fair, Claiming, Idle
<1> QED BY <1>2, <1>3, <1>4

\* The response is written.
LEMMA ReplyStep ==
  ASSUME IInv, NEW h \in Handlers, Reply(h)
  PROVE  IInv'
<1> USE DEF IInv
<1>1. req' = [req EXCEPT ![h] = Idle] /\ UNCHANGED <<users, sent, faults, claimed, held>>
  BY DEF Reply, Go
<1>2. TypeOK'
  BY <1>1, IdleType DEF TypeOK, Reply
<1>3. TableInv' /\ UniqueInv' /\ NameIsLastClaimed'
  BY <1>1 DEF TableInv, UniqueInv, NameIsLastClaimed, HasNickname
<1>4. req'[h] = Idle /\ \A g \in Handlers : g # h => req'[g] = req[g]
  BY <1>1 DEF TypeOK
<1>5. Fair(Idle)' /\ Idle.pc = "idle"
  BY DEF Fair, Claiming, Idle
<1>6. RequestInv'
  BY <1>1, <1>4, <1>5 DEF RequestInv, Fair, Gone
<1>7. SkipInv'
  BY <1>1, <1>4, <1>5 DEF SkipInv, Reply, HasNickname, Claiming
<1> QED BY <1>2, <1>3, <1>6, <1>7

\* Nothing is in flight: what was held before matters to no request.
LEMMA LullStep ==
  ASSUME IInv, Lull
  PROVE  IInv'
<1> USE DEF IInv, Lull
<1>1. \A u \in Accounts : HasNickname(u) => FoldOf[users[u].nickname] \in Range(FoldOf)
  BY NamesAssumption DEF HasNickname, TypeOK, Range
<1>2. TypeOK'
  BY <1>1, IdleType DEF TypeOK
<1>3. TableInv'
  BY <1>1 DEF TableInv, HasNickname
<1>4. UniqueInv' /\ NameIsLastClaimed' /\ SkipInv'
  BY DEF UniqueInv, NameIsLastClaimed, SkipInv, HasNickname
<1>5. RequestInv'
  BY DEF RequestInv, Fair, At, Claiming
<1> QED BY <1>2, <1>3, <1>4, <1>5

-----------------------------------------------------------------------------
(* The theorems.                                                           *)

\* The parts hold together in every state.
LEMMA Invariance == Spec => []IInv
<1>1. Init => IInv
  <2> SUFFICES ASSUME Init PROVE IInv OBVIOUS
  <2>1. TypeOK
    BY IdleType DEF Init, TypeOK
  <2> QED BY <2>1 DEF Init, IInv, TableInv, UniqueInv, RequestInv, SkipInv, NameIsLastClaimed,
                      HasNickname, Fair, Claiming, Idle
<1>2. IInv /\ [Next]_vars => IInv'
  <2> SUFFICES ASSUME IInv, [Next]_vars PROVE IInv' OBVIOUS
  <2>1. ASSUME NEW h \in Handlers, NEW u \in Accounts, Me(h, u) \/ SignIn(h, u) PROVE IInv'
    BY <2>1, MeStep, SignInStep
  <2>2. ASSUME NEW h \in Handlers, NEW u \in Accounts, NEW name \in Typed \cup {None},
               PostNickname(h, u, name) \/ PostSkip(h, u, name)
        PROVE  IInv'
    BY <2>2, PostNicknameStep, PostSkipStep, NamesAssumption
  <2>3. ASSUME NEW h \in Handlers, Step(h) \/ Fail(h) PROVE IInv'
    BY <2>3, SuggestStep, GenerateNameStep, LoadAccountStep, ClaimTakenStep, ClaimFreeStep,
       SaveUserStep, ReplyStep, FailStep DEF Step
  <2>4. CASE UNCHANGED vars
    BY <2>4 DEF vars, IInv, TypeOK, TableInv, UniqueInv, RequestInv, SkipInv, NameIsLastClaimed,
            HasNickname, Fair, Gone
  <2> QED BY <2>1, <2>2, <2>3, <2>4, CrashStep, LullStep DEF Next
<1> QED BY <1>1, <1>2, PTL DEF Spec

\* However claims, suggestions, sign-ins, errors and crashes overlap: no two accounts
\* have names that read alike, "taken" is said only of a name that somebody else has
\* had, and a skip gives the name on its button unless that is gone (nickname.go:121,
\* identitybus.go:467, authapp.go:363).
THEOREM ClaimsAreFairHolds == Spec => []ClaimsAreFair
<1>1. IInv => ClaimsAreFair
  BY DEF IInv, TableInv, UniqueInv, RequestInv, Fair, Gone, ClaimsAreFair, At
<1> QED BY <1>1, Invariance, PTL

\* Whatever a sign-in loaded before, its save brings no earlier name back: an account
\* has the name that was claimed last (sqlitedb.go:247).
THEOREM NameIsLastClaimedHolds == Spec => []NameIsLastClaimed
<1>1. IInv => NameIsLastClaimed
  BY DEF IInv
<1> QED BY <1>1, Invariance, PTL

\* The claim of a skip changes the name of an account only if it had none, or got it
\* after the skip had looked (authapp.go:386).
THEOREM SkipKeepsNameHolds == Spec => SkipKeepsName
<1> DEFINE Keeps == \A h \in Handlers : At(h, "claim") /\ req[h].skip =>
                      LET u == req[h].user
                      IN  users'[u] # users[u] => users[u].nickname = None \/ h \in renamed
<1>1. IInv => Keeps
  BY DEF IInv, SkipInv, At, Claiming, HasNickname
<1>2. IInv /\ [Next]_vars => [Keeps]_vars
  BY <1>1
<1> QED BY <1>2, Invariance, PTL DEF Spec, SkipKeepsName

-----------------------------------------------------------------------------
(* Counting and recursion.                                                 *)

\* Some member of a set of naturals is least.
LEMMA LeastNumber == ASSUME NEW T, T \subseteq Nat, T # {} PROVE \E n \in T : \A m \in T : n <= m
<1>1. IsWellFoundedOn(OpToRel(<, Nat), Nat)
  BY NatLessThanWellFounded
<1>2. PICK n \in T : \A m \in T : ~ (<<m, n>> \in OpToRel(<, Nat))
  BY <1>1, WFMin
<1>3. \A m, k \in Nat : m < k => <<m, k>> \in OpToRel(<, Nat)
  BY DEF OpToRel
<1>4. \A m \in T : ~(m < n)
  BY <1>2, <1>3
<1>5. ASSUME NEW m \in T PROVE n <= m
  <2>1. m \in Nat /\ n \in Nat
    OBVIOUS
  <2>2. ~(m < n)
    BY <1>4
  <2> QED BY <2>1, <2>2
<1> QED BY <1>5

\* Induction up to N, over the numbers of a set.
LEMMA Counting ==
  ASSUME NEW N \in Nat, NEW G, 0 \in G, \A n \in 1..N : n - 1 \in G => n \in G
  PROVE  \A n \in 0..N : n \in G
<1> DEFINE Bad == {n \in 0..N : n \notin G}
<1> SUFFICES ASSUME Bad # {} PROVE FALSE
  OBVIOUS
<1>1. Bad \subseteq Nat
  OBVIOUS
<1>2. PICK n \in Bad : \A m \in Bad : n <= m
  BY <1>1, LeastNumber
<1>3. n \in 1..N /\ n - 1 \in 0..N /\ ~(n <= n - 1)
  <2>1. n # 0
    BY <1>2
  <2> QED BY <2>1
<1>4. n - 1 \in G
  BY <1>2, <1>3
<1> QED BY <1>2, <1>3, <1>4

\* N steps, each of which may depend on its number, can be taken from b.
Runs(N, X, b, step) ==
  \E f \in [0..N -> X] : f[0] = b /\ \A n \in 1..N : f[n] = step[n][f[n - 1]]

\* Steps that stay in X can be taken one after the other.
LEMMA Recursion ==
  ASSUME NEW N \in Nat, NEW X, NEW b \in X, NEW step,
         \A n \in 1..N : \A x \in X : step[n][x] \in X
  PROVE  Runs(N, X, b, step)
<1> DEFINE Good(n) == \E f \in [0..n -> X] : f[0] = b /\ \A m \in 1..n : f[m] = step[m][f[m - 1]]
           G == {n \in 0..N : Good(n)}
<1>1. 0 \in G
  <2>1. PICK f : f = [m \in 0..0 |-> b]
    OBVIOUS
  <2>2. f \in [0..0 -> X] /\ f[0] = b /\ \A m \in 1..0 : f[m] = step[m][f[m - 1]]
    BY <2>1
  <2> QED BY <2>2
<1>2. ASSUME NEW n \in 1..N, n - 1 \in G PROVE n \in G
  <2>1. PICK f \in [0..(n - 1) -> X] : f[0] = b /\ \A m \in 1..(n - 1) : f[m] = step[m][f[m - 1]]
    BY <1>2
  <2>2. PICK x \in X : x = step[n][f[n - 1]]
    <3>1. n - 1 \in 0..(n - 1)
      OBVIOUS
    <3>2. f[n - 1] \in X
      BY <3>1
    <3> QED BY <3>2
  <2>3. PICK g : g = [m \in 0..n |-> IF m = n THEN x ELSE f[m]]
    OBVIOUS
  <2>4. g \in [0..n -> X] /\ g[n] = x /\ \A m \in 0..(n - 1) : g[m] = f[m]
    BY <2>3
  <2>5. g[0] = b
    BY <2>1, <2>4
  <2>6. ASSUME NEW m \in 1..n PROVE g[m] = step[m][g[m - 1]]
    <3>1. g[m - 1] = f[m - 1]
      BY <2>4
    <3>2. CASE m = n
      BY <3>1, <3>2, <2>2, <2>4
    <3>3. CASE m # n
      <4>1. m \in 1..(n - 1)
        BY <3>3
      <4> QED BY <4>1, <3>1, <2>1, <2>4
    <3> QED BY <3>2, <3>3
  <2>7. Good(n)
    BY <2>4, <2>5, <2>6
  <2> QED BY <2>7
<1> HIDE DEF Good
<1>3. N \in G
  <2> HIDE DEF G
  <2>1. \A n \in 0..N : n \in G
    BY <1>1, <1>2, Counting
  <2> QED BY <2>1
<1> QED BY <1>3 DEF Good, Runs

-----------------------------------------------------------------------------
(* Sequences put together from sequences.                                  *)

\* What is appended to the second part is appended to the whole.
LEMMA AppendOfConcat ==
  ASSUME NEW S, NEW s \in Seq(S), NEW t \in Seq(S), NEW e \in S
  PROVE  s \o Append(t, e) = Append(s \o t, e)
<1>1. Append(t, e) = t \o <<e>> /\ s \o t \in Seq(S) /\ <<e>> \in Seq(S)
  BY AppendIsConcat, ConcatProperties
<1>2. Append(s \o t, e) = (s \o t) \o <<e>>
  BY <1>1, AppendIsConcat
<1>3. (s \o t) \o <<e>> = s \o (t \o <<e>>)
  BY <1>1, ConcatAssociative
<1> QED BY <1>1, <1>2, <1>3

\* FlattenSeq is the last of the partial concatenations.
LEMMA FlattenIs ==
  ASSUME NEW R, NEW ws \in Seq(Seq(R)), Len(ws) # 0
  PROVE  \E f : /\ \A i \in 1..Len(ws) : f[i] \in Seq(R)
                /\ f[1] = ws[1] /\ \A i \in 2..Len(ws) : f[i] = f[i - 1] \o ws[i]
                /\ FlattenSeq(ws) = f[Len(ws)]
<1>1. PICK N \in Nat : N = Len(ws) /\ N # 0
  OBVIOUS
<1> DEFINE Eq(f) == f = [i \in 1..Len(ws) |-> IF i = 1 THEN ws[i] ELSE f[i - 1] \o ws[i]]
<1>2. \E f : Eq(f)
  <2>1. PICK step : step = [n \in 1..N |-> [x \in Seq(R) |-> IF n = 1 THEN ws[n] ELSE x \o ws[n]]]
    OBVIOUS
  <2>2. step \in [1..N -> [Seq(R) -> Seq(R)]]
    <3>1. \A n \in 1..N : ws[n] \in Seq(R)
      BY <1>1
    <3>2. \A n \in 1..N, x \in Seq(R) : (IF n = 1 THEN ws[n] ELSE x \o ws[n]) \in Seq(R)
      BY <3>1, ConcatProperties
    <3> QED BY <2>1, <3>2
  <2>3. <<>> \in Seq(R)
    OBVIOUS
  <2>4. PICK h \in [0..N -> Seq(R)] : \A n \in 1..N : h[n] = step[n][h[n - 1]]
    <3>1. \A n \in 1..N : \A x \in Seq(R) : step[n][x] \in Seq(R)
      BY <2>2
    <3>2. Runs(N, Seq(R), <<>>, step)
      BY <2>3, <3>1, Recursion
    <3> QED BY <3>2 DEF Runs
  <2>5. PICK f : f = [i \in 1..N |-> h[i]]
    OBVIOUS
  <2>6. \A i \in 1..N : f[i] = IF i = 1 THEN ws[i] ELSE f[i - 1] \o ws[i]
    <3> TAKE i \in 1..N
    <3>1. f[i] = step[i][h[i - 1]] /\ h[i - 1] \in Seq(R)
      BY <2>4, <2>5
    <3>2. f[i] = IF i = 1 THEN ws[i] ELSE h[i - 1] \o ws[i]
      BY <3>1, <2>1
    <3>3. i # 1 => h[i - 1] = f[i - 1]
      BY <2>5
    <3> QED BY <3>2, <3>3
  <2>7. Eq(f)
    BY <2>5, <2>6, <1>1
  <2> QED BY <2>7
<1>3. PICK f : f = CHOOSE g : Eq(g)
  OBVIOUS
<1>4. Eq(f)
  BY <1>2, <1>3
<1>5. FlattenSeq(ws) = f[Len(ws)]
  BY <1>3 DEF FlattenSeq
<1>6. f[1] = ws[1] /\ \A i \in 2..N : f[i] = f[i - 1] \o ws[i]
  <2>1. f = [i \in 1..N |-> IF i = 1 THEN ws[i] ELSE f[i - 1] \o ws[i]]
    BY <1>1, <1>4
  <2> HIDE DEF Eq
  <2>2. \A i \in 1..N : f[i] = IF i = 1 THEN ws[i] ELSE f[i - 1] \o ws[i]
    BY <2>1
  <2>3. 1 \in 1..N /\ \A i \in 2..N : i \in 1..N /\ i # 1
    BY <1>1
  <2> QED BY <2>2, <2>3
<1>7. \A i \in 1..N : f[i] \in Seq(R)
  <2> DEFINE G == {n \in 0..N : n = 0 \/ f[n] \in Seq(R)}
  <2> HIDE DEF Eq
  <2>1. \A n \in 1..N : ws[n] \in Seq(R)
    BY <1>1
  <2>2. ASSUME NEW n \in 1..N, n - 1 \in G PROVE n \in G
    <3>1. CASE n = 1
      BY <3>1, <2>1, <1>6
    <3>2. CASE n # 1
      <4>1. n \in 2..N /\ n - 1 # 0
        BY <3>2
      <4>2. f[n - 1] \in Seq(R)
        BY <4>1, <2>2
      <4>3. f[n - 1] \o ws[n] \in Seq(R)
        BY <4>2, <2>1, ConcatProperties
      <4>4. f[n] \in Seq(R)
        <5>1. f[n] = f[n - 1] \o ws[n]
          BY <4>1, <1>6
        <5> QED BY <5>1, <4>3
      <4> QED BY <4>4
    <3> QED BY <3>1, <3>2
  <2>3. 0 \in G
    BY <1>1
  <2> HIDE DEF G
  <2>4. \A n \in 0..N : n \in G
    BY <2>2, <2>3, Counting
  <2> QED BY <2>4 DEF G
<1> QED BY <1>1, <1>5, <1>6, <1>7

\* No parts make nothing.
LEMMA FlattenEmpty == FlattenSeq(<<>>) = <<>>
BY DEF FlattenSeq

\* Texts put together are a text.
LEMMA FlattenType ==
  ASSUME NEW R, NEW ws \in Seq(Seq(R))
  PROVE  FlattenSeq(ws) \in Seq(R)
<1>1. CASE Len(ws) = 0
  <2>1. ws = <<>>
    BY <1>1
  <2>2. <<>> \in Seq(R)
    OBVIOUS
  <2> QED BY <2>1, <2>2, FlattenEmpty
<1>2. CASE Len(ws) # 0
  <2>1. Len(ws) \in 1..Len(ws)
    BY <1>2
  <2> QED BY <1>2, <2>1, FlattenIs
<1> QED BY <1>1, <1>2

\* One more part comes at the end.
LEMMA FlattenAppend ==
  ASSUME NEW R, NEW ws \in Seq(Seq(R)), NEW w \in Seq(R)
  PROVE  FlattenSeq(Append(ws, w)) = FlattenSeq(ws) \o w
<1>1. PICK N \in Nat : N = Len(ws)
  OBVIOUS
<1>2. PICK vs \in Seq(Seq(R)) : vs = Append(ws, w)
  BY AppendProperties
<1>3. Len(vs) = N + 1 /\ vs[N + 1] = w /\ \A i \in 1..N : vs[i] = ws[i]
  BY <1>1, <1>2, AppendProperties
<1>4. PICK g : /\ \A i \in 1..(N + 1) : g[i] \in Seq(R)
               /\ g[1] = vs[1] /\ \A i \in 2..(N + 1) : g[i] = g[i - 1] \o vs[i]
               /\ FlattenSeq(vs) = g[N + 1]
  <2>1. Len(vs) # 0 /\ N + 1 = Len(vs)
    BY <1>3
  <2>2. PICK g : /\ \A i \in 1..Len(vs) : g[i] \in Seq(R)
                 /\ g[1] = vs[1] /\ \A i \in 2..Len(vs) : g[i] = g[i - 1] \o vs[i]
                 /\ FlattenSeq(vs) = g[Len(vs)]
    BY <2>1, FlattenIs
  <2> QED BY <2>1, <2>2
<1>5. CASE N = 0
  <2>1. ws = <<>>
    <3>1. Len(ws) = 0
      BY <1>1, <1>5
    <3> QED BY <3>1, EmptySeq
  <2>2. FlattenSeq(vs) = w
    BY <1>3, <1>4, <1>5
  <2> QED BY <2>1, <2>2, <1>2, FlattenEmpty, ConcatEmptySeq
<1>6. CASE N # 0
  <2>1. PICK f : /\ \A i \in 1..N : f[i] \in Seq(R)
                 /\ f[1] = ws[1] /\ \A i \in 2..N : f[i] = f[i - 1] \o ws[i]
                 /\ FlattenSeq(ws) = f[N]
    BY <1>1, <1>6, FlattenIs
  <2> DEFINE G == {n \in 0..N : n = 0 \/ f[n] = g[n]}
  <2>2. ASSUME NEW n \in 1..N, n - 1 \in G PROVE n \in G
    <3>1. CASE n = 1
      BY <3>1, <2>1, <1>3, <1>4
    <3>2. CASE n # 1
      <4>1. n \in 2..N /\ n \in 2..(N + 1) /\ n - 1 # 0
        BY <3>2
      <4>2. f[n] = f[n - 1] \o ws[n] /\ g[n] = g[n - 1] \o vs[n] /\ vs[n] = ws[n]
        BY <4>1, <2>1, <1>3, <1>4
      <4>3. f[n - 1] = g[n - 1]
        BY <4>1, <2>2
      <4>4. f[n] = g[n]
        BY <4>2, <4>3
      <4> QED BY <4>4
    <3> QED BY <3>1, <3>2
  <2>3. 0 \in G
    OBVIOUS
  <2> HIDE DEF G
  <2>4. \A n \in 0..N : n \in G
    BY <2>2, <2>3, Counting
  <2>5. f[N] = g[N]
    BY <2>4, <1>6 DEF G
  <2>6. g[N + 1] = g[N] \o w
    <3>1. PICK M \in Nat : M = N + 1
      OBVIOUS
    <3>2. M \in 2..(N + 1) /\ M - 1 = N
      BY <1>6, <3>1
    <3>3. g[M] = g[M - 1] \o vs[M]
      BY <3>2, <1>4
    <3>4. vs[M] = w
      BY <3>1, <1>3
    <3> QED BY <3>1, <3>2, <3>3, <3>4
  <2> QED BY <2>1, <2>5, <2>6, <1>2, <1>4
<1> QED BY <1>5, <1>6

\* Induction over the sequences of a set, element by element.
LEMMA SeqInduction ==
  ASSUME NEW R, NEW G, <<>> \in G, \A s \in Seq(R) : \A r \in R : s \in G => Append(s, r) \in G
  PROVE  \A s \in Seq(R) : s \in G
<1> SUFFICES ASSUME NEW t \in Seq(R) PROVE t \in G
  OBVIOUS
<1>1. PICK N \in Nat : N = Len(t)
  OBVIOUS
<1> DEFINE K == {n \in 0..N : \A s \in Seq(R) : Len(s) = n => s \in G}
<1>2. 0 \in K
  <2>1. ASSUME NEW s \in Seq(R), Len(s) = 0 PROVE s \in G
    <3>1. s = <<>>
      BY <2>1, EmptySeq
    <3> QED BY <3>1
  <2> QED BY <2>1
<1>3. ASSUME NEW n \in 1..N, n - 1 \in K PROVE n \in K
  <2>1. ASSUME NEW s \in Seq(R), Len(s) = n PROVE s \in G
    <3>1. s # <<>>
      BY <2>1
    <3>2. PICK u \in Seq(R), r \in R : s = Append(u, r)
      BY <3>1, SequenceEmptyOrAppend
    <3>3. Len(u) = n - 1
      BY <3>2, <2>1
    <3>4. u \in G
      BY <3>3, <1>3
    <3> QED BY <3>2, <3>4
  <2> QED BY <2>1
<1> HIDE DEF K
<1>4. \A n \in 0..N : n \in K
  BY <1>2, <1>3, Counting
<1> QED BY <1>1, <1>4 DEF K

-----------------------------------------------------------------------------
(* Sequences spelled element by element.                                   *)

\* s with every element replaced by the sequence F has for it.
Spelled(s, F) == FlattenSeq([i \in DOMAIN s |-> F[s[i]]])

\* An image of a sequence is extended as the sequence is.
LEMMA MapAppend ==
  ASSUME NEW R, NEW Q, NEW F, \A r \in R : F[r] \in Q, NEW s \in Seq(R), NEW r \in R
  PROVE  /\ [i \in DOMAIN s |-> F[s[i]]] \in Seq(Q)
         /\ [i \in DOMAIN Append(s, r) |-> F[Append(s, r)[i]]] =
              Append([i \in DOMAIN s |-> F[s[i]]], F[r])
<1>1. PICK N \in Nat : N = Len(s)
  OBVIOUS
<1>2. PICK t : t = [i \in 1..N |-> F[s[i]]]
  OBVIOUS
<1>3. \A i \in 1..N : F[s[i]] \in Q
  BY <1>1
<1>4. t \in Seq(Q) /\ Len(t) = N
  BY <1>2, <1>3
<1>5. PICK v \in Seq(R) : v = Append(s, r)
  BY AppendProperties
<1>6. DOMAIN v = 1..(N + 1) /\ v[N + 1] = r /\ \A i \in 1..N : v[i] = s[i]
  BY <1>1, <1>5, AppendProperties
<1>7. PICK q \in Q : q = F[r]
  OBVIOUS
<1>8. PICK w \in Seq(Q) : w = Append(t, q)
  BY <1>4, AppendProperties
<1>9. Len(w) = N + 1 /\ w[N + 1] = q /\ \A i \in 1..N : w[i] = t[i]
  BY <1>4, <1>8
<1>10. PICK x : x = [i \in 1..(N + 1) |-> F[v[i]]]
  OBVIOUS
<1>11. x \in Seq(Q) /\ Len(x) = N + 1
  <2>1. \A i \in 1..(N + 1) : F[v[i]] \in Q
    BY <1>3, <1>6
  <2> QED BY <2>1, <1>10
<1>12. \A i \in 1..(N + 1) : x[i] = w[i]
  <2> TAKE i \in 1..(N + 1)
  <2>1. x[i] = F[v[i]]
    BY <1>10
  <2>2. CASE i = N + 1
    BY <2>1, <2>2, <1>6, <1>7, <1>9
  <2>3. CASE i # N + 1
    <3>1. i \in 1..N
      BY <2>3
    <3> QED BY <3>1, <2>1, <1>2, <1>6, <1>9
  <2> QED BY <2>2, <2>3
<1>13. x = w
  BY <1>8, <1>9, <1>11, <1>12, SeqEqual
<1>14. DOMAIN s = 1..N
  BY <1>1
<1> QED BY <1>2, <1>4, <1>5, <1>6, <1>7, <1>8, <1>10, <1>13, <1>14

\* Nothing spells nothing.
LEMMA SpelledEmpty == ASSUME NEW F PROVE Spelled(<<>>, F) = <<>>
<1>1. PICK t : t = [i \in DOMAIN <<>> |-> F[<<>>[i]]]
  OBVIOUS
<1>2. t = <<>>
  BY <1>1
<1> QED BY <1>1, <1>2, FlattenEmpty DEF Spelled

\* F has a sequence for every element.
Spells(F, R, Q) == \A r \in R : F[r] \in Seq(Q)

\* One more element is spelled at the end.
LEMMA SpelledAppend ==
  ASSUME NEW R, NEW Q, NEW F, Spells(F, R, Q), NEW s \in Seq(R), NEW r \in R
  PROVE  /\ Spelled(s, F) \in Seq(Q)
         /\ Spelled(Append(s, r), F) = Spelled(s, F) \o F[r]
<1>1. PICK X : X = Seq(Q)
  OBVIOUS
<1>2. \A x \in R : F[x] \in X
  BY <1>1 DEF Spells
<1>3. PICK t : t = [i \in DOMAIN s |-> F[s[i]]]
  OBVIOUS
<1>4. t \in Seq(X) /\ [i \in DOMAIN Append(s, r) |-> F[Append(s, r)[i]]] = Append(t, F[r])
  <2>1. [i \in DOMAIN s |-> F[s[i]]] \in Seq(X)
    BY <1>2, MapAppend
  <2>2. [i \in DOMAIN Append(s, r) |-> F[Append(s, r)[i]]] =
          Append([i \in DOMAIN s |-> F[s[i]]], F[r])
    BY <1>2, MapAppend
  <2> QED BY <2>1, <2>2, <1>3
<1>5. t \in Seq(Seq(Q)) /\ F[r] \in Seq(Q)
  BY <1>1, <1>4 DEF Spells
<1>6. FlattenSeq(t) \in Seq(Q) /\ FlattenSeq(Append(t, F[r])) = FlattenSeq(t) \o F[r]
  BY <1>5, FlattenType, FlattenAppend
<1> QED BY <1>3, <1>4, <1>6 DEF Spelled

\* What is spelled is a sequence of the spelling's elements.
LEMMA SpelledType ==
  ASSUME NEW R, NEW Q, NEW F, Spells(F, R, Q), NEW s \in Seq(R)
  PROVE  Spelled(s, F) \in Seq(Q)
<1>1. CASE s = <<>>
  <2>1. <<>> \in Seq(Q)
    OBVIOUS
  <2> QED BY <1>1, <2>1, SpelledEmpty
<1>2. CASE s # <<>>
  <2>1. PICK u \in Seq(R), r \in R : s = Append(u, r)
    BY <1>2, SequenceEmptyOrAppend
  <2> QED BY <2>1, SpelledAppend
<1> QED BY <1>1, <1>2

\* A single element is spelled as F says.
LEMMA SpelledOne ==
  ASSUME NEW R, NEW Q, NEW F, Spells(F, R, Q), NEW r \in R
  PROVE  Spelled(<<r>>, F) = F[r]
<1>1. <<>> \in Seq(R) /\ Append(<<>>, r) = <<r>>
  OBVIOUS
<1>2. Spelled(Append(<<>>, r), F) = Spelled(<<>>, F) \o F[r]
  <2>1. \A u \in Seq(R) : Spelled(Append(u, r), F) = Spelled(u, F) \o F[r]
    BY SpelledAppend
  <2> QED BY <1>1, <2>1
<1>3. <<>> \o F[r] = F[r]
  BY ConcatEmptySeq DEF Spells
<1> QED BY <1>1, <1>2, <1>3, SpelledEmpty

\* F spells s \o t part by part.
Splits(s, t, F) == Spelled(s \o t, F) = Spelled(s, F) \o Spelled(t, F)

\* A spelling that is taken apart after t is taken apart after one more element.
LEMMA SpelledConcatStep ==
  ASSUME NEW R, NEW Q, NEW F, Spells(F, R, Q),
         NEW s \in Seq(R), NEW t \in Seq(R), NEW r \in R,
         Splits(s, t, F)
  PROVE  Splits(s, Append(t, r), F)
<1>1. s \o Append(t, r) = Append(s \o t, r) /\ s \o t \in Seq(R)
  BY AppendOfConcat, ConcatProperties
<1>2. Spelled(Append(s \o t, r), F) = Spelled(s \o t, F) \o F[r]
  <2>1. \A u \in Seq(R) : Spelled(Append(u, r), F) = Spelled(u, F) \o F[r]
    BY SpelledAppend
  <2> QED BY <1>1, <2>1
<1>3. PICK x \in Seq(Q) : x = Spelled(s, F)
  BY SpelledType
<1>4. PICK y \in Seq(Q) : y = Spelled(t, F)
  BY SpelledType
<1>5. PICK z \in Seq(Q) : z = F[r]
  BY DEF Spells
<1>6. (x \o y) \o z = x \o (y \o z)
  BY ConcatAssociative
<1>7. Spelled(Append(t, r), F) = y \o z
  <2>1. Spelled(Append(t, r), F) = Spelled(t, F) \o F[r]
    BY SpelledAppend
  <2> QED BY <1>4, <1>5, <2>1
<1> QED BY <1>1, <1>2, <1>3, <1>4, <1>5, <1>6, <1>7 DEF Splits

\* Spelling is done part by part.
LEMMA SpelledConcat ==
  ASSUME NEW R, NEW Q, NEW F, Spells(F, R, Q), NEW s \in Seq(R), NEW t \in Seq(R)
  PROVE  Splits(s, t, F)
<1> DEFINE G == {u \in Seq(R) : Splits(s, u, F)}
<1>1. <<>> \in G
  <2>1. <<>> \in Seq(R)
    OBVIOUS
  <2>2. s \o <<>> = s
    BY ConcatEmptySeq
  <2>3. Spelled(s, F) \o <<>> = Spelled(s, F)
    BY SpelledType, ConcatEmptySeq
  <2>4. Splits(s, <<>>, F)
    BY <2>2, <2>3, SpelledEmpty DEF Splits
  <2> QED BY <2>1, <2>4
<1>2. \A u \in Seq(R) : \A r \in R : u \in G => Append(u, r) \in G
  <2> SUFFICES ASSUME NEW u \in Seq(R), NEW r \in R, u \in G PROVE Append(u, r) \in G
    OBVIOUS
  <2>1. Splits(s, Append(u, r), F)
    BY SpelledConcatStep
  <2>2. Append(u, r) \in Seq(R)
    BY AppendProperties
  <2> QED BY <2>1, <2>2
<1> HIDE DEF G
<1>3. t \in G
  BY <1>1, <1>2, SeqInduction
<1> QED BY <1>3 DEF G

\* Spellings that agree on the elements agree on the sequence.
LEMMA SpelledSame ==
  ASSUME NEW R, NEW F, NEW H, \A r \in R : F[r] = H[r], NEW s \in Seq(R)
  PROVE  Spelled(s, F) = Spelled(s, H)
<1>1. \A i \in DOMAIN s : F[s[i]] = H[s[i]]
  OBVIOUS
<1>2. [i \in DOMAIN s |-> F[s[i]]] = [i \in DOMAIN s |-> H[s[i]]]
  BY <1>1
<1> QED BY <1>2 DEF Spelled

\* K spells as F does and then H does that again.
Composes(K, F, H, R) == \A r \in R : K[r] = Spelled(F[r], H)

\* Two spellings in a row are one.
LEMMA SpelledTwice ==
  ASSUME NEW R, NEW Q, NEW P, NEW F, NEW H, NEW K,
         Spells(F, R, Q), Spells(H, Q, P),
         Composes(K, F, H, R), NEW s \in Seq(R)
  PROVE  Spelled(Spelled(s, F), H) = Spelled(s, K)
<1> DEFINE Good(u) == Spelled(Spelled(u, F), H) = Spelled(u, K)
           G == {u \in Seq(R) : Good(u)}
<1>1. <<>> \in G
  <2>1. <<>> \in Seq(R)
    OBVIOUS
  <2> QED BY <2>1, SpelledEmpty
<1>2. \A u \in Seq(R) : \A r \in R : u \in G => Append(u, r) \in G
  <2> SUFFICES ASSUME NEW u \in Seq(R), NEW r \in R, u \in G PROVE Append(u, r) \in G
    OBVIOUS
  <2>1. Spelled(Append(u, r), F) = Spelled(u, F) \o F[r]
    BY SpelledAppend
  <2>2. Spelled(u, F) \in Seq(Q) /\ F[r] \in Seq(Q)
    BY SpelledType DEF Spells
  <2>3. Spelled(Spelled(u, F) \o F[r], H) = Spelled(Spelled(u, F), H) \o Spelled(F[r], H)
    <3>1. \A x, y \in Seq(Q) : Spelled(x \o y, H) = Spelled(x, H) \o Spelled(y, H)
      <4>1. \A x, y \in Seq(Q) : Splits(x, y, H)
        BY SpelledConcat
      <4> QED BY <4>1 DEF Splits
    <3> QED BY <2>2, <3>1
  <2>4. Spells(K, R, P)
    BY SpelledType DEF Spells, Composes
  <2>5. Spelled(Append(u, r), K) = Spelled(u, K) \o K[r]
    BY <2>4, SpelledAppend
  <2>6. Good(Append(u, r))
    BY <2>1, <2>3, <2>5 DEF Composes
  <2>7. Append(u, r) \in Seq(R)
    BY AppendProperties
  <2> QED BY <2>6, <2>7
<1> HIDE DEF G
<1>3. s \in G
  BY <1>1, <1>2, SeqInduction
<1> QED BY <1>3 DEF G

-----------------------------------------------------------------------------
(* Lowering and dropping runes are spellings.                              *)

\* Without, Lowered and the two in a row, as spellings.
Drop(X) == [r \in Text!Runes |-> IF r \in X THEN <<>> ELSE <<r>>]
Lower == [r \in Text!Runes |-> CASE r = "E" -> <<"e">> [] r = "sz" -> <<"s", "s">> [] OTHER -> <<r>>]
Bare(X) == [r \in Text!Runes |-> Spelled(Lower[r], Drop(X))]

\* The runes that the rules name are runes.
LEMMA RunesAre ==
  /\ Text!Separators \subseteq Text!Runes /\ Text!Spaces \subseteq Text!Runes
  /\ Text!Letters \subseteq Text!Runes /\ {"e", "E", "r", "s", "sz", " ", "-", "nbsp"} \subseteq Text!Runes
  BY DEF Text!Runes, Text!Separators, Text!Spaces, Text!Letters

\* Naming's copy of FlattenSeq is FlattenSeq.
LEMMA SameFlatten == ASSUME NEW ws PROVE Text!FlattenSeq(ws) = FlattenSeq(ws)
  BY DEF Text!FlattenSeq, FlattenSeq

\* Without spells every rune.
LEMMA DropType == ASSUME NEW X PROVE Spells(Drop(X), Text!Runes, Text!Runes)
<1> SUFFICES ASSUME NEW r \in Text!Runes PROVE Drop(X)[r] \in Seq(Text!Runes)
  BY DEF Spells
<1>1. <<r>> \in Seq(Text!Runes) /\ <<>> \in Seq(Text!Runes)
  OBVIOUS
<1> QED BY <1>1 DEF Drop

\* Lowered spells every rune.
LEMMA LowerType == Spells(Lower, Text!Runes, Text!Runes)
<1> SUFFICES ASSUME NEW r \in Text!Runes PROVE Lower[r] \in Seq(Text!Runes)
  BY DEF Spells
<1>1. "e" \in Text!Runes /\ "s" \in Text!Runes
  BY RunesAre
<1>2. <<r>> \in Seq(Text!Runes) /\ <<"e">> \in Seq(Text!Runes) /\ <<"s", "s">> \in Seq(Text!Runes)
  BY <1>1
<1>3. CASE r = "E"
  BY <1>2, <1>3 DEF Lower
<1>4. CASE r = "sz"
  BY <1>2, <1>4 DEF Lower
<1>5. CASE r # "E" /\ r # "sz"
  BY <1>2, <1>5 DEF Lower
<1> QED BY <1>3, <1>4, <1>5

\* So do the two in a row.
LEMMA BareType == ASSUME NEW X PROVE Spells(Bare(X), Text!Runes, Text!Runes)
<1> SUFFICES ASSUME NEW r \in Text!Runes PROVE Bare(X)[r] \in Seq(Text!Runes)
  BY DEF Spells
<1>1. Lower[r] \in Seq(Text!Runes)
  BY LowerType DEF Spells
<1>2. Spelled(Lower[r], Drop(X)) \in Seq(Text!Runes)
  BY <1>1, DropType, SpelledType
<1> QED BY <1>2 DEF Bare

\* Without is that spelling, and yields a text.
LEMMA WithoutIs ==
  ASSUME NEW s \in Seq(Text!Runes), NEW X
  PROVE  /\ Text!Without(s, X) = Spelled(s, Drop(X))
         /\ Text!Without(s, X) \in Seq(Text!Runes)
<1>1. \A i \in DOMAIN s : Drop(X)[s[i]] = IF s[i] \in X THEN <<>> ELSE <<s[i]>>
  <2> TAKE i \in DOMAIN s
  <2>1. s[i] \in Text!Runes
    OBVIOUS
  <2> QED BY <2>1 DEF Drop
<1>2. [i \in DOMAIN s |-> Drop(X)[s[i]]] = [i \in DOMAIN s |-> IF s[i] \in X THEN <<>> ELSE <<s[i]>>]
  BY <1>1
<1>3. Text!Without(s, X) = Spelled(s, Drop(X))
  BY <1>2, SameFlatten DEF Text!Without, Spelled
<1> QED BY <1>3, DropType, SpelledType

\* Lowered is that spelling, and yields a text.
LEMMA LoweredIs ==
  ASSUME NEW s \in Seq(Text!Runes)
  PROVE  /\ Text!Lowered(s) = Spelled(s, Lower)
         /\ Text!Lowered(s) \in Seq(Text!Runes)
<1>1. \A i \in DOMAIN s : Lower[s[i]] = CASE s[i] = "E" -> <<"e">>
                                          [] s[i] = "sz" -> <<"s", "s">>
                                          [] OTHER -> <<s[i]>>
  <2> TAKE i \in DOMAIN s
  <2>1. s[i] \in Text!Runes
    OBVIOUS
  <2> QED BY <2>1 DEF Lower
<1>2. [i \in DOMAIN s |-> Lower[s[i]]] =
      [i \in DOMAIN s |-> CASE s[i] = "E" -> <<"e">>
                            [] s[i] = "sz" -> <<"s", "s">>
                            [] OTHER -> <<s[i]>>]
  BY <1>1
<1>3. Text!Lowered(s) = Spelled(s, Lower)
  BY <1>2, SameFlatten DEF Text!Lowered, Spelled
<1> QED BY <1>3, LowerType, SpelledType

\* What is left of a lowered text is that spelling.
LEMMA BareIs ==
  ASSUME NEW s \in Seq(Text!Runes), NEW X
  PROVE  Text!Without(Text!Lowered(s), X) = Spelled(s, Bare(X))
<1>1. Text!Without(Text!Lowered(s), X) = Spelled(Spelled(s, Lower), Drop(X))
  BY LoweredIs, WithoutIs
<1>2. Composes(Bare(X), Lower, Drop(X), Text!Runes)
  BY DEF Bare, Composes
<1> QED BY <1>1, <1>2, LowerType, DropType, SpelledTwice

-----------------------------------------------------------------------------
(* Words joined by spaces.                                                 *)

\* A rune is a text.
LEMMA OneIsText == ASSUME NEW r \in Text!Runes PROVE <<r>> \in Seq(Text!Runes)
  OBVIOUS

\* A space is a text.
LEMMA SpaceIsText == <<" ">> \in Seq(Text!Runes)
<1>1. PICK r \in Text!Runes : r = " "
  BY RunesAre
<1>2. <<r>> \in Seq(Text!Runes)
  OBVIOUS
<1> QED BY <1>1, <1>2

\* A sequence one longer than t that begins as t does is t with one more element.
LEMMA AppendIs ==
  ASSUME NEW Q, NEW t \in Seq(Q), NEW q \in Q, NEW x, x \in Seq(Q), Len(x) = Len(t) + 1,
         x[Len(t) + 1] = q, \A i \in 1..Len(t) : x[i] = t[i]
  PROVE  x = Append(t, q)
<1>1. PICK N \in Nat : N = Len(t)
  OBVIOUS
<1>2. PICK w \in Seq(Q) : w = Append(t, q)
  BY AppendProperties
<1>3. Len(w) = N + 1 /\ w[N + 1] = q /\ \A i \in 1..N : w[i] = t[i]
  BY <1>1, <1>2, AppendProperties
<1>4. \A i \in 1..(N + 1) : x[i] = w[i]
  <2> TAKE i \in 1..(N + 1)
  <2>1. CASE i = N + 1
    BY <2>1, <1>1, <1>3
  <2>2. CASE i # N + 1
    <3>1. i \in 1..N
      BY <2>2
    <3> QED BY <3>1, <1>1, <1>3
  <2> QED BY <2>1, <2>2
<1> QED BY <1>1, <1>2, <1>3, <1>4, SeqEqual

\* The parts that Join puts together.
Spaced(ws) == [i \in DOMAIN ws |-> IF i = 1 THEN ws[i] ELSE <<" ">> \o ws[i]]

\* They are as many as the words, and texts.
LEMMA SpacedType ==
  ASSUME NEW ws \in Seq(Seq(Text!Runes))
  PROVE  Spaced(ws) \in Seq(Seq(Text!Runes)) /\ Len(Spaced(ws)) = Len(ws)
<1>1. PICK N \in Nat : N = Len(ws)
  OBVIOUS
<1>2. DOMAIN ws = 1..N /\ \A i \in 1..N : ws[i] \in Seq(Text!Runes)
  BY <1>1
<1>3. <<" ">> \in Seq(Text!Runes)
  BY SpaceIsText
<1>4. \A i \in 1..N : <<" ">> \o ws[i] \in Seq(Text!Runes)
  BY <1>2, <1>3, ConcatProperties
<1>5. \A i \in 1..N : (IF i = 1 THEN ws[i] ELSE <<" ">> \o ws[i]) \in Seq(Text!Runes)
  BY <1>2, <1>4
<1>6. PICK x : x = [i \in 1..N |-> IF i = 1 THEN ws[i] ELSE <<" ">> \o ws[i]]
  OBVIOUS
<1>7. x \in Seq(Seq(Text!Runes)) /\ Len(x) = N
  <2>1. PICK Q : Q = Seq(Text!Runes)
    OBVIOUS
  <2>2. \A i \in 1..N : x[i] \in Q
    BY <1>5, <1>6, <2>1
  <2>3. DOMAIN x = 1..N /\ x = [i \in 1..N |-> x[i]]
    BY <1>6
  <2>4. x \in Seq(Q) /\ Len(x) = N
    BY <2>2, <2>3
  <2> QED BY <2>1, <2>4
<1> QED BY <1>1, <1>2, <1>6, <1>7 DEF Spaced

\* One more word is one more part.
LEMMA SpacedAppend ==
  ASSUME NEW ws \in Seq(Seq(Text!Runes)), NEW w \in Seq(Text!Runes)
  PROVE  Spaced(Append(ws, w)) = Append(Spaced(ws), IF ws = <<>> THEN w ELSE <<" ">> \o w)
<1>1. PICK Q : Q = Seq(Text!Runes)
  OBVIOUS
<1>2. PICK N \in Nat : N = Len(ws)
  OBVIOUS
<1>3. PICK v \in Seq(Q) : v = Append(ws, w)
  BY <1>1, AppendProperties
<1>4. Len(v) = N + 1 /\ v[N + 1] = w /\ \A i \in 1..N : v[i] = ws[i]
  BY <1>1, <1>2, <1>3, AppendProperties
<1>5. PICK x \in Seq(Q) : x = Spaced(v) /\ Len(x) = N + 1
  BY <1>1, <1>3, <1>4, SpacedType
<1>6. PICK t \in Seq(Q) : t = Spaced(ws) /\ Len(t) = N
  BY <1>1, <1>2, SpacedType
<1>7. PICK q : q = IF ws = <<>> THEN w ELSE <<" ">> \o w
  OBVIOUS
<1>8. q \in Q
  <2>1. <<" ">> \in Seq(Text!Runes)
    BY SpaceIsText
  <2>2. <<" ">> \o w \in Seq(Text!Runes)
    BY <2>1, ConcatProperties
  <2> QED BY <1>1, <1>7, <2>2
<1>9. \A i \in 1..N : x[i] = t[i]
  <2> TAKE i \in 1..N
  <2>1. i \in DOMAIN v /\ i \in DOMAIN ws
    BY <1>1, <1>2, <1>3, <1>4
  <2>2. x[i] = IF i = 1 THEN v[i] ELSE <<" ">> \o v[i]
    BY <2>1, <1>5 DEF Spaced
  <2>3. t[i] = IF i = 1 THEN ws[i] ELSE <<" ">> \o ws[i]
    BY <2>1, <1>6 DEF Spaced
  <2> QED BY <2>2, <2>3, <1>4
<1>10. x[N + 1] = q
  <2>1. N + 1 \in DOMAIN v
    BY <1>1, <1>3, <1>4
  <2>2. x[N + 1] = IF N + 1 = 1 THEN v[N + 1] ELSE <<" ">> \o v[N + 1]
    BY <2>1, <1>5 DEF Spaced
  <2>3. N + 1 = 1 <=> ws = <<>>
    BY <1>2, EmptySeq
  <2> QED BY <2>2, <2>3, <1>4, <1>7
<1>11. x = Append(t, q)
  BY <1>5, <1>6, <1>8, <1>9, <1>10, AppendIs
<1> QED BY <1>3, <1>5, <1>6, <1>7, <1>11

\* Joined words are a text.
LEMMA JoinType == ASSUME NEW ws \in Seq(Seq(Text!Runes)) PROVE Text!Join(ws) \in Seq(Text!Runes)
<1>1. Text!Join(ws) = FlattenSeq(Spaced(ws))
  BY SameFlatten DEF Text!Join, Spaced
<1> QED BY <1>1, SpacedType, FlattenType

\* No words join to nothing.
LEMMA JoinEmpty == Text!Join(<<>>) = <<>>
<1>1. PICK x : x = Spaced(<<>>)
  OBVIOUS
<1>2. x = <<>>
  BY <1>1 DEF Spaced
<1> QED BY <1>1, <1>2, FlattenEmpty, SameFlatten DEF Text!Join, Spaced

\* One more word comes after a space, unless it is the first.
LEMMA JoinAppend ==
  ASSUME NEW ws \in Seq(Seq(Text!Runes)), NEW w \in Seq(Text!Runes)
  PROVE  /\ ws = <<>> => Text!Join(Append(ws, w)) = w
         /\ ws # <<>> => Text!Join(Append(ws, w)) = Text!Join(ws) \o (<<" ">> \o w)
<1>1. PICK q \in Seq(Text!Runes) : q = IF ws = <<>> THEN w ELSE <<" ">> \o w
  <2>1. <<" ">> \in Seq(Text!Runes)
    BY SpaceIsText
  <2>2. <<" ">> \o w \in Seq(Text!Runes)
    BY <2>1, ConcatProperties
  <2> QED BY <2>2
<1>2. PICK x \in Seq(Seq(Text!Runes)) : x = Spaced(ws)
  BY SpacedType
<1>3. Text!Join(Append(ws, w)) = FlattenSeq(Append(x, q))
  <2>1. Text!Join(Append(ws, w)) = FlattenSeq(Spaced(Append(ws, w)))
    BY SameFlatten DEF Text!Join, Spaced
  <2>2. Spaced(Append(ws, w)) = Append(x, q)
    BY <1>1, <1>2, SpacedAppend
  <2> QED BY <2>1, <2>2
<1>4. FlattenSeq(Append(x, q)) = FlattenSeq(x) \o q
  BY FlattenAppend
<1>5. Text!Join(ws) = FlattenSeq(x)
  BY <1>2, SameFlatten DEF Text!Join, Spaced
<1>6. CASE ws = <<>>
  <2>1. FlattenSeq(x) = <<>>
    BY <1>5, <1>6, JoinEmpty
  <2>2. <<>> \o q = q
    BY ConcatEmptySeq
  <2> QED BY <2>1, <2>2, <1>1, <1>3, <1>4, <1>6
<1>7. CASE ws # <<>>
  BY <1>1, <1>3, <1>4, <1>5, <1>7
<1> QED BY <1>6, <1>7

-----------------------------------------------------------------------------
(* Scans.                                                                  *)

\* What a scan holds.
Scans == [words : Seq(Seq(Text!Runes)), word : Seq(Text!Runes)]

\* Its words are texts.
LEMMA EndedType == ASSUME NEW sc \in Scans PROVE Text!Ended(sc) \in Seq(Seq(Text!Runes))
<1>1. sc.words \in Seq(Seq(Text!Runes)) /\ sc.word \in Seq(Text!Runes)
  BY DEF Scans
<1>2. Append(sc.words, sc.word) \in Seq(Seq(Text!Runes))
  BY <1>1, AppendProperties
<1> QED BY <1>1, <1>2 DEF Text!Ended

\* One step of a scan.
Scanned(sc, r, seps) ==
  IF r \in seps THEN [words |-> Text!Ended(sc), word |-> <<>>]
                ELSE [words |-> sc.words, word |-> Append(sc.word, r)]

\* A step of a scan yields a scan.
LEMMA ScannedType ==
  ASSUME NEW sc \in Scans, NEW r \in Text!Runes, NEW seps
  PROVE  Scanned(sc, r, seps) \in Scans
<1>1. sc.words \in Seq(Seq(Text!Runes)) /\ sc.word \in Seq(Text!Runes)
  BY DEF Scans
<1>2. Append(sc.word, r) \in Seq(Text!Runes) /\ <<>> \in Seq(Text!Runes)
  BY <1>1, AppendProperties
<1>3. Text!Ended(sc) \in Seq(Seq(Text!Runes))
  BY EndedType
<1> QED BY <1>1, <1>2, <1>3 DEF Scanned, Scans

\* Scan begins with nothing and takes one step for each rune: the recursion that
\* defines it has a solution, and only one.
LEMMA ScanIs ==
  ASSUME NEW s \in Seq(Text!Runes), NEW seps
  PROVE  /\ \A n \in 0..Len(s) : Text!Scan(s, seps)[n] \in Scans
         /\ Text!Scan(s, seps)[0] = [words |-> <<>>, word |-> <<>>]
         /\ \A n \in 1..Len(s) : Text!Scan(s, seps)[n] = Scanned(Text!Scan(s, seps)[n - 1], s[n], seps)
<1>1. PICK N \in Nat : N = Len(s)
  OBVIOUS
<1>2. PICK b : b = [words |-> <<>>, word |-> <<>>]
  OBVIOUS
<1>3. b \in Scans
  <2>1. <<>> \in Seq(Text!Runes) /\ <<>> \in Seq(Seq(Text!Runes))
    OBVIOUS
  <2> QED BY <1>2, <2>1 DEF Scans
<1>4. \A n \in 1..N : s[n] \in Text!Runes
  BY <1>1
<1> DEFINE Body(f, n) == IF n = 0 THEN [words |-> <<>>, word |-> <<>>]
                         ELSE IF s[n] \in seps THEN [words |-> Text!Ended(f[n - 1]), word |-> <<>>]
                         ELSE [f[n - 1] EXCEPT !.word = Append(@, s[n])]
           Eq(f) == f = [n \in 0..Len(s) |-> Body(f, n)]
<1>5. PICK step : step = [n \in 1..N |-> [sc \in Scans |-> Scanned(sc, s[n], seps)]]
  OBVIOUS
<1>6. \A n \in 1..N : \A sc \in Scans : step[n][sc] = Scanned(sc, s[n], seps) /\ step[n][sc] \in Scans
  BY <1>4, <1>5, ScannedType
<1>7. PICK h \in [0..N -> Scans] : h[0] = b /\ \A n \in 1..N : h[n] = step[n][h[n - 1]]
  <2>1. Runs(N, Scans, b, step)
    BY <1>3, <1>6, Recursion
  <2> QED BY <2>1 DEF Runs
<1>8. \A n \in 1..N : h[n] = Scanned(h[n - 1], s[n], seps) /\ h[n - 1] \in Scans
  <2> TAKE n \in 1..N
  <2>1. n - 1 \in 0..N
    OBVIOUS
  <2>2. h[n - 1] \in Scans
    BY <2>1, <1>7
  <2> QED BY <2>2, <1>6, <1>7
<1>9. ASSUME NEW f, \A n \in 1..N : f[n - 1] \in Scans, NEW n \in 1..N
      PROVE  Body(f, n) = Scanned(f[n - 1], s[n], seps)
  <2>1. PICK sc \in Scans : sc = f[n - 1]
    BY <1>9
  <2>2. [sc EXCEPT !.word = Append(@, s[n])] = [words |-> sc.words, word |-> Append(sc.word, s[n])]
    <3>1. PICK ws, w : sc = [words |-> ws, word |-> w]
      BY DEF Scans
    <3>2. sc.words = ws /\ sc.word = w
      BY <3>1
    <3>3. PICK x : x = Append(w, s[n])
      OBVIOUS
    <3>4. [sc EXCEPT !.word = x] = [words |-> ws, word |-> x]
      BY <3>1
    <3> QED BY <3>2, <3>3, <3>4
  <2>3. n # 0
    OBVIOUS
  <2> QED BY <2>1, <2>2, <2>3 DEF Scanned
<1>10. Eq(h)
  <2>1. \A n \in 0..N : h[n] = Body(h, n)
    <3> TAKE n \in 0..N
    <3>1. CASE n = 0
      BY <3>1, <1>2, <1>7
    <3>2. CASE n # 0
      <4>1. n \in 1..N
        BY <3>2
      <4> QED BY <4>1, <1>8, <1>9
    <3> QED BY <3>1, <3>2
  <2> HIDE DEF Body
  <2>2. h = [n \in 0..N |-> Body(h, n)]
    BY <2>1, <1>7
  <2> QED BY <2>2, <1>1
<1>11. PICK f : f = CHOOSE g : Eq(g)
  OBVIOUS
<1>12. Eq(f)
  BY <1>10, <1>11
<1>13. Text!Scan(s, seps) = f
  BY <1>11 DEF Text!Scan
<1>14. \A n \in 0..N : f[n] = Body(f, n)
  <2> HIDE DEF Body
  <2> QED BY <1>12, <1>1
<1> DEFINE G == {n \in 0..N : f[n] = h[n]}
<1>15. 0 \in G
  <2>1. Body(f, 0) = b /\ 0 \in 0..N
    BY <1>2
  <2> HIDE DEF Body
  <2>2. f[0] = Body(f, 0)
    BY <2>1, <1>14
  <2> QED BY <2>1, <2>2, <1>7
<1>16. ASSUME NEW n \in 1..N, n - 1 \in G PROVE n \in G
  <2>1. f[n - 1] = h[n - 1]
    BY <1>16
  <2>2. Body(f, n) = Body(h, n)
    BY <2>1
  <2>3. n \in 0..N
    OBVIOUS
  <2>4. f[n] = Body(f, n) /\ h[n] = Body(h, n)
    <3> HIDE DEF Body
    <3>1. \A m \in 0..N : h[m] = Body(h, m)
      BY <1>10, <1>1
    <3> QED BY <2>3, <3>1, <1>14
  <2>5. f[n] = h[n]
    <3> HIDE DEF Body
    <3> QED BY <2>2, <2>4
  <2> QED BY <2>3, <2>5
<1> HIDE DEF G, Body
<1>17. \A n \in 0..N : n \in G
  BY <1>15, <1>16, Counting
<1>18. \A n \in 0..N : f[n] = h[n]
  BY <1>17 DEF G
<1>19. \A n \in 1..N : n \in 0..N /\ n - 1 \in 0..N
  OBVIOUS
<1>20. /\ \A n \in 0..N : f[n] \in Scans
       /\ f[0] = [words |-> <<>>, word |-> <<>>]
       /\ \A n \in 1..N : f[n] = Scanned(f[n - 1], s[n], seps)
  BY <1>2, <1>7, <1>8, <1>18, <1>19
<1> QED BY <1>1, <1>13, <1>20

-----------------------------------------------------------------------------
(* Fields keep what does not separate.                                     *)

\* The beginnings of t, by their length.
ArePrefixes(P, t, R) ==
  /\ \A n \in 0..Len(t) : P[n] \in Seq(R)
  /\ P[0] = <<>> /\ P[Len(t)] = t
  /\ \A n \in 1..Len(t) : P[n] = Append(P[n - 1], t[n])

\* They are there, and each is the one before with one more element.
LEMMA PrefixFacts ==
  ASSUME NEW R, NEW t \in Seq(R)
  PROVE  \E P : ArePrefixes(P, t, R)
<1>1. PICK N \in Nat : N = Len(t)
  OBVIOUS
<1>2. ASSUME NEW n \in 0..N PROVE SubSeq(t, 1, n) \in Seq(R)
  <2>1. \A i \in 1..n : t[i] \in R
    <3> TAKE i \in 1..n
    <3>1. i \in 1..Len(t)
      BY <1>1
    <3> QED BY <3>1, ElementOfSeq
  <2> QED BY <2>1, SubSeqProperties
<1>3. SubSeq(t, 1, 0) = <<>>
  BY SubSeqEmpty
<1>4. SubSeq(t, 1, N) = t
  BY <1>1, SubSeqFull
<1>5. ASSUME NEW n \in 1..N PROVE SubSeq(t, 1, n) = Append(SubSeq(t, 1, n - 1), t[n])
  <2>1. 1 \in 1..Len(t) /\ n \in 1..Len(t)
    BY <1>1
  <2>2. SubSeq(t, 1, n) = SubSeq(t, 1, n - 1) \o <<t[n]>>
    BY <2>1, SubSeqRecursiveSecond
  <2>3. n - 1 \in 0..N /\ t[n] \in R
    BY <1>1
  <2>4. PICK p \in Seq(R) : p = SubSeq(t, 1, n - 1)
    BY <2>3, <1>2
  <2>5. Append(p, t[n]) = p \o <<t[n]>>
    BY <2>3, AppendIsConcat
  <2> QED BY <2>2, <2>4, <2>5
<1>6. PICK P : P = [n \in 0..N |-> SubSeq(t, 1, n)]
  OBVIOUS
<1>7. \A n \in 0..N : P[n] = SubSeq(t, 1, n)
  BY <1>6
<1>8. P[0] = <<>> /\ P[N] = t
  BY <1>3, <1>4, <1>7
<1>9. \A n \in 0..N : P[n] \in Seq(R)
  BY <1>2, <1>7
<1>10. ASSUME NEW n \in 1..N PROVE P[n] = Append(P[n - 1], t[n])
  <2>1. n \in 0..N /\ n - 1 \in 0..N
    OBVIOUS
  <2>2. P[n] = SubSeq(t, 1, n) /\ P[n - 1] = SubSeq(t, 1, n - 1)
    BY <2>1, <1>7
  <2> QED BY <2>2, <1>5
<1> QED BY <1>1, <1>8, <1>9, <1>10 DEF ArePrefixes

\* A scan that ends keeps its runes.
LEMMA FlattenEnded ==
  ASSUME NEW sc \in Scans
  PROVE  FlattenSeq(Text!Ended(sc)) = FlattenSeq(sc.words) \o sc.word
<1>1. sc.words \in Seq(Seq(Text!Runes)) /\ sc.word \in Seq(Text!Runes)
  BY DEF Scans
<1>2. CASE sc.word = <<>>
  <2>1. FlattenSeq(sc.words) \in Seq(Text!Runes)
    BY <1>1, FlattenType
  <2>2. FlattenSeq(sc.words) \o <<>> = FlattenSeq(sc.words)
    BY <2>1, ConcatEmptySeq
  <2> QED BY <2>2, <1>2 DEF Text!Ended
<1>3. CASE sc.word # <<>>
  <2>1. FlattenSeq(Append(sc.words, sc.word)) = FlattenSeq(sc.words) \o sc.word
    BY <1>1, FlattenAppend
  <2> QED BY <2>1, <1>3 DEF Text!Ended
<1> QED BY <1>2, <1>3

\* A step of a scan keeps the rune it reads, unless it separates.
LEMMA ScannedSpells ==
  ASSUME NEW sc \in Scans, NEW r \in Text!Runes, NEW seps, NEW y \in Seq(Text!Runes),
         FlattenSeq(sc.words) \o sc.word = y
  PROVE  FlattenSeq(Scanned(sc, r, seps).words) \o Scanned(sc, r, seps).word = y \o Drop(seps)[r]
<1>1. PICK ws \in Seq(Seq(Text!Runes)) : ws = sc.words
  BY DEF Scans
<1>2. PICK w \in Seq(Text!Runes) : w = sc.word
  BY DEF Scans
<1>3. PICK x \in Seq(Text!Runes) : x = FlattenSeq(ws)
  BY FlattenType
<1>4. x \o w = y
  BY <1>1, <1>2, <1>3
<1>5. CASE r \in seps
  <2>1. Scanned(sc, r, seps).words = Text!Ended(sc) /\ Scanned(sc, r, seps).word = <<>>
    BY <1>5 DEF Scanned
  <2>2. Drop(seps)[r] = <<>>
    BY <1>5 DEF Drop
  <2>3. FlattenSeq(Text!Ended(sc)) = y
    BY <1>1, <1>2, <1>3, <1>4, FlattenEnded
  <2> QED BY <2>1, <2>2, <2>3
<1>6. CASE r \notin seps
  <2>1. Scanned(sc, r, seps).words = ws /\ Scanned(sc, r, seps).word = Append(w, r)
    BY <1>6, <1>1, <1>2 DEF Scanned
  <2>2. Drop(seps)[r] = <<r>>
    BY <1>6 DEF Drop
  <2>3. x \o Append(w, r) = Append(x \o w, r)
    BY AppendOfConcat
  <2>4. Append(y, r) = y \o <<r>>
    BY AppendIsConcat
  <2> QED BY <2>1, <2>2, <2>3, <2>4, <1>3, <1>4
<1> QED BY <1>5, <1>6

\* Fields are texts.
LEMMA FieldsType ==
  ASSUME NEW t \in Seq(Text!Runes), NEW seps
  PROVE  Text!Fields(t, seps) \in Seq(Seq(Text!Runes))
<1>1. PICK N \in Nat : N = Len(t)
  OBVIOUS
<1>2. Text!Scan(t, seps)[N] \in Scans
  BY <1>1, ScanIs
<1> QED BY <1>1, <1>2, EndedType DEF Text!Fields

\* Fields put together are the text without its separators.
LEMMA FieldsSpell ==
  ASSUME NEW t \in Seq(Text!Runes), NEW seps
  PROVE  FlattenSeq(Text!Fields(t, seps)) = Text!Without(t, seps)
<1>1. PICK N \in Nat : N = Len(t)
  OBVIOUS
<1>2. PICK sc : sc = Text!Scan(t, seps)
  OBVIOUS
<1>3. /\ \A n \in 0..N : sc[n] \in Scans
      /\ sc[0] = [words |-> <<>>, word |-> <<>>]
      /\ \A n \in 1..N : sc[n] = Scanned(sc[n - 1], t[n], seps)
  BY <1>1, <1>2, ScanIs
<1>4. PICK P : ArePrefixes(P, t, Text!Runes)
  BY PrefixFacts
<1>5. /\ \A n \in 0..N : P[n] \in Seq(Text!Runes)
      /\ P[0] = <<>> /\ P[N] = t
      /\ \A n \in 1..N : P[n] = Append(P[n - 1], t[n])
  BY <1>1, <1>4 DEF ArePrefixes
<1> DEFINE Good(n) == FlattenSeq(sc[n].words) \o sc[n].word = Spelled(P[n], Drop(seps))
           G == {n \in 0..N : Good(n)}
<1>6. 0 \in G
  <2>1. <<>> \o <<>> = <<>>
    <3>1. PICK e \in Seq(Text!Runes) : e = <<>>
      BY EmptySeq
    <3>2. e \o <<>> = e
      BY ConcatEmptySeq
    <3> QED BY <3>1, <3>2
  <2>2. sc[0].words = <<>> /\ sc[0].word = <<>>
    BY <1>3
  <2>3. Good(0)
    BY <2>1, <2>2, <1>5, FlattenEmpty, SpelledEmpty
  <2> HIDE DEF Good
  <2> QED BY <2>3
<1>7. ASSUME NEW n \in 1..N, n - 1 \in G PROVE n \in G
  <2>1. PICK y \in Seq(Text!Runes) : y = Spelled(P[n - 1], Drop(seps))
    <3>1. P[n - 1] \in Seq(Text!Runes)
      BY <1>5
    <3> QED BY <3>1, DropType, SpelledType
  <2>2. sc[n - 1] \in Scans /\ t[n] \in Text!Runes
    BY <1>1, <1>3
  <2>3. FlattenSeq(sc[n - 1].words) \o sc[n - 1].word = y
    BY <1>7, <2>1
  <2>4. FlattenSeq(sc[n].words) \o sc[n].word = y \o Drop(seps)[t[n]]
    <3>1. PICK c \in Scans : c = sc[n - 1]
      BY <2>2
    <3>2. PICK r \in Text!Runes : r = t[n]
      BY <2>2
    <3>3. FlattenSeq(c.words) \o c.word = y
      BY <2>3, <3>1
    <3>4. PICK d : d = Scanned(c, r, seps)
      OBVIOUS
    <3>5. FlattenSeq(d.words) \o d.word = y \o Drop(seps)[r]
      BY <3>3, <3>4, ScannedSpells
    <3>6. sc[n] = d
      BY <1>3, <3>1, <3>2, <3>4
    <3> QED BY <3>2, <3>5, <3>6
  <2>5. Spelled(Append(P[n - 1], t[n]), Drop(seps)) = y \o Drop(seps)[t[n]]
    <3>1. PICK p \in Seq(Text!Runes) : p = P[n - 1]
      BY <1>5
    <3>2. PICK r \in Text!Runes : r = t[n]
      BY <2>2
    <3>3. Spelled(Append(p, r), Drop(seps)) = Spelled(p, Drop(seps)) \o Drop(seps)[r]
      BY DropType, SpelledAppend
    <3> QED BY <2>1, <3>1, <3>2, <3>3
  <2>6. P[n] = Append(P[n - 1], t[n])
    BY <1>5
  <2>7. Good(n)
    BY <2>4, <2>5, <2>6
  <2> HIDE DEF Good
  <2> QED BY <2>7
<1> HIDE DEF G
<1>8. N \in G
  <2>1. \A n \in 0..N : n \in G
    BY <1>6, <1>7, Counting
  <2> QED BY <2>1
<1>9. FlattenSeq(sc[N].words) \o sc[N].word = Spelled(t, Drop(seps))
  BY <1>8, <1>5 DEF G
<1>10. sc[N] \in Scans
  BY <1>3
<1>11. FlattenSeq(Text!Ended(sc[N])) = Spelled(t, Drop(seps))
  BY <1>9, <1>10, FlattenEnded
<1> QED BY <1>11, <1>1, <1>2, WithoutIs DEF Text!Fields

\* The words that a text is screened by spell the key it is unique under, for a text
\* of any length: nothing is screened under another spelling (blocklist.go:115).
THEOREM WordsAreTheKey ==
  ASSUME NEW s \in Seq(Text!Runes)
  PROVE  FlattenSeq(Text!FoldedWords(s)) = Text!Fold(s)
<1>1. Text!Lowered(s) \in Seq(Text!Runes)
  BY LoweredIs
<1> QED BY <1>1, FieldsSpell DEF Text!FoldedWords, Text!Fold

-----------------------------------------------------------------------------
(* Normalising does not change what is screened.                           *)

\* White space is not spelled by what drops it.
LEMMA SpacesVanish ==
  ASSUME NEW X, Text!Spaces \subseteq X, NEW r \in Text!Spaces
  PROVE  r \in Text!Runes /\ Bare(X)[r] = <<>>
<1>1. r \in Text!Runes /\ r # "E" /\ r # "sz" /\ r \in X
  BY DEF Text!Runes, Text!Spaces
<1>2. Lower[r] = <<r>>
  BY <1>1 DEF Lower
<1>3. Spelled(<<r>>, Drop(X)) = Drop(X)[r]
  BY <1>1, DropType, SpelledOne
<1>4. Drop(X)[r] = <<>>
  BY <1>1 DEF Drop
<1> QED BY <1>1, <1>2, <1>3, <1>4 DEF Bare

\* One more word, where spaces are dropped.
LEMMA JoinStep ==
  ASSUME NEW B, Spells(B, Text!Runes, Text!Runes), B[" "] = <<>>,
         NEW ws \in Seq(Seq(Text!Runes)), NEW w \in Seq(Text!Runes),
         Spelled(Text!Join(ws), B) = Spelled(FlattenSeq(ws), B)
  PROVE  Spelled(Text!Join(Append(ws, w)), B) = Spelled(FlattenSeq(Append(ws, w)), B)
<1>0. \A x, y \in Seq(Text!Runes) : Spelled(x \o y, B) = Spelled(x, B) \o Spelled(y, B)
  <2>1. PICK T : T = Text!Runes
    OBVIOUS
  <2>2. Spells(B, T, T)
    BY <2>1
  <2>3. \A x, y \in Seq(T) : Splits(x, y, B)
    BY <2>2, SpelledConcat
  <2> QED BY <2>1, <2>3 DEF Splits
<1>1. FlattenSeq(Append(ws, w)) = FlattenSeq(ws) \o w
  BY FlattenAppend
<1>2. CASE ws = <<>>
  <2>1. FlattenSeq(ws) \o w = w
    BY <1>2, FlattenEmpty, ConcatEmptySeq
  <2>2. Text!Join(Append(ws, w)) = w
    BY <1>2, JoinAppend
  <2> QED BY <2>1, <2>2, <1>1
<1>3. CASE ws # <<>>
  <2>1. PICK j \in Seq(Text!Runes) : j = Text!Join(ws)
    BY JoinType
  <2>2. PICK f \in Seq(Text!Runes) : f = FlattenSeq(ws)
    BY FlattenType
  <2>3. PICK sp \in Seq(Text!Runes) : sp = <<" ">>
    BY SpaceIsText
  <2>4. Text!Join(Append(ws, w)) = j \o (sp \o w)
    BY <1>3, <2>1, <2>3, JoinAppend
  <2>5. sp \o w \in Seq(Text!Runes)
    BY ConcatProperties
  <2>6. \A x, y \in Seq(Text!Runes) : Spelled(x \o y, B) = Spelled(x, B) \o Spelled(y, B)
    BY <1>0
  <2>7. Spelled(j \o (sp \o w), B) = Spelled(j, B) \o Spelled(sp \o w, B)
    BY <2>5, <2>6
  <2>8. Spelled(sp \o w, B) = Spelled(sp, B) \o Spelled(w, B)
    BY <2>6
  <2>9. Spelled(sp, B) = <<>>
    <3>1. " " \in Text!Runes
      BY RunesAre
    <3>2. \A r \in Text!Runes : Spelled(<<r>>, B) = B[r]
      BY SpelledOne
    <3> QED BY <3>1, <3>2, <2>3
  <2>10. <<>> \o Spelled(w, B) = Spelled(w, B)
    <3>1. Spelled(w, B) \in Seq(Text!Runes)
      BY SpelledType
    <3> QED BY <3>1, ConcatEmptySeq
  <2>11. Spelled(f \o w, B) = Spelled(f, B) \o Spelled(w, B)
    BY <2>6
  <2> QED BY <1>1, <2>1, <2>2, <2>4, <2>7, <2>8, <2>9, <2>10, <2>11
<1> QED BY <1>2, <1>3

\* Where spaces are dropped, it does not matter that words were joined by them.
LEMMA JoinSpells ==
  ASSUME NEW B, Spells(B, Text!Runes, Text!Runes), B[" "] = <<>>, NEW ws \in Seq(Seq(Text!Runes))
  PROVE  Spelled(Text!Join(ws), B) = Spelled(FlattenSeq(ws), B)
<1> DEFINE Good(x) == Spelled(Text!Join(x), B) = Spelled(FlattenSeq(x), B)
<1>1. PICK Q : Q = Seq(Text!Runes)
  OBVIOUS
<1> DEFINE G == {x \in Seq(Q) : Good(x)}
<1>2. <<>> \in G
  <2>1. <<>> \in Seq(Q)
    BY EmptySeq
  <2>2. Good(<<>>)
    BY JoinEmpty, FlattenEmpty
  <2> HIDE DEF Good
  <2> QED BY <2>1, <2>2
<1>3. \A x \in Seq(Q) : \A w \in Q : x \in G => Append(x, w) \in G
  <2> SUFFICES ASSUME NEW x \in Seq(Q), NEW w \in Q, x \in G PROVE Append(x, w) \in G
    OBVIOUS
  <2>1. Good(x)
    OBVIOUS
  <2>2. Good(Append(x, w))
    <3>1. x \in Seq(Seq(Text!Runes)) /\ w \in Seq(Text!Runes)
      BY <1>1
    <3> QED BY <2>1, <3>1, JoinStep
  <2>3. Append(x, w) \in Seq(Q)
    BY AppendProperties
  <2> HIDE DEF Good
  <2> QED BY <2>2, <2>3
<1>4. ws \in Seq(Q)
  BY <1>1
<1> HIDE DEF G
<1>5. ws \in G
  BY <1>2, <1>3, <1>4, SeqInduction
<1> QED BY <1>5 DEF G

\* A normalised text is a text.
LEMMA NormalizeType == ASSUME NEW s \in Seq(Text!Runes) PROVE Text!NormalizeSpace(s) \in Seq(Text!Runes)
  BY FieldsType, JoinType DEF Text!NormalizeSpace

\* What drops white space does not see that it was normalised.
LEMMA NormalizeSpells ==
  ASSUME NEW B, Spells(B, Text!Runes, Text!Runes), \A r \in Text!Spaces : B[r] = <<>>,
         NEW s \in Seq(Text!Runes)
  PROVE  Spelled(Text!NormalizeSpace(s), B) = Spelled(s, B)
<1>1. PICK ws \in Seq(Seq(Text!Runes)) : ws = Text!Fields(s, Text!Spaces)
  BY FieldsType
<1>2. B[" "] = <<>>
  BY DEF Text!Spaces
<1>3. Spelled(Text!NormalizeSpace(s), B) = Spelled(FlattenSeq(ws), B)
  BY <1>1, <1>2, JoinSpells DEF Text!NormalizeSpace
<1>4. FlattenSeq(ws) = Spelled(s, Drop(Text!Spaces))
  BY <1>1, FieldsSpell, WithoutIs
<1>5. Composes(B, Drop(Text!Spaces), B, Text!Runes)
  <2> SUFFICES ASSUME NEW r \in Text!Runes PROVE B[r] = Spelled(Drop(Text!Spaces)[r], B)
    BY DEF Composes
  <2>1. CASE r \in Text!Spaces
    <3>1. Drop(Text!Spaces)[r] = <<>>
      BY <2>1 DEF Drop
    <3> QED BY <2>1, <3>1, SpelledEmpty
  <2>2. CASE r \notin Text!Spaces
    <3>1. Drop(Text!Spaces)[r] = <<r>>
      BY <2>2 DEF Drop
    <3>2. Spelled(<<r>>, B) = B[r]
      BY SpelledOne
    <3> QED BY <3>1, <3>2
  <2> QED BY <2>1, <2>2
<1>6. Spelled(Spelled(s, Drop(Text!Spaces)), B) = Spelled(s, B)
  BY <1>5, DropType, SpelledTwice
<1> QED BY <1>3, <1>4, <1>6

-----------------------------------------------------------------------------
(* White space and separators.                                             *)

\* The runes that a name may hold, and some more.
Plainly == Text!Runes \ {"nbsp"}

\* On those, white space is dropped with the separators.
LEMMA SameDrop ==
  ASSUME NEW q \in Plainly
  PROVE  Drop(Text!Separators)[q] = Drop(Text!Separators \cup Text!Spaces)[q]
<1>1. q \in Text!Runes /\ (q \in Text!Separators <=> q \in Text!Separators \cup Text!Spaces)
  BY DEF Plainly, Text!Separators, Text!Spaces
<1> QED BY <1>1 DEF Drop

\* The same after lowering.
LEMMA SameBare ==
  ASSUME NEW r \in Plainly
  PROVE  Bare(Text!Separators)[r] = Bare(Text!Separators \cup Text!Spaces)[r]
<1>1. Lower[r] \in Seq(Plainly)
  <2>1. r \in Text!Runes /\ "e" \in Plainly /\ "s" \in Plainly
    BY RunesAre DEF Plainly
  <2>2. <<r>> \in Seq(Plainly)
    OBVIOUS
  <2>3. <<"e">> \in Seq(Plainly) /\ <<"s", "s">> \in Seq(Plainly)
    BY <2>1
  <2>4. CASE r = "E"
    BY <2>1, <2>3, <2>4 DEF Lower
  <2>5. CASE r = "sz"
    BY <2>1, <2>3, <2>5 DEF Lower
  <2>6. CASE r # "E" /\ r # "sz"
    BY <2>1, <2>2, <2>6 DEF Lower
  <2> QED BY <2>4, <2>5, <2>6
<1>2. \A q \in Plainly : Drop(Text!Separators)[q] = Drop(Text!Separators \cup Text!Spaces)[q]
  BY SameDrop
<1>3. Spelled(Lower[r], Drop(Text!Separators)) = Spelled(Lower[r], Drop(Text!Separators \cup Text!Spaces))
  <2>1. PICK F, H : F = Drop(Text!Separators) /\ H = Drop(Text!Separators \cup Text!Spaces)
    OBVIOUS
  <2>2. \A q \in Plainly : F[q] = H[q]
    BY <1>2, <2>1
  <2>3. PICK x \in Seq(Plainly) : x = Lower[r]
    BY <1>1
  <2>4. Spelled(x, F) = Spelled(x, H)
    BY <2>2, SpelledSame
  <2> QED BY <2>1, <2>3, <2>4
<1> QED BY <1>3 DEF Bare, Plainly

\* A name that passes its character checks is made of such runes.
LEMMA PlainSeq ==
  ASSUME NEW t \in Seq(Text!Runes), Text!CheckRunes(t)
  PROVE  t \in Seq(Plainly)
<1>1. PICK N \in Nat : N = Len(t)
  OBVIOUS
<1>2. ToSet(t) \subseteq Text!Letters \cup Text!Digits \cup Text!Separators
  BY DEF Text!CheckRunes, Text!ToSet, ToSet
<1>3. ASSUME NEW i \in 1..N PROVE t[i] \in Plainly
  <2>1. t[i] \in ToSet(t) /\ t[i] \in Text!Runes
    BY <1>1 DEF ToSet
  <2>2. t[i] \in Text!Letters \cup Text!Digits \cup Text!Separators
    BY <2>1, <1>2
  <2> QED BY <2>1, <2>2 DEF Plainly, Text!Letters, Text!Digits, Text!Separators
<1>4. t \in [1..N -> Plainly]
  BY <1>1, <1>3
<1> QED BY <1>4

\* Its key is what is left of it without separators and white space.
LEMMA FoldIsBare ==
  ASSUME NEW t \in Seq(Text!Runes), Text!CheckRunes(t)
  PROVE  Text!Fold(t) = Spelled(t, Bare(Text!Separators \cup Text!Spaces))
<1>1. Text!Fold(t) = Spelled(t, Bare(Text!Separators))
  BY BareIs DEF Text!Fold
<1>2. t \in Seq(Plainly)
  BY PlainSeq
<1>3. \A r \in Plainly : Bare(Text!Separators)[r] = Bare(Text!Separators \cup Text!Spaces)[r]
  BY SameBare
<1> QED BY <1>1, <1>2, <1>3, SpelledSame

\* "Case, spacing and hyphens do not help": a text of any length that comes down to a
\* listed word is refused (blocklist.go:25).
THEOREM SpacingIsNoHelp ==
  ASSUME NEW s \in Seq(Text!Runes)
  PROVE  Text!SpacingDoesNotHelp(s)
<1> SUFFICES ASSUME Text!Without(Text!Lowered(s), Text!Separators \cup Text!Spaces) \in Reserved \cup Blocked,
                    Text!Accepted(s)
             PROVE  FALSE
  BY DEF Text!SpacingDoesNotHelp
<1>1. PICK X : X = Text!Separators \cup Text!Spaces
  OBVIOUS
<1>2. PICK name \in Seq(Text!Runes) : name = Text!NormalizeSpace(s)
  BY NormalizeType
<1>3. Text!CheckRunes(name) /\ ~Text!Listed(name, Reserved) /\ ~Text!Listed(name, Blocked)
  BY <1>2 DEF Text!Accepted, Text!Verdict
<1>4. Text!Fold(name) = Spelled(name, Bare(X))
  BY <1>1, <1>3, FoldIsBare
<1>5. Spelled(name, Bare(X)) = Spelled(s, Bare(X))
  <2>1. \A r \in Text!Spaces : Bare(X)[r] = <<>>
    BY <1>1, SpacesVanish
  <2>2. PICK B : B = Bare(X)
    OBVIOUS
  <2> QED BY <1>2, <2>1, <2>2, BareType, NormalizeSpells
<1>6. Text!Fold(name) \in Reserved \cup Blocked
  BY <1>1, <1>4, <1>5, BareIs
<1>7. Text!Fold(name) \in Text!ToSet(<<Text!Fold(name)>> \o Text!FoldedWords(name))
  <2>1. PICK x \in Seq(Text!Runes) : x = Text!Fold(name)
    BY LoweredIs, WithoutIs DEF Text!Fold
  <2>2. PICK ws \in Seq(Seq(Text!Runes)) : ws = Text!FoldedWords(name)
    BY LoweredIs, FieldsType DEF Text!FoldedWords
  <2>3. PICK Q : Q = Seq(Text!Runes)
    OBVIOUS
  <2>4. PICK one \in Seq(Q) : one = <<x>> /\ Len(one) = 1 /\ one[1] = x
    <3>1. PICK z \in Q : z = x
      BY <2>3
    <3>2. <<z>> \in Seq(Q) /\ Len(<<z>>) = 1 /\ <<z>>[1] = z
      OBVIOUS
    <3> QED BY <3>1, <3>2
  <2>5. ws \in Seq(Q)
    BY <2>3
  <2>6. PICK y \in Seq(Q) : y = one \o ws
    BY <2>5, ConcatProperties
  <2>7. Len(y) = 1 + Len(ws) /\ y[1] = x
    BY <2>4, <2>5, <2>6, ConcatProperties
  <2>8. 1 \in DOMAIN y
    BY <2>7, <2>5
  <2>9. x \in Text!ToSet(y)
    BY <2>7, <2>8 DEF Text!ToSet
  <2> QED BY <2>1, <2>2, <2>4, <2>6, <2>9
<1> QED BY <1>3, <1>6, <1>7 DEF Text!Listed

-----------------------------------------------------------------------------
(* A name that passes its checks is its own normal form.                   *)

\* What a scan for white space has made of p, which ends in r.
Reads(sc, r, p) ==
  IF r = " " THEN sc.word = <<>> /\ sc.words # <<>> /\ Text!Join(sc.words) \o <<" ">> = p
             ELSE sc.word # <<>> /\ Text!Join(Append(sc.words, sc.word)) = p

\* One more word leaves some word.
LEMMA WordsAppend ==
  ASSUME NEW ws \in Seq(Seq(Text!Runes)), NEW w \in Seq(Text!Runes)
  PROVE  Append(ws, w) # <<>>
<1>1. PICK Q : Q = Seq(Text!Runes)
  OBVIOUS
<1>2. ws \in Seq(Q) /\ w \in Q
  BY <1>1
<1> QED BY <1>2, AppendProperties

\* Texts are put together in any grouping.
LEMMA TextsAssociate ==
  \A x, y, z \in Seq(Text!Runes) : (x \o y) \o z = x \o (y \o z)
<1> SUFFICES ASSUME NEW x \in Seq(Text!Runes), NEW y \in Seq(Text!Runes), NEW z \in Seq(Text!Runes)
             PROVE  (x \o y) \o z = x \o (y \o z)
  OBVIOUS
<1>1. PICK T : T = Text!Runes
  OBVIOUS
<1>2. x \in Seq(T) /\ y \in Seq(T) /\ z \in Seq(T)
  BY <1>1
<1> QED BY <1>2, ConcatAssociative

\* The same for four.
LEMMA FourAssociate ==
  \A a, b, c, d \in Seq(Text!Runes) : a \o (b \o (c \o d)) = (a \o (b \o c)) \o d
<1> SUFFICES ASSUME NEW a \in Seq(Text!Runes), NEW b \in Seq(Text!Runes),
                    NEW c \in Seq(Text!Runes), NEW d \in Seq(Text!Runes)
             PROVE  a \o (b \o (c \o d)) = (a \o (b \o c)) \o d
  OBVIOUS
<1>1. PICK x \in Seq(Text!Runes) : x = b \o c
  BY ConcatProperties
<1>2. (a \o x) \o d = a \o (x \o d)
  BY <1>1, TextsAssociate
<1>3. x \o d = b \o (c \o d)
  BY <1>1, TextsAssociate
<1> QED BY <1>1, <1>2, <1>3

\* z is x and then y.
Continues(x, y, z) == z = x \o y

\* A longer last word makes the joined text longer by as much.
LEMMA JoinGrows ==
  ASSUME NEW ws \in Seq(Seq(Text!Runes)), NEW w \in Seq(Text!Runes), NEW one \in Seq(Text!Runes),
         NEW v \in Seq(Text!Runes), Continues(w, one, v)
  PROVE  Continues(Text!Join(Append(ws, w)), one, Text!Join(Append(ws, v)))
<1> USE DEF Continues
<1>1. v = w \o one
  OBVIOUS
<1>2. CASE ws = <<>>
  BY <1>1, <1>2, JoinAppend
<1>3. CASE ws # <<>>
  <2>1. PICK j \in Seq(Text!Runes) : j = Text!Join(ws)
    BY JoinType
  <2>2. PICK sp \in Seq(Text!Runes) : sp = <<" ">>
    BY SpaceIsText
  <2>3. Text!Join(Append(ws, w)) = j \o (sp \o w) /\ Text!Join(Append(ws, v)) = j \o (sp \o v)
    BY <1>3, <2>1, <2>2, JoinAppend
  <2>4. j \o (sp \o (w \o one)) = (j \o (sp \o w)) \o one
    <3>1. \A c, d \in Seq(Text!Runes) : j \o (sp \o (c \o d)) = (j \o (sp \o c)) \o d
      BY FourAssociate
    <3> QED BY <3>1
  <2> QED BY <2>3, <2>4, <1>1
<1> QED BY <1>2, <1>3

\* The first rune of a text without a separator in front begins a word.
LEMMA FirstReads ==
  ASSUME NEW sc, sc = [words |-> <<>>, word |-> <<>>], NEW r \in Plainly, r # " "
  PROVE  Reads(Scanned(sc, r, Text!Spaces), r, Append(<<>>, r))
<1>1. r \notin Text!Spaces /\ r \in Text!Runes
  BY DEF Plainly, Text!Spaces
<1>2. PICK e \in Seq(Text!Runes) : e = <<>>
  BY EmptySeq
<1>3. PICK w \in Seq(Text!Runes) : w = Append(e, r) /\ w # <<>>
  BY <1>1, AppendProperties
<1>5. <<>> \in Seq(Seq(Text!Runes))
  BY EmptySeq
<1>6. Text!Join(Append(<<>>, w)) = w
  BY <1>5, JoinAppend
<1>7. PICK d : d = Scanned(sc, r, Text!Spaces)
  OBVIOUS
<1>8. d.words = <<>> /\ d.word = w
  <2>1. d.words = sc.words /\ d.word = Append(sc.word, r)
    BY <1>1, <1>7 DEF Scanned
  <2>2. sc.words = <<>> /\ sc.word = <<>>
    OBVIOUS
  <2> QED BY <2>1, <2>2, <1>2, <1>3
<1>9. Text!Join(Append(d.words, d.word)) = Append(<<>>, r)
  BY <1>2, <1>3, <1>6, <1>8
<1> QED BY <1>3, <1>7, <1>8, <1>9 DEF Reads

\* Where no two separators meet, a scan has read what can be joined again.
LEMMA NextReads ==
  ASSUME NEW c \in Scans, NEW q, NEW r \in Plainly, ~(q = " " /\ r = " "),
         NEW p \in Seq(Text!Runes), Reads(c, q, p)
  PROVE  Reads(Scanned(c, r, Text!Spaces), r, Append(p, r))
<1>1. PICK ws \in Seq(Seq(Text!Runes)) : ws = c.words
  BY DEF Scans
<1>2. PICK w \in Seq(Text!Runes) : w = c.word
  BY DEF Scans
<1>3. r \in Text!Runes /\ (r \in Text!Spaces <=> r = " ")
  BY DEF Plainly, Text!Spaces
<1>4. Append(p, r) = p \o <<r>>
  BY <1>3, AppendIsConcat
<1>5. PICK j \in Seq(Text!Runes) : j = Text!Join(ws)
  BY JoinType
<1>6. CASE r = " "
  <2>1. w # <<>> /\ Text!Join(Append(ws, w)) = p
    BY <1>1, <1>2, <1>6 DEF Reads
  <2>2. Text!Ended(c) = Append(ws, w)
    BY <1>1, <1>2, <2>1 DEF Text!Ended
  <2>4. Append(ws, w) # <<>>
    BY WordsAppend
  <2>5. Text!Join(Append(ws, w)) \o <<" ">> = Append(p, r)
    BY <2>1, <1>4, <1>6
  <2>6. PICK d, us : d = Scanned(c, r, Text!Spaces) /\ us = Append(ws, w)
    OBVIOUS
  <2>7. d.words = us /\ d.word = <<>>
    BY <1>3, <1>6, <2>2, <2>6 DEF Scanned
  <2>8. Text!Join(d.words) \o <<" ">> = Append(p, r)
    BY <2>5, <2>6, <2>7
  <2> QED BY <2>4, <2>6, <2>7, <2>8, <1>6 DEF Reads
<1>7. CASE r # " "
  <2>1. PICK v \in Seq(Text!Runes) : v = Append(w, r) /\ v # <<>> /\ v = w \o <<r>>
    BY <1>3, AppendProperties, AppendIsConcat
  <2>3. PICK sp \in Seq(Text!Runes) : sp = <<" ">>
    BY SpaceIsText
  <2>4. PICK one \in Seq(Text!Runes) : one = <<r>>
    BY <1>3, OneIsText
  <2>5. Text!Join(Append(ws, v)) = p \o one
    <3>1. CASE q = " "
      <4>1. w = <<>> /\ ws # <<>> /\ j \o sp = p
        BY <3>1, <1>1, <1>2, <1>5, <2>3 DEF Reads
      <4>2. v = one
        <5>1. <<>> \o one = one
          BY ConcatEmptySeq
        <5> QED BY <4>1, <5>1, <2>1, <2>4
      <4>3. Text!Join(Append(ws, v)) = j \o (sp \o v)
        BY <4>1, <1>5, <2>3, JoinAppend
      <4>4. (j \o sp) \o one = j \o (sp \o one)
        BY TextsAssociate
      <4> QED BY <4>1, <4>2, <4>3, <4>4
    <3>2. CASE q # " "
      <4>1. Text!Join(Append(ws, w)) = p
        BY <3>2, <1>1, <1>2 DEF Reads
      <4>2. v = w \o one
        BY <2>1, <2>4
      <4>3. Text!Join(Append(ws, v)) = Text!Join(Append(ws, w)) \o one
        <5>1. Continues(w, one, v)
          BY <4>2 DEF Continues
        <5>2. Continues(Text!Join(Append(ws, w)), one, Text!Join(Append(ws, v)))
          BY <5>1, JoinGrows
        <5> QED BY <5>2 DEF Continues
      <4> QED BY <4>1, <4>3
    <3> QED BY <3>1, <3>2
  <2>6. PICK d : d = Scanned(c, r, Text!Spaces)
    OBVIOUS
  <2>7. d.words = ws /\ d.word = v
    BY <1>1, <1>2, <1>3, <1>7, <2>1, <2>6 DEF Scanned
  <2>8. Text!Join(Append(d.words, d.word)) = Append(p, r)
    BY <2>4, <2>5, <2>7, <1>4
  <2> QED BY <2>1, <2>6, <2>7, <2>8, <1>7 DEF Reads
<1> QED BY <1>6, <1>7

\* A text that passes the character checks is normalised already.
LEMMA NormalIsFixed ==
  ASSUME NEW t \in Seq(Text!Runes), Text!CheckRunes(t)
  PROVE  Text!NormalizeSpace(t) = t
<1>1. PICK N \in Nat : N = Len(t)
  OBVIOUS
<1>2. PICK sc : sc = Text!Scan(t, Text!Spaces)
  OBVIOUS
<1>3. /\ \A n \in 0..N : sc[n] \in Scans
      /\ sc[0] = [words |-> <<>>, word |-> <<>>]
      /\ \A n \in 1..N : sc[n] = Scanned(sc[n - 1], t[n], Text!Spaces)
  BY <1>1, <1>2, ScanIs
<1>4. PICK P : ArePrefixes(P, t, Text!Runes)
  BY PrefixFacts
<1>5. /\ \A n \in 0..N : P[n] \in Seq(Text!Runes)
      /\ P[0] = <<>> /\ P[N] = t
      /\ \A n \in 1..N : P[n] = Append(P[n - 1], t[n])
  BY <1>1, <1>4 DEF ArePrefixes
<1>6. \A n \in 1..N : t[n] \in Plainly
  BY <1>1, PlainSeq
<1>7. \A n \in 1..N : t[n] = " " => n # 1 /\ n # N /\ t[n - 1] # " "
  <2>1. DOMAIN t = 1..N /\ " " \in Text!Separators
    BY <1>1 DEF Text!Separators
  <2>2. \A i \in 1..N : t[i] \in Text!Separators => i \notin {1, N} /\ t[i - 1] \notin Text!Separators
    BY <2>1, <1>1 DEF Text!CheckRunes
  <2> QED BY <2>1, <2>2
<1>8. CASE N = 0
  <2>1. t = <<>>
    BY <1>1, <1>8, EmptySeq
  <2>2. Text!Fields(t, Text!Spaces) = <<>>
    BY <1>1, <1>2, <1>3, <1>8 DEF Text!Fields, Text!Ended
  <2> QED BY <2>1, <2>2, JoinEmpty DEF Text!NormalizeSpace
<1>9. CASE N # 0
  <2> DEFINE Good(n) == Reads(sc[n], t[n], P[n])
             G == {n \in 0..N : n = 0 \/ Good(n)}
  <2>1. 0 \in G
    OBVIOUS
  <2>2. ASSUME NEW n \in 1..N, n - 1 \in G PROVE n \in G
    <3>1. n - 1 \in 0..N /\ n \in 0..N
      OBVIOUS
    <3>2. Good(n)
      <4>1. CASE n = 1
        <5>1. t[1] \in Plainly /\ t[1] # " "
          BY <4>1, <1>6, <1>7
        <5>2. sc[1] = Scanned(sc[0], t[1], Text!Spaces) /\ P[1] = Append(<<>>, t[1])
          <6>1. sc[n] = Scanned(sc[n - 1], t[n], Text!Spaces) /\ P[n] = Append(P[n - 1], t[n])
            BY <1>3, <1>5
          <6>2. n - 1 = 0
            BY <4>1
          <6>3. sc[n] = Scanned(sc[0], t[n], Text!Spaces) /\ P[n] = Append(P[0], t[n])
            BY <6>1, <6>2
          <6> QED BY <6>3, <4>1, <1>5
        <5>3. Reads(Scanned(sc[0], t[1], Text!Spaces), t[1], Append(<<>>, t[1]))
          BY <5>1, <1>3, FirstReads
        <5> QED BY <4>1, <5>2, <5>3
      <4>2. CASE n # 1
        <5>1. Good(n - 1)
          BY <4>2, <2>2
        <5>2. ~(t[n - 1] = " " /\ t[n] = " ") /\ t[n] \in Plainly
          BY <1>6, <1>7
        <5>3. sc[n - 1] \in Scans /\ P[n - 1] \in Seq(Text!Runes)
          BY <3>1, <1>3, <1>5
        <5>4. Reads(Scanned(sc[n - 1], t[n], Text!Spaces), t[n], Append(P[n - 1], t[n]))
          BY <5>1, <5>2, <5>3, NextReads
        <5>5. sc[n] = Scanned(sc[n - 1], t[n], Text!Spaces) /\ P[n] = Append(P[n - 1], t[n])
          BY <1>3, <1>5
        <5> QED BY <5>4, <5>5
      <4> QED BY <4>1, <4>2
    <3> HIDE DEF Good
    <3> QED BY <3>1, <3>2
  <2> HIDE DEF Good, G
  <2>3. \A n \in 0..N : n \in G
    BY <2>1, <2>2, Counting
  <2>4. Good(N)
    BY <2>3, <1>9 DEF G
  <2>5. t[N] # " " /\ sc[N] \in Scans
    <3>1. N \in 1..N /\ N \in 0..N
      BY <1>9
    <3> QED BY <3>1, <1>3, <1>7
  <2>6. sc[N].word # <<>> /\ Text!Join(Append(sc[N].words, sc[N].word)) = t
    BY <2>4, <2>5, <1>5 DEF Good, Reads
  <2>7. Text!Fields(t, Text!Spaces) = Append(sc[N].words, sc[N].word)
    BY <2>6, <1>1, <1>2 DEF Text!Fields, Text!Ended
  <2> QED BY <2>6, <2>7 DEF Text!NormalizeSpace
<1> QED BY <1>8, <1>9

\* What Parse accepted, of any length, it accepts again and leaves as it is: a name
\* that was stored can be loaded (sqlitedb.go:461).
THEOREM NamesParseAgain ==
  ASSUME NEW s \in Seq(Text!Runes)
  PROVE  Text!ParsesAgain(s)
<1> SUFFICES ASSUME Text!Accepted(s)
             PROVE  Text!Accepted(Text!Parse(s)) /\ Text!Parse(Text!Parse(s)) = Text!Parse(s)
  BY DEF Text!ParsesAgain
<1>1. PICK name \in Seq(Text!Runes) : name = Text!NormalizeSpace(s)
  BY NormalizeType
<1>2. Text!Parse(s) = name
  BY <1>1 DEF Text!Parse
<1>3. Text!CheckRunes(name)
  BY <1>1 DEF Text!Accepted, Text!Verdict
<1>4. Text!NormalizeSpace(name) = name
  BY <1>3, NormalIsFixed
<1>5. Text!Verdict(name) = Text!Verdict(s)
  BY <1>1, <1>4 DEF Text!Verdict
<1> QED BY <1>2, <1>4, <1>5 DEF Text!Accepted, Text!Parse

-----------------------------------------------------------------------------
(* Names that are generated.                                               *)

\* An ending is one or two runes.
LEMMA EndingType ==
  ASSUME NEW g \in {"der", "die", "das"}
  PROVE  /\ Text!EndingFor(g) \in Seq(Text!Runes)
         /\ Len(Text!EndingFor(g)) \in 1..2
<1>1. "e" \in Text!Runes /\ "r" \in Text!Runes /\ "s" \in Text!Runes
  BY RunesAre
<1>2. PICK e \in Text!Runes, r \in Text!Runes, s \in Text!Runes : e = "e" /\ r = "r" /\ s = "s"
  BY <1>1
<1>3. CASE g = "der"
  <2>1. Text!EndingFor(g) = <<e, r>>
    BY <1>2, <1>3 DEF Text!EndingFor
  <2>2. <<e, r>> \in Seq(Text!Runes) /\ Len(<<e, r>>) = 2
    OBVIOUS
  <2> QED BY <2>1, <2>2
<1>4. CASE g = "die"
  <2>1. Text!EndingFor(g) = <<e>>
    BY <1>2, <1>4 DEF Text!EndingFor
  <2>2. <<e>> \in Seq(Text!Runes) /\ Len(<<e>>) = 1
    OBVIOUS
  <2> QED BY <2>1, <2>2
<1>5. CASE g = "das"
  <2>1. Text!EndingFor(g) = <<e, s>>
    BY <1>2, <1>5 DEF Text!EndingFor
  <2>2. <<e, s>> \in Seq(Text!Runes) /\ Len(<<e, s>>) = 2
    OBVIOUS
  <2> QED BY <2>1, <2>2
<1> QED BY <1>3, <1>4, <1>5

\* A capital takes the place of a letter.
LEMMA CapitalizeType ==
  ASSUME NEW s \in Seq(Text!Runes), s # <<>>
  PROVE  /\ Text!Capitalize(s) \in Seq(Text!Runes)
         /\ Len(Text!Capitalize(s)) = Len(s)
<1>1. PICK one \in Seq(Text!Runes) : one = <<"E">> /\ Len(one) = 1
  <2>1. PICK r \in Text!Runes : r = "E"
    BY RunesAre
  <2>2. <<r>> \in Seq(Text!Runes) /\ Len(<<r>>) = 1
    OBVIOUS
  <2> QED BY <2>1, <2>2
<1>2. PICK t \in Seq(Text!Runes) : t = Tail(s) /\ Len(t) = Len(s) - 1
  BY HeadTailProperties
<1>3. one \o t \in Seq(Text!Runes) /\ Len(one \o t) = Len(s)
  <2>1. Len(one \o t) = Len(one) + Len(t)
    BY ConcatProperties
  <2>2. Len(s) \in Nat
    OBVIOUS
  <2> QED BY <1>1, <1>2, <2>1, <2>2, ConcatProperties
<1> QED BY <1>1, <1>2, <1>3 DEF Text!Capitalize

\* How long a built name is.
LEMMA BuildType ==
  ASSUME NEW s \in Seq(Text!Runes), s # <<>>, NEW n, n.word \in Seq(Text!Runes),
         n.gender \in {"der", "die", "das"}, NEW number \in Seq(Text!Runes)
  PROVE  /\ Text!Build(s, n, number) \in Seq(Text!Runes)
         /\ Len(Text!Build(s, n, number)) \in
              (Len(s) + 2 + Len(n.word) + Len(number))..(Len(s) + 3 + Len(n.word) + Len(number))
<1>1. PICK c \in Seq(Text!Runes) : c = Text!Capitalize(s) /\ Len(c) = Len(s)
  BY CapitalizeType
<1>2. PICK e \in Seq(Text!Runes) : e = Text!EndingFor(n.gender) /\ Len(e) \in 1..2
  BY EndingType
<1>3. PICK sp \in Seq(Text!Runes) : sp = <<" ">> /\ Len(sp) = 1
  BY SpaceIsText
<1>4. PICK w \in Seq(Text!Runes) : w = n.word
  OBVIOUS
<1>5. PICK x \in Seq(Text!Runes) : x = c \o e /\ Len(x) = Len(c) + Len(e)
  BY ConcatProperties
<1>6. PICK y \in Seq(Text!Runes) : y = x \o sp /\ Len(y) = Len(x) + Len(sp)
  BY ConcatProperties
<1>7. PICK z \in Seq(Text!Runes) : z = y \o w /\ Len(z) = Len(y) + Len(w)
  BY ConcatProperties
<1>8. PICK b \in Seq(Text!Runes) : b = z \o number /\ Len(b) = Len(z) + Len(number)
  BY ConcatProperties
<1>9. Text!Build(s, n, number) = b
  BY <1>1, <1>2, <1>3, <1>4, <1>5, <1>6, <1>7, <1>8 DEF Text!Build
<1>10. Len(s) \in Nat /\ Len(w) \in Nat /\ Len(number) \in Nat /\ Len(e) \in Nat
  OBVIOUS
<1>11. Len(b) = Len(s) + Len(e) + 1 + Len(w) + Len(number)
  BY <1>1, <1>3, <1>5, <1>6, <1>7, <1>8, <1>10
<1>12. PICK i \in Nat, j \in 1..2, k \in Nat, l \in Nat :
         i = Len(s) /\ j = Len(e) /\ k = Len(w) /\ l = Len(number)
  BY <1>2, <1>10
<1>13. i + j + 1 + k + l \in (i + 2 + k + l)..(i + 3 + k + l)
  OBVIOUS
<1> QED BY <1>4, <1>8, <1>9, <1>11, <1>12, <1>13

\* A stem, a noun and a number that stay in their budgets build a name that fits.
LEMMA BuildFits ==
  ASSUME NEW s \in Seq(Text!Runes), NEW n, n.word \in Seq(Text!Runes),
         n.gender \in {"der", "die", "das"}, NEW number \in Seq(Text!Runes),
         Len(s) >= 1, Len(n.word) >= 1, Len(s) + 3 + Len(n.word) + Len(number) <= MaxLen
  PROVE  /\ Text!Build(s, n, number) \in Seq(Text!Runes)
         /\ Len(Text!Build(s, n, number)) \in MinLen..MaxLen
<1>1. s # <<>>
  BY EmptySeq
<1>2. /\ Text!Build(s, n, number) \in Seq(Text!Runes)
      /\ Len(Text!Build(s, n, number)) \in
           (Len(s) + 2 + Len(n.word) + Len(number))..(Len(s) + 3 + Len(n.word) + Len(number))
  BY <1>1, BuildType
<1>3. Len(s) \in Nat /\ Len(n.word) \in Nat /\ Len(number) \in Nat
  OBVIOUS
<1>4. MinLen \in 0..4 /\ MaxLen \in Nat
  BY TextAssumption
<1>5. PICK i \in Nat, k \in Nat, l \in Nat, b \in Nat :
        i = Len(s) /\ k = Len(n.word) /\ l = Len(number) /\ b = Len(Text!Build(s, n, number))
  BY <1>2, <1>3
<1>6. b \in (i + 2 + k + l)..(i + 3 + k + l) /\ i >= 1 /\ k >= 1 /\ i + 3 + k + l <= MaxLen
  BY <1>2, <1>5
<1>7. b \in MinLen..MaxLen
  BY <1>4, <1>6
<1> QED BY <1>2, <1>5, <1>7

\* Word lists that New accepts generate nothing else.
LEMMA GeneratedFits ==
  ASSUME NEW stems, stems \subseteq Seq(Text!Runes), NEW nouns, \A n \in nouns : n.word \in Seq(Text!Runes),
         Text!Loadable(stems, nouns), NEW attempt, NEW text \in Text!Generate(stems, nouns, attempt)
  PROVE  text \in Seq(Text!Runes) /\ Len(text) \in MinLen..MaxLen
<1>1. /\ \A s \in stems : s \in Seq(Text!Runes) /\ Len(s) \in Nat /\ Len(s) >= 1 /\ Len(s) <= MaxStem
      /\ \A n \in nouns : /\ n.word \in Seq(Text!Runes) /\ Len(n.word) \in Nat
                          /\ Len(n.word) >= 1 /\ Len(n.word) <= MaxNoun
                          /\ n.gender \in {"der", "die", "das"}
      /\ MaxStem + 2 + 1 + MaxNoun <= MaxLen
      /\ \A number \in Numbers : ShortStem + 2 + 1 + ShortNoun + Len(number) <= MaxLen
  BY DEF Text!Loadable
<1>2. MaxLen \in Nat /\ MaxStem \in Nat /\ MaxNoun \in Nat /\ ShortStem \in Nat /\ ShortNoun \in Nat
  BY TextAssumption
<1>3. CASE attempt < PlainAttempts
  <2>1. PICK s \in stems, n \in nouns : text = Text!Build(s, n, <<>>)
    BY <1>3 DEF Text!Generate
  <2>2. PICK e \in Seq(Text!Runes) : e = <<>> /\ Len(e) = 0
    BY EmptySeq
  <2>3. Len(s) + 3 + Len(n.word) + Len(e) <= MaxLen
    <3>1. PICK i \in Nat, k \in Nat : i = Len(s) /\ k = Len(n.word) /\ i <= MaxStem /\ k <= MaxNoun
      BY <1>1
    <3>2. i + 3 + k + 0 <= MaxLen
      <4>1. PICK a \in Nat, b \in Nat, m \in Nat : a = MaxStem /\ b = MaxNoun /\ m = MaxLen
        BY <1>2
      <4>2. a + 2 + 1 + b <= m /\ i <= a /\ k <= b
        BY <1>1, <3>1, <4>1
      <4>3. i + 3 + k + 0 <= m
        BY <4>2
      <4> QED BY <4>1, <4>3
    <3> QED BY <2>2, <3>1, <3>2
  <2> QED BY <1>1, <2>1, <2>2, <2>3, BuildFits
<1>4. CASE ~(attempt < PlainAttempts)
  <2>1. PICK s \in Text!Short(stems, ShortStem), n \in {n \in nouns : Len(n.word) <= ShortNoun}, number \in Numbers :
          text = Text!Build(s, n, number)
    BY <1>4 DEF Text!Generate
  <2>2. s \in stems /\ Len(s) <= ShortStem /\ n \in nouns /\ Len(n.word) <= ShortNoun
    BY <2>1 DEF Text!Short
  <2>3. number \in Seq(Text!Runes) /\ Len(number) \in Nat
    BY TextAssumption
  <2>4. ShortStem + 2 + 1 + ShortNoun + Len(number) <= MaxLen
    BY <1>1
  <2>5. Len(s) + 3 + Len(n.word) + Len(number) <= MaxLen
    <3>1. PICK i \in Nat, k \in Nat, l \in Nat :
            i = Len(s) /\ k = Len(n.word) /\ l = Len(number) /\ i <= ShortStem /\ k <= ShortNoun
      BY <1>1, <2>2, <2>3
    <3>2. i + 3 + k + l <= MaxLen
      <4>1. PICK a \in Nat, b \in Nat, m \in Nat : a = ShortStem /\ b = ShortNoun /\ m = MaxLen
        BY <1>2
      <4>2. a + 2 + 1 + b + l <= m /\ i <= a /\ k <= b
        BY <2>4, <3>1, <4>1
      <4>3. i + 3 + k + l <= m
        BY <4>2
      <4> QED BY <4>1, <4>3
    <3> QED BY <3>1, <3>2
  <2> QED BY <1>1, <2>1, <2>2, <2>3, <2>5, BuildFits
<1> QED BY <1>3, <1>4

\* Whatever word lists New accepts, their names have a length that Parse accepts, and
\* are refused for nothing but a character or a listed word (nicknamer.go:186).
THEOREM NamesFit ==
  ASSUME NEW stems, stems \subseteq Seq(Text!Runes), NEW nouns, \A n \in nouns : n.word \in Seq(Text!Runes)
  PROVE  Text!FitsWhenLoadable(stems, nouns)
<1> SUFFICES ASSUME Text!Loadable(stems, nouns), NEW attempt \in 0..PlainAttempts,
                    NEW text \in Text!Generate(stems, nouns, attempt)
             PROVE  /\ Len(text) \in MinLen..MaxLen
                    /\ Text!CheckRunes(text) => Text!Verdict(text) # "invalid"
  BY DEF Text!FitsWhenLoadable
<1>1. text \in Seq(Text!Runes) /\ Len(text) \in MinLen..MaxLen
  BY GeneratedFits
<1>2. ASSUME Text!CheckRunes(text) PROVE Text!Verdict(text) # "invalid"
  <2>1. Text!NormalizeSpace(text) = text
    BY <1>1, <1>2, NormalIsFixed
  <2> QED BY <1>1, <1>2, <2>1 DEF Text!Verdict
<1> QED BY <1>1, <1>2

\* Names that were accepted are read back, their words spell their key, listed words are
\* refused however they are written and generated names fit, for texts up to any length.
THEOREM TextsHoldHolds == Spec => []TextsHold
<1>1. ASSUME NEW s \in Drafts
      PROVE  /\ Text!ParsesAgain(s)
             /\ Text!WordsMakeTheKey(s)
             /\ Text!SpacingDoesNotHelp(s)
             /\ Text!FitsWhenLoadable({s, <<"e">>}, Nouns)
  <2>1. s \in Seq(Text!Runes)
    <3>1. PICK n \in 0..MaxDraft : s \in [1..n -> Text!Runes \ {"r"}]
      BY DEF Drafts
    <3>2. n \in Nat /\ s \in [1..n -> Text!Runes]
      BY <3>1, TextAssumption
    <3> QED BY <3>2
  <2>2. Text!ParsesAgain(s)
    BY <2>1, NamesParseAgain
  <2>3. Text!WordsMakeTheKey(s)
    <3>1. ASSUME Text!Accepted(s) PROVE FlattenSeq(Text!FoldedWords(Text!Parse(s))) = Text!Fold(Text!Parse(s))
      <4>1. Text!Parse(s) \in Seq(Text!Runes)
        BY <2>1, <3>1, NormalizeType DEF Text!Parse
      <4> QED BY <4>1, WordsAreTheKey
    <3> QED BY <3>1, SameFlatten DEF Text!WordsMakeTheKey
  <2>4. Text!SpacingDoesNotHelp(s)
    BY <2>1, SpacingIsNoHelp
  <2>5. Text!FitsWhenLoadable({s, <<"e">>}, Nouns)
    <3>1. <<"e">> \in Seq(Text!Runes)
      <4>1. PICK r \in Text!Runes : r = "e"
        BY RunesAre
      <4>2. <<r>> \in Seq(Text!Runes)
        BY OneIsText
      <4> QED BY <4>1, <4>2
    <3>2. {s, <<"e">>} \subseteq Seq(Text!Runes)
      BY <2>1, <3>1
    <3>3. \A n \in Nouns : n.word \in Seq(Text!Runes)
      BY TextAssumption
    <3> QED BY <3>2, <3>3, NamesFit
  <2> QED BY <2>2, <2>3, <2>4, <2>5
<1>2. TextsHold
  BY <1>1 DEF TextsHold
<1> QED BY <1>2, PTL
==============================================================================
