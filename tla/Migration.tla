------------------------------ MODULE Migration ------------------------------
(***************************************************************************)
(* The database file across releases: what a start of the server does to   *)
(* it (cmd/uebung: the study store's Open, then the identity store's),     *)
(* what cmd/uebung-claim does to it, and crashes between any two           *)
(* statements.                                                             *)
(*                                                                         *)
(* A start is a list of things to do: a statement, which SQLite applies    *)
(* whole or not at all, or a look at the columns that puts statements in   *)
(* front of the rest.  Two servers may be starting at once (the watchdog   *)
(* and a deployment); the second one finds its port taken, after it has    *)
(* been through the file.  A claim may overlap a server, though its        *)
(* documentation wants it stopped.  Languages are left out.                *)
(*                                                                         *)
(* A definition no action uses, placed right before the one it resembles,  *)
(* is a plausible defect of it (README.md, "Mutants").                     *)
(***************************************************************************)
EXTENDS Naturals, FiniteSets, SequencesExt

CONSTANTS
  Processes,   \* that may be running at once (bound)
  Items,
  Local,       \* the learner from before there were accounts
  Account,     \* the learner who claims
  Files,       \* what earlier releases have left behind, and no file (bound)
  MaxFaults,   \* crashes and failing statements in a run (bound)
  MaxClaims,   \* runs of uebung-claim (bound)
  None         \* no row, no transaction

Learners == {Local, Account}
Cards == Learners \X Items

ASSUME LearnerAssumption == Local # Account /\ None \notin Learners
ASSUME FaultAssumption == MaxFaults \in Nat /\ MaxClaims \in Nat

VARIABLES
  file,      \* what is committed
  tx,        \* the open transaction: [by, file], or None
  proc,      \* process -> [kind, todo]
  faults, claims,
  \* History.
  studied    \* cards that were ever answered

vars == <<file, tx, proc, faults, claims, studied>>

NoRows == [c \in Cards |-> None]

\* A file: the columns that tell a table's releases apart ({} for no table), the
\* rows of study_progress as the learner whose schedule they hold, those of the
\* rebuilt copy, and the owner of each review, which is named by who gave it.
File == [progress : {{}, {"lemma"}, {"deck"}},
         rows     : [Cards -> Learners \cup {None}],
         scratch  : [Cards -> Learners \cup {None}],
         review   : {{}} \cup {{"rating"} \cup s : s \in SUBSET {"given", "answer_ms"}},
         log      : [Learners -> SUBSET Cards],
         users    : {{}} \cup {{"email"} \cup s : s \in SUBSET {"nickname", "nickname_fold"}},
         index    : BOOLEAN,
         verified : BOOLEAN]     \* Account has followed a link

\* A file as releases write it: the index is on a column that is there, a review is
\* saved with its row, and an account has what it studied itself.
Consistent(f) ==
  /\ f \in File
  /\ f.index => "nickname_fold" \in f.users
  /\ f.log[Local] # {} => \E i \in Items : f.rows[<<Local, i>>] # None
  /\ \A i \in Items : f.rows[<<Local, i>>] # None => f.rows[<<Account, i>>] \in {None, Account}

ASSUME FilesAssumption == \A f \in Files : Consistent(f)
ASSUME NoneAssumption == None \notin [by : Processes, file : File]

Down == [kind |-> "down", todo |-> <<>>]

Init ==
  /\ file \in Files
  /\ tx = None
  /\ proc = [p \in Processes |-> Down]
  /\ faults = 0 /\ claims = 0
  /\ studied = {c \in Cards : file.rows[c] # None}

-----------------------------------------------------------------------------
(* Statements: when SQLite accepts them, and what they do.                 *)

Accepts(s, f) ==
  CASE s = "add given"         -> "given" \notin f.review
    [] s = "add answer_ms"     -> "answer_ms" \notin f.review
    [] s = "add nickname"      -> "nickname" \notin f.users
    [] s = "add nickname_fold" -> "nickname_fold" \notin f.users
    [] s = "create index"      -> f.index \/ "nickname_fold" \in f.users
    [] s = "copy rows"         -> "lemma" \in f.progress
    [] s = "rename table"      -> f.progress = {}
    [] OTHER                   -> TRUE

\* UPDATE OR IGNORE: a row moves where the account has none.
Moved(rows) ==
  [c \in Cards |-> IF rows[<<Account, c[2]>>] # None THEN rows[c]
                   ELSE IF c[1] = Account THEN rows[<<Local, c[2]>>] ELSE None]

LogLeftBehind(log) == log

MovedLog(log) == [log EXCEPT ![Account] = @ \cup log[Local], ![Local] = {}]

Effect(s, f) ==
  CASE s = "create progress"   -> IF f.progress = {} THEN [f EXCEPT !.progress = {"deck"}] ELSE f
    [] s = "create review"     -> IF f.review = {} THEN [f EXCEPT !.review = {"rating", "given", "answer_ms"}] ELSE f
    [] s = "create users"      -> IF f.users = {} THEN [f EXCEPT !.users = {"email"}] ELSE f
    [] s = "add given"         -> [f EXCEPT !.review = @ \cup {"given"}]
    [] s = "add answer_ms"     -> [f EXCEPT !.review = @ \cup {"answer_ms"}]
    [] s = "add nickname"      -> [f EXCEPT !.users = @ \cup {"nickname"}]
    [] s = "add nickname_fold" -> [f EXCEPT !.users = @ \cup {"nickname_fold"}]
    [] s = "create index"      -> [f EXCEPT !.index = TRUE]
    [] s = "copy rows"         -> [f EXCEPT !.scratch = f.rows]
    [] s = "drop table"        -> [f EXCEPT !.progress = {}, !.rows = NoRows]
    [] s = "rename table"      -> [f EXCEPT !.progress = {"deck"}, !.rows = f.scratch, !.scratch = NoRows]
    [] s = "move rows"         -> [f EXCEPT !.rows = Moved(@)]
    [] s = "move log"          -> [f EXCEPT !.log = MovedLog(@)]

Statements == {"create progress", "create review", "create users", "add given", "add answer_ms",
  "add nickname", "add nickname_fold", "create index", "copy rows", "drop table", "rename table",
  "move rows", "move log"}

-----------------------------------------------------------------------------
(* What is put in front of the rest when the columns have been looked at.  *)

RebuildUnprotected(f) ==
  IF "lemma" \in f.progress THEN <<"copy rows", "drop table", "rename table">> ELSE <<>>

\* migrateProgressToDecks.
Rebuild(f) ==
  IF "lemma" \in f.progress THEN <<"begin", "copy rows", "drop table", "rename table", "commit">> ELSE <<>>

AddAnswersByLast(f) ==
  IF "answer_ms" \in f.review THEN <<>> ELSE <<"add given", "add answer_ms">>

\* migrateReviewAddAnswer: each column on its own.
AddAnswers(f) ==
  (IF "given" \in f.review THEN <<>> ELSE <<"add given">>) \o
  (IF "answer_ms" \in f.review THEN <<>> ELSE <<"add answer_ms">>)

\* addNicknameColumns: two ALTERs in one Exec, each committed on its own, when
\* the first column is missing.
AddNicknames(f) ==
  IF "nickname" \in f.users THEN <<>> ELSE <<"add nickname", "add nickname_fold">>

OpenStudy == <<"rebuild?", "create progress", "create review", "answers?">>
OpenIdentity == <<"create users", "nicknames?", "create index">>
ServerTodo == OpenStudy \o OpenIdentity \o <<"listen">>
ClaimTodo == OpenIdentity \o OpenStudy
             \o <<"account?", "pending?", "begin", "move rows", "move log", "commit">>

-----------------------------------------------------------------------------
(* Processes.                                                              *)

Todo(p) == proc[p].todo
Serving(p) == proc[p].kind = "server" /\ Todo(p) = <<>>
Do(p, todo) == proc' = [proc EXCEPT ![p].todo = todo]
Doing(p, s) == Todo(p) # <<>> /\ Head(Todo(p)) = s

InTx(p) == tx # None /\ tx.by = p
View(p) == IF InTx(p) THEN tx.file ELSE file

\* What was not committed is gone.
Exit(p) == /\ proc' = [proc EXCEPT ![p] = Down]
           /\ tx' = IF InTx(p) THEN None ELSE tx

StartServer(p) ==
  /\ proc[p] = Down
  /\ proc' = [proc EXCEPT ![p] = [kind |-> "server", todo |-> ServerTodo]]
  /\ UNCHANGED <<file, tx, faults, claims, studied>>

StartClaim(p) ==
  /\ proc[p] = Down /\ \A q \in Processes : proc[q].kind # "claim"
  /\ claims < MaxClaims /\ claims' = claims + 1
  /\ proc' = [proc EXCEPT ![p] = [kind |-> "claim", todo |-> ClaimTodo]]
  /\ UNCHANGED <<file, tx, faults, studied>>

\* A look: at the columns of a table, at the account, at what there is to move.
Look(p) ==
  LET rest == Tail(Todo(p))
  IN  /\ \/ Doing(p, "rebuild?")   /\ Do(p, Rebuild(file) \o rest) /\ UNCHANGED tx
         \/ Doing(p, "answers?")   /\ Do(p, AddAnswers(file) \o rest) /\ UNCHANGED tx
         \/ Doing(p, "nicknames?") /\ Do(p, AddNicknames(file) \o rest) /\ UNCHANGED tx
         \/ Doing(p, "account?")   /\ IF file.verified THEN Do(p, rest) /\ UNCHANGED tx ELSE Exit(p)
         \/ /\ Doing(p, "pending?") /\ UNCHANGED tx
            /\ Do(p, IF \E i \in Items : file.rows[<<Local, i>>] # None THEN rest ELSE <<>>)
      /\ UNCHANGED <<file, faults, claims, studied>>

Begin(p) ==
  /\ Doing(p, "begin") /\ tx = None
  /\ tx' = [by |-> p, file |-> file] /\ Do(p, Tail(Todo(p)))
  /\ UNCHANGED <<file, faults, claims, studied>>

Commit(p) ==
  /\ Doing(p, "commit")
  /\ file' = tx.file /\ tx' = None /\ Do(p, Tail(Todo(p)))
  /\ UNCHANGED <<faults, claims, studied>>

\* A statement waits for the transaction of another process; one that SQLite
\* refuses ends the start.
Execute(p) ==
  /\ \E s \in Statements : /\ Doing(p, s) /\ (tx = None \/ InTx(p))
       /\ IF ~Accepts(s, View(p)) THEN Exit(p) /\ UNCHANGED file
          ELSE /\ Do(p, Tail(Todo(p)))
               /\ IF InTx(p) THEN tx' = [tx EXCEPT !.file = Effect(s, @)] /\ UNCHANGED file
                             ELSE file' = Effect(s, file) /\ UNCHANGED tx
  /\ UNCHANGED <<faults, claims, studied>>

\* The port is free, or it is not.
Listen(p) ==
  /\ Doing(p, "listen")
  /\ IF \E q \in Processes : Serving(q) THEN Exit(p) ELSE Do(p, <<>>) /\ UNCHANGED tx
  /\ UNCHANGED <<file, faults, claims, studied>>

\* uebung-claim has nothing left to do.
EndClaim(p) ==
  /\ proc[p] = [kind |-> "claim", todo |-> <<>>]
  /\ Exit(p)
  /\ UNCHANGED <<file, faults, claims, studied>>

\* A busy database, a full disk, an interrupt, a crash: what was not committed
\* is gone.
Die(p) ==
  /\ proc[p] # Down /\ faults < MaxFaults /\ faults' = faults + 1
  /\ Exit(p)
  /\ UNCHANGED <<file, claims, studied>>

\* What the release's own queries need (SaveUser and SetNickname among them).
Usable(f) ==
  /\ f.progress = {"deck"} /\ f.review = {"rating", "given", "answer_ms"}
  /\ f.users = {"email", "nickname", "nickname_fold"} /\ f.index

\* The account studies, Save: the row and the review, in one transaction.  Nobody
\* is the local learner any more.
Grade(p, i) ==
  LET c == <<Account, i>>
  IN  /\ Serving(p) /\ tx = None /\ Usable(file) /\ file.verified
      /\ file' = [file EXCEPT !.rows[c] = Account, !.log[Account] = @ \cup {c}]
      /\ studied' = studied \cup {c}
      /\ UNCHANGED <<tx, proc, faults, claims>>

\* Somebody signs in: the account is there, and verified.
SignIn(p) ==
  /\ Serving(p) /\ tx = None /\ Usable(file)
  /\ file' = [file EXCEPT !.verified = TRUE]
  /\ UNCHANGED <<tx, proc, faults, claims, studied>>

\* The server is stopped, to be replaced or for a claim.
Stop(p) ==
  /\ Serving(p)
  /\ Exit(p)
  /\ UNCHANGED <<file, faults, claims, studied>>

Step(p) == Look(p) \/ Begin(p) \/ Commit(p) \/ Execute(p) \/ Listen(p) \/ EndClaim(p)

Next ==
  \E p \in Processes :
    \/ StartServer(p) \/ StartClaim(p) \/ Step(p) \/ Die(p) \/ Stop(p)
    \/ SignIn(p) \/ \E i \in Items : Grade(p, i)

Spec == Init /\ [][Next]_vars

\* The watchdog starts a server that is down, and a process that runs goes on.
FairSpec == Spec /\ \A p \in Processes : WF_vars(StartServer(p)) /\ WF_vars(Step(p))

-----------------------------------------------------------------------------
TypeOK ==
  /\ file \in File
  /\ tx = None \/ (tx.by \in Processes /\ proc[tx.by] # Down /\ tx.file \in File)
  /\ \A p \in Processes : proc[p].kind \in {"down", "server", "claim"}
  /\ faults \in 0..MaxFaults /\ claims \in 0..MaxClaims
  /\ studied \subseteq Cards

\* A card that was ever answered has a row, whatever was interrupted: "a crash
\* mid-migration rolls back to the old table intact" (sqlitedb.go:251).  A claimed
\* one may be the account's.  And a server that listens can run every query it
\* has: Open has brought the file up to date, or has refused it.
NoCardLost ==
  /\ TypeOK
  /\ \A c \in studied :
       \/ file.rows[c] # None
       \/ c[1] = Local /\ file.rows[<<Account, c[2]>>] # None
  /\ (\E p \in Processes : Serving(p)) => Usable(file)

\* A claim that has come to its end has moved everything it could, the log in
\* full: no "deck with no history behind it" (sqlitedb_test.go:454).  Where the
\* account had a schedule of its own, that "wins" (sqlitedb.go:807).
ClaimIsWhole ==
  \A p \in Processes : proc[p] = [kind |-> "claim", todo |-> <<>>] =>
    /\ file.verified /\ Usable(file) => file.log[Local] = {}
    /\ \A i \in Items : file.rows[<<Local, i>>] # None => file.rows[<<Account, i>>] = Account

\* The state that a start cannot leave again: see ComesBackAlways.
HalfNamed == "nickname" \in file.users /\ "nickname_fold" \notin file.users

\* However a migration was interrupted, the next starts complete it ("is completed
\* on the next start", sqlitedb.go:363) - except for the nickname columns.
ComesBack == []<>(HalfNamed \/ \E p \in Processes : Serving(p))

\* The same for the nickname columns: addNicknameColumns "brings an existing users
\* table up to date" (sqlitedb.go:122 of the identity store).
ComesBackAlways == []<>(\E p \in Processes : Serving(p))
=============================================================================
