--------------------------- MODULE MigrationProofs ---------------------------
(***************************************************************************)
(* Proofs about Migration: for any number of servers and claims starting,  *)
(* stopping and dying at once, any files that earlier releases have left   *)
(* behind, and any cards.                                                  *)
(***************************************************************************)
EXTENDS Migration, TLAPS

-----------------------------------------------------------------------------
(* The lists of things to do.                                              *)

Steps == Statements \cup {"begin", "commit", "listen", "rebuild?", "answers?", "nicknames?",
                          "account?", "pending?"}

\* What is only done inside a transaction.
Inside == {"copy rows", "drop table", "rename table", "move rows", "move log", "commit"}

\* What may come right after what: a transaction is never interleaved with anything
\* else, and nothing of it is outside.
Follows(a, b) ==
  /\ a = "begin" <=> b \in {"copy rows", "move rows"}
  /\ a = "copy rows" <=> b = "drop table"
  /\ a = "drop table" <=> b = "rename table"
  /\ a = "move rows" <=> b = "move log"
  /\ a \in {"rename table", "move log"} <=> b = "commit"

\* What must not come before what.
Misplaced(a, b) ==
  \/ a = "listen"
  \/ a = "pending?" /\ b \notin {"begin", "move rows", "move log", "commit"}
  \/ a = "move rows" /\ b \notin {"move log", "commit"}
  \/ a = "create progress" /\ b \in {"rebuild?", "rename table"}
  \/ a \in {"answers?", "add given", "add answer_ms"} /\ b = "create review"
  \/ a \in {"nicknames?", "add nickname", "add nickname_fold"} /\ b = "create users"

Good(t) ==
  /\ \A i \in 1..Len(t) - 1 : Follows(t[i], t[i + 1])
  /\ t # <<>> => t[Len(t)] \notin {"begin"} \cup (Inside \ {"commit"})
  /\ \A i, j \in 1..Len(t) : i < j => ~Misplaced(t[i], t[j])

-----------------------------------------------------------------------------
(* The inductive invariant, in parts.                                      *)

Process == [kind : {"down", "server", "claim"}, todo : Seq(Steps)]

ProcInv ==
  /\ proc \in [Processes -> Process]
  /\ \A p \in Processes :
       /\ Good(Todo(p))
       /\ proc[p].kind = "down" => proc[p] = Down
       /\ ~InTx(p) /\ Todo(p) # <<>> => Head(Todo(p)) \notin Inside

\* The cards that were answered are there, or are the account's now.
Kept(f) ==
  \A c \in studied :
    \/ f.rows[c] # None
    \/ c[1] = Local /\ f.rows[<<Account, c[2]>>] # None

FileInv == Consistent(file) /\ Kept(file)

\* The file in a rebuild, and in a claim, statement by statement.
Copied(f) == Effect("copy rows", f)
Dropped(f) == Effect("drop table", Copied(f))
Rebuilt(f) == Effect("rename table", Dropped(f))
RowsClaimed(f) == Effect("move rows", f)
LogClaimed(f) == Effect("move log", RowsClaimed(f))

\* The open transaction is one of the two, as far as its process has come.
TxInv ==
  tx # None =>
    /\ tx \in [by : Processes, file : File]
    /\ Todo(tx.by) # <<>>
    /\ LET next == Head(Todo(tx.by))
       IN  \/ next = "copy rows" /\ tx.file = file
           \/ next = "drop table" /\ file.progress = {"lemma"} /\ tx.file = Copied(file)
           \/ next = "rename table" /\ file.progress = {"lemma"} /\ tx.file = Dropped(file)
           \/ next = "commit" /\ tx.file = Rebuilt(file)
           \/ /\ file.progress # {"lemma"}
              /\ \/ next = "move rows" /\ tx.file = file
                 \/ next = "move log" /\ tx.file = RowsClaimed(file)
                 \/ next = "commit" /\ tx.file = LogClaimed(file)

\* A start has done what is no longer on its list.
Has(p, s) == s \in ToSet(Todo(p))

Done(p) ==
  /\ file.progress = {"lemma"} => Has(p, "rebuild?") \/ Has(p, "rename table") \/ InTx(p)
  /\ file.progress = {"deck"} \/ Has(p, "create progress")
  /\ "rating" \in file.review \/ Has(p, "create review")
  /\ "given" \in file.review \/ Has(p, "answers?") \/ Has(p, "add given")
  /\ "answer_ms" \in file.review \/ Has(p, "answers?") \/ Has(p, "add answer_ms")
  /\ "email" \in file.users \/ Has(p, "create users")
  /\ "nickname" \in file.users \/ Has(p, "nicknames?") \/ Has(p, "add nickname")
  /\ file.index \/ Has(p, "create index")

\* Nothing is left to claim.
Claimed(f) ==
  /\ f.log[Local] = {}
  /\ \A i \in Items : f.rows[<<Local, i>>] # None => f.rows[<<Account, i>>] = Account

\* A claim has the log before it, in its transaction, or behind it.
ClaimInv(p) ==
  \/ Has(p, "move log")
  \/ InTx(p) /\ Head(Todo(p)) = "commit" /\ tx.file = LogClaimed(file)
  \/ Claimed(file)

StartInv ==
  \A p \in Processes : /\ proc[p].kind # "down" => Done(p)
                       /\ proc[p].kind = "claim" => ClaimInv(p)

IInv == TypeOK /\ ProcInv /\ FileInv /\ TxInv /\ StartInv

-----------------------------------------------------------------------------
(* Lists.                                                                  *)

\* What a list is without its first step.
LEMMA TailFacts ==
  ASSUME NEW t \in Seq(Steps), t # <<>>
  PROVE  /\ Len(t) \in Nat \ {0} /\ Head(t) = t[1] /\ Head(t) \in Steps
         /\ Tail(t) \in Seq(Steps) /\ Len(Tail(t)) = Len(t) - 1
         /\ \A i \in 1..Len(t) - 1 : Tail(t)[i] = t[i + 1]
         /\ ToSet(t) = {Head(t)} \cup ToSet(Tail(t))
<1>1. /\ Len(t) \in Nat \ {0} /\ Head(t) = t[1] /\ Head(t) \in Steps
      /\ Tail(t) \in Seq(Steps) /\ Len(Tail(t)) = Len(t) - 1
      /\ \A i \in 1..Len(t) - 1 : Tail(t)[i] = t[i + 1]
  OBVIOUS
<1>2. DOMAIN t = 1..Len(t) /\ DOMAIN Tail(t) = 1..(Len(t) - 1)
  BY <1>1
<1>3. \A i \in 1..Len(t) : i = 1 \/ (i - 1 \in 1..Len(t) - 1 /\ t[i] = Tail(t)[i - 1])
  BY <1>1
<1>4. ToSet(t) = {t[i] : i \in 1..Len(t)} /\ ToSet(Tail(t)) = {Tail(t)[i] : i \in 1..Len(t) - 1}
  BY <1>2 DEF ToSet
<1>5. \A i \in 1..Len(t) - 1 : i + 1 \in 1..Len(t)
  BY <1>1
<1>6. 1 \in 1..Len(t)
  BY <1>1
<1> HIDE DEF ToSet
<1>7. ToSet(t) \subseteq {Head(t)} \cup ToSet(Tail(t))
  BY <1>1, <1>3, <1>4
<1>8. {Head(t)} \cup ToSet(Tail(t)) \subseteq ToSet(t)
  BY <1>1, <1>4, <1>5, <1>6
<1> QED BY <1>1, <1>7, <1>8

\* An empty list, and a list of one step.
LEMMA ShortLists ==
  /\ Good(<<>>) /\ ToSet(<<>>) = {}
  /\ \A t \in Seq(Steps) : t = <<>> \/ ToSet(t) # {}
<1>1. Good(<<>>)
  BY DEF Good
<1>2. ToSet(<<>>) = {}
  BY DEF ToSet
<1>3. \A t \in Seq(Steps) : t = <<>> \/ Head(t) \in ToSet(t)
  BY TailFacts
<1> QED BY <1>1, <1>2, <1>3

\* What is left of a good list is good, and fits what was done.
LEMMA TailGood ==
  ASSUME NEW t \in Seq(Steps), t # <<>>, Good(t)
  PROVE  /\ Good(Tail(t))
         /\ Tail(t) # <<>> => Follows(Head(t), Head(Tail(t)))
         /\ Tail(t) = <<>> => Head(t) \notin {"begin"} \cup (Inside \ {"commit"})
         /\ \A s \in ToSet(Tail(t)) : ~Misplaced(Head(t), s)
<1>1. /\ Len(t) \in Nat \ {0} /\ Head(t) = t[1]
      /\ Tail(t) \in Seq(Steps) /\ Len(Tail(t)) = Len(t) - 1
      /\ \A i \in 1..Len(t) - 1 : Tail(t)[i] = t[i + 1]
  BY TailFacts
<1>2. \A i \in 1..Len(Tail(t)) - 1 : Follows(Tail(t)[i], Tail(t)[i + 1])
  <2>1. \A i \in 1..Len(t) - 1 : Follows(t[i], t[i + 1])
    BY DEF Good
  <2>2. \A i \in 1..Len(Tail(t)) - 1 : i \in 1..Len(t) - 1 /\ i + 1 \in 1..Len(t) - 1
    BY <1>1
  <2> QED BY <1>1, <2>1, <2>2
<1>3. Tail(t) # <<>> => Tail(t)[Len(Tail(t))] = t[Len(t)]
  <2>1. Tail(t) # <<>> => Len(Tail(t)) \in 1..Len(t) - 1
    BY <1>1
  <2>2. Len(Tail(t)) + 1 = Len(t)
    BY <1>1
  <2> QED BY <1>1, <2>1, <2>2
<1>4. \A i, j \in 1..Len(Tail(t)) : i < j => ~Misplaced(Tail(t)[i], Tail(t)[j])
  <2>1. \A i, j \in 1..Len(t) : i < j => ~Misplaced(t[i], t[j])
    BY DEF Good
  <2>2. \A i \in 1..Len(Tail(t)) : i + 1 \in 1..Len(t) /\ i \in 1..Len(t) - 1
    BY <1>1
  <2>3. \A i, j \in 1..Len(Tail(t)) : i < j => i + 1 < j + 1
    BY <1>1
  <2> QED BY <1>1, <2>1, <2>2, <2>3
<1>5. t[Len(t)] \notin {"begin"} \cup (Inside \ {"commit"})
  BY DEF Good
<1>6. Good(Tail(t))
  BY <1>2, <1>3, <1>4, <1>5 DEF Good
<1>7. Tail(t) # <<>> => Head(Tail(t)) = t[2] /\ 1 \in 1..Len(t) - 1
  BY <1>1
<1>8. Tail(t) # <<>> => Follows(t[1], t[2])
  <2>1. \A i \in 1..Len(t) - 1 : Follows(t[i], t[i + 1])
    BY DEF Good
  <2> QED BY <1>7, <2>1
<1>9. Tail(t) = <<>> => Len(t) = 1
  BY <1>1
<1>10. ASSUME NEW s \in ToSet(Tail(t)) PROVE ~Misplaced(t[1], s)
  <2>1. PICK i \in 1..Len(t) - 1 : s = Tail(t)[i]
    BY <1>1 DEF ToSet
  <2>2. s = t[i + 1] /\ i + 1 \in 1..Len(t) /\ 1 \in 1..Len(t) /\ 1 < i + 1
    BY <1>1, <2>1
  <2> QED BY <2>2 DEF Good
<1> QED BY <1>1, <1>5, <1>6, <1>7, <1>8, <1>9, <1>10

\* A list in front of another.
LEMMA JoinFacts ==
  ASSUME NEW x \in Seq(Steps), NEW t \in Seq(Steps)
  PROVE  /\ x \o t \in Seq(Steps) /\ Len(x \o t) = Len(x) + Len(t)
         /\ Len(x) \in Nat /\ Len(t) \in Nat
         /\ \A i \in 1..Len(x) : (x \o t)[i] = x[i]
         /\ \A i \in 1..Len(t) : (x \o t)[Len(x) + i] = t[i]
         /\ \A i \in 1..Len(x) + Len(t) :
              i \in 1..Len(x) \/ \E j \in 1..Len(t) : i = Len(x) + j
         /\ ToSet(x \o t) = ToSet(x) \cup ToSet(t)
<1>1. /\ x \o t \in Seq(Steps) /\ Len(x \o t) = Len(x) + Len(t)
      /\ Len(x) \in Nat /\ Len(t) \in Nat
      /\ \A i \in 1..Len(x) : (x \o t)[i] = x[i]
      /\ \A i \in 1..Len(t) : (x \o t)[Len(x) + i] = t[i]
  OBVIOUS
<1>2. ASSUME NEW i \in 1..Len(x) + Len(t)
      PROVE  i \in 1..Len(x) \/ \E j \in 1..Len(t) : i = Len(x) + j
  <2>1. CASE i <= Len(x)
    BY <1>1, <2>1
  <2>2. CASE i > Len(x)
    <3>1. i - Len(x) \in 1..Len(t) /\ i = Len(x) + (i - Len(x))
      BY <1>1, <2>2
    <3> QED BY <3>1
  <2> QED BY <1>1, <2>1, <2>2
<1>3. /\ ToSet(x \o t) = {(x \o t)[i] : i \in 1..Len(x) + Len(t)}
      /\ ToSet(x) = {x[i] : i \in 1..Len(x)} /\ ToSet(t) = {t[i] : i \in 1..Len(t)}
  BY <1>1 DEF ToSet
<1>4. ToSet(x \o t) \subseteq ToSet(x) \cup ToSet(t)
  BY <1>1, <1>2, <1>3
<1>5. \A i \in 1..Len(t) : Len(x) + i \in 1..Len(x) + Len(t)
  BY <1>1
<1>6. \A i \in 1..Len(x) : i \in 1..Len(x) + Len(t)
  BY <1>1
<1>7. ToSet(x) \cup ToSet(t) \subseteq ToSet(x \o t)
  BY <1>1, <1>3, <1>5, <1>6
<1> QED BY <1>1, <1>2, <1>4, <1>7

\* Two good lists that fit make a good one.
LEMMA JoinGood ==
  ASSUME NEW x \in Seq(Steps), NEW t \in Seq(Steps), Good(x), Good(t),
         x # <<>> /\ t # <<>> => Follows(x[Len(x)], Head(t)),
         \A a \in ToSet(x), b \in ToSet(t) : ~Misplaced(a, b)
  PROVE  Good(x \o t)
<1> DEFINE z == x \o t
<1>1. /\ z \in Seq(Steps) /\ Len(z) = Len(x) + Len(t)
      /\ Len(x) \in Nat /\ Len(t) \in Nat
      /\ \A i \in 1..Len(x) : z[i] = x[i]
      /\ \A i \in 1..Len(t) : z[Len(x) + i] = t[i]
      /\ \A i \in 1..Len(z) : i \in 1..Len(x) \/ \E j \in 1..Len(t) : i = Len(x) + j
  BY JoinFacts
<1> HIDE DEF z
<1>2. ASSUME NEW i \in 1..Len(z) - 1 PROVE Follows(z[i], z[i + 1])
  <2>1. CASE i <= Len(x) - 1
    <3>1. i \in 1..Len(x) - 1 /\ i \in 1..Len(x) /\ i + 1 \in 1..Len(x)
      BY <1>1, <2>1
    <3> QED BY <1>1, <3>1 DEF Good
  <2>2. CASE i = Len(x)
    <3>1. i \in 1..Len(x) /\ 1 \in 1..Len(t) /\ i + 1 = Len(x) + 1 /\ x # <<>> /\ t # <<>>
      BY <1>1, <2>2
    <3>2. z[i] = x[Len(x)] /\ z[i + 1] = t[1] /\ Head(t) = t[1]
      BY <1>1, <2>2, <3>1
    <3> QED BY <3>1, <3>2
  <2>3. CASE i > Len(x)
    <3> i \in 1..Len(z) /\ i \notin 1..Len(x)
      BY <1>1, <2>3
    <3>1. PICK j \in 1..Len(t) : i = Len(x) + j
      BY <1>1
    <3>2. j \in 1..Len(t) - 1 /\ j + 1 \in 1..Len(t) /\ i + 1 = Len(x) + (j + 1)
      BY <1>1, <3>1
    <3>3. z[i] = t[j] /\ z[i + 1] = t[j + 1]
      BY <1>1, <3>1, <3>2
    <3> QED BY <3>2, <3>3 DEF Good
  <2> QED BY <1>1, <2>1, <2>2, <2>3
<1>3. z # <<>> => z[Len(z)] \notin {"begin"} \cup (Inside \ {"commit"})
  <2>1. CASE t # <<>>
    <3>1. Len(t) \in 1..Len(t) /\ z[Len(z)] = t[Len(t)]
      BY <1>1, <2>1
    <3> QED BY <2>1, <3>1 DEF Good
  <2>2. CASE t = <<>> /\ x # <<>>
    <3>1. Len(x) \in 1..Len(x) /\ Len(z) = Len(x) /\ z[Len(z)] = x[Len(x)]
      BY <1>1, <2>2
    <3> QED BY <2>2, <3>1 DEF Good
  <2>3. CASE t = <<>> /\ x = <<>>
    BY <1>1, <2>3
  <2> QED BY <2>1, <2>2, <2>3
<1>4. ASSUME NEW i \in 1..Len(z), NEW j \in 1..Len(z), i < j PROVE ~Misplaced(z[i], z[j])
  <2>1. CASE j <= Len(x)
    <3>1. i \in 1..Len(x) /\ j \in 1..Len(x)
      BY <1>1, <1>4, <2>1
    <3> QED BY <1>1, <1>4, <3>1 DEF Good
  <2>2. CASE i > Len(x)
    <3>1. PICK k \in 1..Len(t) : i = Len(x) + k
      BY <1>1, <2>2
    <3>2. PICK l \in 1..Len(t) : j = Len(x) + l
      BY <1>1, <1>4, <2>2
    <3>3. k < l
      BY <1>1, <1>4, <3>1, <3>2
    <3> QED BY <1>1, <3>1, <3>2, <3>3 DEF Good
  <2>3. CASE i <= Len(x) /\ j > Len(x)
    <3> j \in 1..Len(z) /\ j \notin 1..Len(x)
      BY <1>1, <2>3
    <3>1. PICK l \in 1..Len(t) : j = Len(x) + l
      BY <1>1
    <3>2. i \in 1..Len(x) /\ z[i] = x[i] /\ z[j] = t[l]
      BY <1>1, <2>3, <3>1
    <3>3. x[i] \in ToSet(x) /\ t[l] \in ToSet(t)
      BY <3>2 DEF ToSet
    <3> QED BY <3>2, <3>3
  <2>4. i \in Int /\ j \in Int /\ Len(x) \in Int
    BY <1>1
  <2>5. j <= Len(x) \/ i > Len(x) \/ (i <= Len(x) /\ j > Len(x))
    BY <2>4
  <2> QED BY <2>1, <2>2, <2>3, <2>5
<1> QED BY <1>2, <1>3, <1>4 DEF Good, z

\* It begins with the first one and ends with the second.
LEMMA JoinEnds ==
  ASSUME NEW x \in Seq(Steps), NEW t \in Seq(Steps), x # <<>>, t # <<>>
  PROVE  /\ x \o t # <<>> /\ Head(x \o t) = Head(x)
         /\ (x \o t)[Len(x \o t)] = t[Len(t)]
<1> DEFINE z == x \o t
<1>1. Len(x) \in Nat \ {0} /\ Len(t) \in Nat \ {0} /\ Head(x) = x[1]
  BY TailFacts
<1>2. /\ z \in Seq(Steps) /\ Len(z) = Len(x) + Len(t)
      /\ \A i \in 1..Len(x) : z[i] = x[i]
      /\ \A i \in 1..Len(t) : z[Len(x) + i] = t[i]
  BY JoinFacts
<1> HIDE DEF z
<1>3. 1 \in 1..Len(x) /\ Len(t) \in 1..Len(t) /\ Len(z) # 0
  BY <1>1, <1>2
<1>4. z # <<>>
  BY <1>3
<1>5. Head(z) = z[1]
  BY <1>2, <1>4, TailFacts
<1> QED BY <1>1, <1>2, <1>3, <1>4, <1>5 DEF z

-----------------------------------------------------------------------------
(* The lists there are.                                                    *)

Rebuilding == <<"begin", "copy rows", "drop table", "rename table", "commit">>
Claiming == <<"account?", "pending?", "begin", "move rows", "move log", "commit">>

\* Lists of one step, of two.
LEMMA SmallLists ==
  /\ \A a \in Steps : /\ <<a>> \in Seq(Steps) /\ ToSet(<<a>>) = {a}
                      /\ Head(<<a>>) = a /\ <<a>>[Len(<<a>>)] = a
  /\ \A a, b \in Steps : /\ <<a, b>> \in Seq(Steps) /\ ToSet(<<a, b>>) = {a, b}
                         /\ Head(<<a, b>>) = a /\ <<a, b>>[Len(<<a, b>>)] = b
<1>1. \A a \in Steps : /\ <<a>> \in Seq(Steps) /\ Head(<<a>>) = a /\ Len(<<a>>) = 1
                      /\ DOMAIN <<a>> = {1} /\ <<a>>[1] = a
  OBVIOUS
<1>2. \A a, b \in Steps : /\ <<a, b>> \in Seq(Steps) /\ Head(<<a, b>>) = a
                         /\ Len(<<a, b>>) = 2
                         /\ DOMAIN <<a, b>> = {1, 2} /\ <<a, b>>[1] = a /\ <<a, b>>[2] = b
  OBVIOUS
<1> QED BY <1>1, <1>2 DEF ToSet

\* A list of one step is good, one of two if they fit.
LEMMA SmallGood ==
  /\ \A a \in Steps : a \notin {"begin"} \cup (Inside \ {"commit"}) => Good(<<a>>)
  /\ \A a, b \in Steps :
       /\ Follows(a, b) /\ ~Misplaced(a, b)
       /\ b \notin {"begin"} \cup (Inside \ {"commit"})
       => Good(<<a, b>>)
<1>1. ASSUME NEW a \in Steps, a \notin {"begin"} \cup (Inside \ {"commit"}) PROVE Good(<<a>>)
  <2> DEFINE t == <<a>>
  <2>1. Len(t) = 1 /\ t[1] = a
    OBVIOUS
  <2> HIDE DEF t
  <2>2. \A i \in 1..Len(t) - 1 : Follows(t[i], t[i + 1])
    BY <2>1
  <2>3. \A i, j \in 1..Len(t) : ~(i < j)
    BY <2>1
  <2>4. Good(t)
    BY <1>1, <2>1, <2>2, <2>3 DEF Good
  <2> QED BY <2>4 DEF t
<1>2. ASSUME NEW a \in Steps, NEW b \in Steps, Follows(a, b), ~Misplaced(a, b),
             b \notin {"begin"} \cup (Inside \ {"commit"})
      PROVE  Good(<<a, b>>)
  <2> DEFINE t == <<a, b>>
  <2>1. Len(t) = 2 /\ t[1] = a /\ t[2] = b
    OBVIOUS
  <2> HIDE DEF t
  <2>2. \A i \in 1..Len(t) - 1 : i = 1 /\ i + 1 = 2
    BY <2>1
  <2>3. \A i, j \in 1..Len(t) : i < j => i = 1 /\ j = 2
    BY <2>1
  <2>4. Good(t)
    BY <1>2, <2>1, <2>2, <2>3 DEF Good
  <2> QED BY <2>4 DEF t
<1> QED BY <1>1, <1>2

\* The rebuild.
LEMMA RebuildingGood ==
  /\ Rebuilding \in Seq(Steps) /\ Rebuilding # <<>> /\ Head(Rebuilding) = "begin"
  /\ Rebuilding[Len(Rebuilding)] = "commit"
  /\ ToSet(Rebuilding) = {"begin", "copy rows", "drop table", "rename table", "commit"}
  /\ Good(Rebuilding)
<1> DEFINE t == Rebuilding
<1>1. t \in Seq(Steps) /\ t # <<>> /\ Head(t) = "begin"
  BY DEF Rebuilding, Steps, Statements
<1>2. Len(t) = 5
  BY DEF Rebuilding
<1>3. /\ t[1] = "begin" /\ t[2] = "copy rows" /\ t[3] = "drop table"
      /\ t[4] = "rename table" /\ t[5] = "commit"
  BY DEF Rebuilding
<1>4. DOMAIN t = {1, 2, 3, 4, 5}
  BY DEF Rebuilding
<1> HIDE DEF t
<1>5. ToSet(t) = {t[1], t[2], t[3], t[4], t[5]}
  BY <1>4 DEF ToSet
<1>6. \A i \in 1..Len(t) - 1 : i \in {1, 2, 3, 4}
  BY <1>2
<1>7. /\ Follows(t[1], t[2]) /\ Follows(t[2], t[3]) /\ Follows(t[3], t[4])
      /\ Follows(t[4], t[5])
  BY <1>3 DEF Follows
<1>8. \A i \in {1, 2, 3, 4} : Follows(t[i], t[i + 1])
  BY <1>7
<1>9. \A i \in 1..Len(t) : i \in {1, 2, 3, 4, 5}
  BY <1>2
<1>10. \A i \in {1, 2, 3, 4, 5} : \A s : ~Misplaced(t[i], s)
  BY <1>3 DEF Misplaced
<1>11. t[Len(t)] = "commit"
  BY <1>2, <1>3
<1>12. t[Len(t)] \notin {"begin"} \cup (Inside \ {"commit"})
  BY <1>11 DEF Inside
<1>13. Good(t)
  BY <1>6, <1>8, <1>9, <1>10, <1>12 DEF Good
<1> QED BY <1>1, <1>3, <1>5, <1>11, <1>13 DEF t

\* What a claim does after its migrations.
LEMMA ClaimingGood ==
  /\ Claiming \in Seq(Steps) /\ Claiming # <<>> /\ Head(Claiming) = "account?"
  /\ ToSet(Claiming) = {"account?", "pending?", "begin", "move rows", "move log", "commit"}
  /\ Good(Claiming)
<1> DEFINE t == Claiming
<1>1. t \in Seq(Steps) /\ t # <<>> /\ Head(t) = "account?"
  BY DEF Claiming, Steps, Statements
<1>2. Len(t) = 6
  BY DEF Claiming
<1>3. /\ t[1] = "account?" /\ t[2] = "pending?" /\ t[3] = "begin"
      /\ t[4] = "move rows" /\ t[5] = "move log" /\ t[6] = "commit"
  BY DEF Claiming
<1>4. DOMAIN t = {1, 2, 3, 4, 5, 6}
  BY DEF Claiming
<1> HIDE DEF t
<1>5. ToSet(t) = {t[1], t[2], t[3], t[4], t[5], t[6]}
  BY <1>4 DEF ToSet
<1>6. \A i \in 1..Len(t) - 1 : i \in {1, 2, 3, 4, 5}
  BY <1>2
<1>7. /\ Follows(t[1], t[2]) /\ Follows(t[2], t[3]) /\ Follows(t[3], t[4])
      /\ Follows(t[4], t[5]) /\ Follows(t[5], t[6])
  BY <1>3 DEF Follows
<1>8. \A i \in {1, 2, 3, 4, 5} : Follows(t[i], t[i + 1])
  BY <1>7
<1>9. \A i \in 1..Len(t) : i \in {1, 2, 3, 4, 5, 6}
  BY <1>2
<1>10. \A i, j \in {1, 2, 3, 4, 5, 6} : i < j => ~Misplaced(t[i], t[j])
  <2>1. \A s : /\ ~Misplaced(t[1], s) /\ ~Misplaced(t[3], s)
               /\ ~Misplaced(t[5], s) /\ ~Misplaced(t[6], s)
    BY <1>3 DEF Misplaced
  <2>2. \A j \in {3, 4, 5, 6} : ~Misplaced(t[2], t[j])
    BY <1>3 DEF Misplaced
  <2>3. \A j \in {5, 6} : ~Misplaced(t[4], t[j])
    BY <1>3 DEF Misplaced
  <2>4. \A j \in {1, 2, 3, 4, 5, 6} : (2 < j => j \in {3, 4, 5, 6}) /\ (4 < j => j \in {5, 6})
    OBVIOUS
  <2> QED BY <2>1, <2>2, <2>3, <2>4
<1>11. t[Len(t)] = "commit"
  BY <1>2, <1>3
<1>12. t[Len(t)] \notin {"begin"} \cup (Inside \ {"commit"})
  BY <1>11 DEF Inside
<1>13. Good(t)
  BY <1>6, <1>8, <1>9, <1>10, <1>12 DEF Good
<1> QED BY <1>1, <1>3, <1>5, <1>11, <1>13 DEF t

\* The two Opens.
LEMMA OpensGood ==
  /\ OpenStudy \in Seq(Steps) /\ OpenStudy # <<>> /\ Head(OpenStudy) = "rebuild?"
  /\ OpenStudy[Len(OpenStudy)] = "answers?"
  /\ ToSet(OpenStudy) = {"rebuild?", "create progress", "create review", "answers?"}
  /\ Good(OpenStudy)
  /\ OpenIdentity \in Seq(Steps) /\ OpenIdentity # <<>> /\ Head(OpenIdentity) = "create users"
  /\ OpenIdentity[Len(OpenIdentity)] = "create index"
  /\ ToSet(OpenIdentity) = {"create users", "nicknames?", "create index"}
  /\ Good(OpenIdentity)
<1>1. /\ OpenStudy \in Seq(Steps) /\ OpenStudy # <<>> /\ Head(OpenStudy) = "rebuild?"
      /\ OpenStudy[Len(OpenStudy)] = "answers?"
      /\ ToSet(OpenStudy) = {"rebuild?", "create progress", "create review", "answers?"}
      /\ Good(OpenStudy)
  <2> DEFINE t == OpenStudy
  <2>1. t \in Seq(Steps) /\ t # <<>> /\ Head(t) = "rebuild?"
    BY DEF OpenStudy, Steps, Statements
  <2>2. Len(t) = 4
    BY DEF OpenStudy
  <2>3. /\ t[1] = "rebuild?" /\ t[2] = "create progress"
        /\ t[3] = "create review" /\ t[4] = "answers?"
    BY DEF OpenStudy
  <2>4. DOMAIN t = {1, 2, 3, 4}
    BY DEF OpenStudy
  <2> HIDE DEF t
  <2>5. ToSet(t) = {t[1], t[2], t[3], t[4]}
    BY <2>4 DEF ToSet
  <2>6. \A i \in 1..Len(t) - 1 : i \in {1, 2, 3}
    BY <2>2
  <2>7. Follows(t[1], t[2]) /\ Follows(t[2], t[3]) /\ Follows(t[3], t[4])
    BY <2>3 DEF Follows
  <2>8. \A i \in {1, 2, 3} : Follows(t[i], t[i + 1])
    BY <2>7
  <2>9. \A i \in 1..Len(t) : i \in {1, 2, 3, 4}
    BY <2>2
  <2>10. \A i, j \in {1, 2, 3, 4} : i < j => ~Misplaced(t[i], t[j])
    <3>1. \A j \in {2, 3, 4} : ~Misplaced(t[1], t[j]) /\ ~Misplaced(t[2], t[j])
      BY <2>3 DEF Misplaced
    <3>2. ~Misplaced(t[3], t[4])
      BY <2>3 DEF Misplaced
    <3>3. \A j \in {1, 2, 3, 4} : (1 < j => j \in {2, 3, 4}) /\ (3 < j => j = 4)
      OBVIOUS
    <3>4. \A j \in {1, 2, 3, 4} : ~(4 < j) /\ (2 < j => j \in {2, 3, 4})
      OBVIOUS
    <3> QED BY <3>1, <3>2, <3>3, <3>4
  <2>11. t[Len(t)] = "answers?"
    BY <2>2, <2>3
  <2>12. t[Len(t)] \notin {"begin"} \cup (Inside \ {"commit"})
    BY <2>11 DEF Inside
  <2>13. Good(t)
    BY <2>6, <2>8, <2>9, <2>10, <2>12 DEF Good
  <2> QED BY <2>1, <2>3, <2>5, <2>11, <2>13 DEF t
<1>2. /\ OpenIdentity \in Seq(Steps) /\ OpenIdentity # <<>>
      /\ Head(OpenIdentity) = "create users"
      /\ OpenIdentity[Len(OpenIdentity)] = "create index"
      /\ ToSet(OpenIdentity) = {"create users", "nicknames?", "create index"}
      /\ Good(OpenIdentity)
  <2> DEFINE t == OpenIdentity
  <2>1. t \in Seq(Steps) /\ t # <<>> /\ Head(t) = "create users"
    BY DEF OpenIdentity, Steps, Statements
  <2>2. Len(t) = 3
    BY DEF OpenIdentity
  <2>3. /\ t[1] = "create users" /\ t[2] = "nicknames?"
        /\ t[3] = "create index"
    BY DEF OpenIdentity
  <2>4. DOMAIN t = {1, 2, 3}
    BY DEF OpenIdentity
  <2> HIDE DEF t
  <2>5. ToSet(t) = {t[1], t[2], t[3]}
    BY <2>4 DEF ToSet
  <2>6. \A i \in 1..Len(t) - 1 : i \in {1, 2}
    BY <2>2
  <2>7. Follows(t[1], t[2]) /\ Follows(t[2], t[3])
    BY <2>3 DEF Follows
  <2>8. \A i \in {1, 2} : Follows(t[i], t[i + 1])
    BY <2>7
  <2>9. \A i \in 1..Len(t) : i \in {1, 2, 3}
    BY <2>2
  <2>10. \A i, j \in {1, 2, 3} : i < j => ~Misplaced(t[i], t[j])
    <3>1. ~Misplaced(t[1], t[2]) /\ ~Misplaced(t[1], t[3]) /\ ~Misplaced(t[2], t[3])
      BY <2>3 DEF Misplaced
    <3> QED BY <3>1
  <2>11. t[Len(t)] = "create index"
    BY <2>2, <2>3
  <2>12. t[Len(t)] \notin {"begin"} \cup (Inside \ {"commit"})
    BY <2>11 DEF Inside
  <2>13. Good(t)
    BY <2>6, <2>8, <2>9, <2>10, <2>12 DEF Good
  <2> QED BY <2>1, <2>3, <2>5, <2>11, <2>13 DEF t
<1> QED BY <1>1, <1>2

\* What a server starts with, and what a claim starts with.
LEMMA StartListsGood ==
  /\ ServerTodo \in Seq(Steps) /\ Good(ServerTodo) /\ Head(ServerTodo) \notin Inside
  /\ ClaimTodo \in Seq(Steps) /\ Good(ClaimTodo) /\ Head(ClaimTodo) \notin Inside
  /\ {"rebuild?", "create progress", "create review", "answers?", "create users",
      "nicknames?", "create index"} \subseteq ToSet(ServerTodo) \cap ToSet(ClaimTodo)
  /\ "move log" \in ToSet(ClaimTodo)
<1> DEFINE both == OpenStudy \o OpenIdentity
           htob == OpenIdentity \o OpenStudy
<1>1. \A a \in ToSet(OpenStudy), b \in ToSet(OpenIdentity) : ~Misplaced(a, b) /\ ~Misplaced(b, a)
  BY OpensGood DEF Misplaced
<1>2. Follows("answers?", "create users") /\ Follows("create index", "rebuild?")
  BY DEF Follows
<1>3. both \in Seq(Steps) /\ Good(both) /\ ToSet(both) = ToSet(OpenStudy) \cup ToSet(OpenIdentity)
  BY <1>1, <1>2, OpensGood, JoinFacts, JoinGood
<1>4. htob \in Seq(Steps) /\ Good(htob) /\ ToSet(htob) = ToSet(OpenIdentity) \cup ToSet(OpenStudy)
  BY <1>1, <1>2, OpensGood, JoinFacts, JoinGood
<1>5. Head(both) = "rebuild?" /\ both[Len(both)] = "create index" /\ both # <<>>
  BY OpensGood, JoinEnds
<1>6. Head(htob) = "create users" /\ htob[Len(htob)] = "answers?" /\ htob # <<>>
  BY OpensGood, JoinEnds
<1> HIDE DEF both, htob
<1>7. /\ <<"listen">> \in Seq(Steps) /\ Good(<<"listen">>) /\ ToSet(<<"listen">>) = {"listen"}
      /\ Head(<<"listen">>) = "listen"
  BY SmallLists, SmallGood DEF Steps, Inside
<1>8. \A a \in ToSet(both), b \in {"listen"} : ~Misplaced(a, b)
  BY <1>3, OpensGood DEF Misplaced
<1>9. Follows("create index", "listen") /\ Follows("answers?", "account?")
  BY DEF Follows
<1>10. ServerTodo = both \o <<"listen">>
  BY DEF ServerTodo, both
<1>11. /\ ServerTodo \in Seq(Steps) /\ ToSet(ServerTodo) = ToSet(both) \cup {"listen"}
       /\ Good(ServerTodo)
  <2>1. PICK last : last = <<"listen">>
    OBVIOUS
  <2>2. /\ last \in Seq(Steps) /\ Good(last) /\ ToSet(last) = {"listen"} /\ Head(last) = "listen"
        /\ ServerTodo = both \o last
    BY <1>7, <1>10, <2>1
  <2>3. \A a \in ToSet(both), b \in ToSet(last) : ~Misplaced(a, b)
    BY <1>8, <2>2
  <2>4. Good(both \o last)
    BY <1>3, <1>5, <1>9, <2>2, <2>3, JoinGood
  <2> QED BY <1>3, <2>2, <2>4, JoinFacts
<1>12. Head(ServerTodo) = "rebuild?"
  BY <1>3, <1>5, <1>7, <1>10, JoinEnds
<1>13. \A a \in ToSet(htob), b \in ToSet(Claiming) : ~Misplaced(a, b)
  BY <1>4, OpensGood, ClaimingGood DEF Misplaced
<1>14. ClaimTodo = htob \o Claiming
  BY DEF ClaimTodo, Claiming, htob
<1>15. /\ ClaimTodo \in Seq(Steps) /\ ToSet(ClaimTodo) = ToSet(htob) \cup ToSet(Claiming)
       /\ Good(ClaimTodo)
  BY <1>4, <1>6, <1>9, <1>13, <1>14, ClaimingGood, JoinFacts, JoinGood
<1>16. Head(ClaimTodo) = "create users"
  BY <1>4, <1>6, <1>14, ClaimingGood, JoinEnds
<1> QED BY <1>3, <1>4, <1>11, <1>12, <1>15, <1>16, OpensGood, ClaimingGood DEF Inside

\* After a step outside of transactions comes another one, or the beginning of one.
LEMMA AfterHead ==
  ASSUME NEW t \in Seq(Steps), t # <<>>, Good(t), Head(t) \notin {"begin"} \cup Inside,
         Tail(t) # <<>>
  PROVE  Head(Tail(t)) \notin Inside
<1>1. Follows(Head(t), Head(Tail(t)))
  BY TailGood
<1> QED BY <1>1 DEF Follows, Inside

\* A list is put in front of what is left after a look.
LEMMA PutInFront ==
  ASSUME NEW t \in Seq(Steps), t # <<>>, Good(t), Head(t) \notin {"begin"} \cup Inside,
         NEW x \in Seq(Steps), Good(x), x # <<>> => Head(x) \notin Inside,
         \A a \in ToSet(x), b \in ToSet(Tail(t)) : ~Misplaced(a, b)
  PROVE  /\ x \o Tail(t) \in Seq(Steps) /\ Good(x \o Tail(t))
         /\ x \o Tail(t) # <<>> => Head(x \o Tail(t)) \notin Inside
         /\ ToSet(x \o Tail(t)) = ToSet(x) \cup ToSet(Tail(t))
<1>1. PICK u \in Seq(Steps) : u = Tail(t)
  BY TailFacts
<1>2. Good(u)
  BY <1>1, TailGood
<1>3. u # <<>> => Head(u) \notin Inside
  BY <1>1, AfterHead
<1>4. x \o u \in Seq(Steps) /\ ToSet(x \o u) = ToSet(x) \cup ToSet(u)
  BY JoinFacts
<1>5. x # <<>> /\ u # <<>> => Follows(x[Len(x)], Head(u))
  BY <1>3 DEF Good, Follows, Inside
<1>6. Good(x \o u)
  BY <1>1, <1>2, <1>5, JoinGood
<1>7. CASE x = <<>>
  BY <1>1, <1>3, <1>4, <1>6, <1>7
<1>8. CASE x # <<>> /\ u = <<>>
  <2>1. x \o u = x
    BY <1>8
  <2> QED BY <1>1, <1>4, <1>6, <1>8, <2>1
<1>9. CASE x # <<>> /\ u # <<>>
  BY <1>1, <1>4, <1>6, <1>9, JoinEnds
<1> QED BY <1>7, <1>8, <1>9

\* What a look may put in front, and that it is good there.
LEMMA LookLists ==
  ASSUME NEW f
  PROVE  /\ Rebuild(f) = (IF "lemma" \in f.progress THEN Rebuilding ELSE <<>>)
         /\ "given" \notin f.review => "add given" \in ToSet(AddAnswers(f))
         /\ "answer_ms" \notin f.review => "add answer_ms" \in ToSet(AddAnswers(f))
         /\ ToSet(AddAnswers(f)) \subseteq {"add given", "add answer_ms"}
         /\ "nickname" \notin f.users => "add nickname" \in ToSet(AddNicknames(f))
         /\ ToSet(AddNicknames(f)) \subseteq {"add nickname", "add nickname_fold"}
         /\ \A x \in {AddAnswers(f), AddNicknames(f)} :
              x \in Seq(Steps) /\ Good(x) /\ (x # <<>> => Head(x) \notin Inside)
<1>1. Rebuild(f) = IF "lemma" \in f.progress THEN Rebuilding ELSE <<>>
  BY DEF Rebuild, Rebuilding
<1>2. PICK a \in Steps, b \in Steps : a = "add given" /\ b = "add answer_ms"
  BY DEF Steps, Statements
<1>3. a \notin {"begin"} \cup Inside /\ b \notin {"begin"} \cup Inside
  BY <1>2 DEF Inside
<1>4. \A x \in {<<>>, <<a>>}, y \in {<<>>, <<b>>} :
        /\ x \o y \in Seq(Steps) /\ ToSet(x \o y) = ToSet(x) \cup ToSet(y) /\ Good(x \o y)
        /\ x \o y # <<>> => Head(x \o y) \notin Inside
  <2> SUFFICES ASSUME NEW x \in {<<>>, <<a>>}, NEW y \in {<<>>, <<b>>}
               PROVE  /\ x \o y \in Seq(Steps) /\ ToSet(x \o y) = ToSet(x) \cup ToSet(y)
                      /\ Good(x \o y)
                      /\ x \o y # <<>> => Head(x \o y) \notin Inside
    OBVIOUS
  <2>1. /\ x \in Seq(Steps) /\ Good(x) /\ ToSet(x) \subseteq {a}
        /\ x # <<>> => Head(x) = a /\ x[Len(x)] = a
    <3>1. CASE x = <<>>
      BY <3>1, ShortLists
    <3>2. CASE x = <<a>>
      BY <1>3, <3>2, SmallLists, SmallGood
    <3> QED BY <3>1, <3>2
  <2>2. /\ y \in Seq(Steps) /\ Good(y) /\ ToSet(y) \subseteq {b}
        /\ y # <<>> => Head(y) = b
    <3>1. CASE y = <<>>
      BY <3>1, ShortLists
    <3>2. CASE y = <<b>>
      BY <1>3, <3>2, SmallLists, SmallGood
    <3> QED BY <3>1, <3>2
  <2>3. Follows(a, b) /\ ~Misplaced(a, b)
    BY <1>2 DEF Follows, Misplaced
  <2>4. x \o y \in Seq(Steps) /\ ToSet(x \o y) = ToSet(x) \cup ToSet(y) /\ Good(x \o y)
    BY <2>1, <2>2, <2>3, JoinFacts, JoinGood
  <2>5. CASE x = <<>>
    <3>1. x \o y = y
      BY <2>2, <2>5
    <3> QED BY <1>3, <2>2, <2>4, <3>1
  <2>6. CASE y = <<>>
    <3>1. x \o y = x
      BY <2>1, <2>6
    <3> QED BY <1>3, <2>1, <2>4, <3>1
  <2>7. CASE x # <<>> /\ y # <<>>
    BY <1>3, <2>1, <2>2, <2>4, <2>7, JoinEnds
  <2> QED BY <2>5, <2>6, <2>7
<1>5. /\ <<"add nickname", "add nickname_fold">> \in Seq(Steps)
      /\ Good(<<"add nickname", "add nickname_fold">>)
      /\ ToSet(<<"add nickname", "add nickname_fold">>) = {"add nickname", "add nickname_fold"}
      /\ Head(<<"add nickname", "add nickname_fold">>) \notin Inside
  <2>1. PICK c \in Steps, d \in Steps : c = "add nickname" /\ d = "add nickname_fold"
    BY DEF Steps, Statements
  <2>2. Follows(c, d) /\ ~Misplaced(c, d) /\ d \notin {"begin"} \cup (Inside \ {"commit"})
    BY <2>1 DEF Follows, Misplaced, Inside
  <2>3. Head(<<c, d>>) \notin Inside
    BY <2>1, SmallLists DEF Inside
  <2> QED BY <2>1, <2>2, <2>3, SmallLists, SmallGood
<1>6. PICK x \in {<<>>, <<a>>}, y \in {<<>>, <<b>>} :
        /\ AddAnswers(f) = x \o y
        /\ "given" \notin f.review => x = <<a>>
        /\ "answer_ms" \notin f.review => y = <<b>>
  BY <1>2 DEF AddAnswers
<1>7. AddNicknames(f) = IF "nickname" \in f.users THEN <<>>
                        ELSE <<"add nickname", "add nickname_fold">>
  BY DEF AddNicknames
<1>8. <<>> \in Seq(Steps) /\ Good(<<>>) /\ ToSet(<<>>) = {}
  BY ShortLists
<1>9. ToSet(<<a>>) = {"add given"} /\ ToSet(<<b>>) = {"add answer_ms"}
  BY <1>2, SmallLists
<1>10. /\ "given" \notin f.review => "add given" \in ToSet(AddAnswers(f))
       /\ "answer_ms" \notin f.review => "add answer_ms" \in ToSet(AddAnswers(f))
       /\ ToSet(AddAnswers(f)) \subseteq {"add given", "add answer_ms"}
       /\ AddAnswers(f) \in Seq(Steps) /\ Good(AddAnswers(f))
       /\ AddAnswers(f) # <<>> => Head(AddAnswers(f)) \notin Inside
  <2>1. /\ x \o y \in Seq(Steps) /\ ToSet(x \o y) = ToSet(x) \cup ToSet(y) /\ Good(x \o y)
        /\ x \o y # <<>> => Head(x \o y) \notin Inside
    BY <1>4
  <2>2. ToSet(x) \subseteq {"add given"} /\ ToSet(y) \subseteq {"add answer_ms"}
    BY <1>8, <1>9
  <2> QED BY <1>6, <1>9, <2>1, <2>2
<1>11. /\ "nickname" \notin f.users => "add nickname" \in ToSet(AddNicknames(f))
       /\ ToSet(AddNicknames(f)) \subseteq {"add nickname", "add nickname_fold"}
       /\ AddNicknames(f) \in Seq(Steps) /\ Good(AddNicknames(f))
       /\ AddNicknames(f) # <<>> => Head(AddNicknames(f)) \notin Inside
  BY <1>5, <1>7, <1>8
<1> QED BY <1>1, <1>10, <1>11

-----------------------------------------------------------------------------
(* Files.                                                                  *)

\* What each statement does.
LEMMA Effects ==
  ASSUME NEW f
  PROVE  /\ Effect("create progress", f) = IF f.progress = {} THEN [f EXCEPT !.progress = {"deck"}] ELSE f
         /\ Effect("create review", f) =
              IF f.review = {} THEN [f EXCEPT !.review = {"rating", "given", "answer_ms"}] ELSE f
         /\ Effect("create users", f) = IF f.users = {} THEN [f EXCEPT !.users = {"email"}] ELSE f
         /\ Effect("add given", f) = [f EXCEPT !.review = f.review \cup {"given"}]
         /\ Effect("add answer_ms", f) = [f EXCEPT !.review = f.review \cup {"answer_ms"}]
         /\ Effect("add nickname", f) = [f EXCEPT !.users = f.users \cup {"nickname"}]
         /\ Effect("add nickname_fold", f) = [f EXCEPT !.users = f.users \cup {"nickname_fold"}]
         /\ Effect("create index", f) = [f EXCEPT !.index = TRUE]
         /\ Effect("copy rows", f) = [f EXCEPT !.scratch = f.rows]
         /\ Effect("drop table", f) = [f EXCEPT !.progress = {}, !.rows = NoRows]
         /\ Effect("rename table", f) =
              [f EXCEPT !.progress = {"deck"}, !.rows = f.scratch, !.scratch = NoRows]
         /\ Effect("move rows", f) = [f EXCEPT !.rows = Moved(f.rows)]
         /\ Effect("move log", f) = [f EXCEPT !.log = MovedLog(f.log)]
  BY DEF Effect

\* What no step takes back.
Migrated(f, g) ==
  /\ f.progress # {"lemma"} => g.progress # {"lemma"}
  /\ f.progress = {"deck"} => g.progress = {"deck"}
  /\ f.review \subseteq g.review /\ f.users \subseteq g.users
  /\ f.index => g.index
  /\ Claimed(f) => Claimed(g)

\* The two cards of a word.
LEMMA CardFacts ==
  /\ \A i \in Items : <<Local, i>> \in Cards /\ <<Account, i>> \in Cards /\ <<Account, i>> # <<Local, i>>
  /\ \A c \in Cards : /\ c[1] \in {Local, Account} /\ c[2] \in Items
                      /\ c = <<c[1], c[2]>>
  BY LearnerAssumption DEF Cards, Learners

\* A statement outside of a transaction leaves rows and log alone, and takes nothing back.
LEMMA PlainStatement ==
  ASSUME NEW f, Consistent(f), NEW s \in Statements \ Inside, Accepts(s, f),
         s \in {"add given", "add answer_ms"} => "rating" \in f.review,
         s \in {"add nickname", "add nickname_fold"} => "email" \in f.users
  PROVE  /\ Consistent(Effect(s, f)) /\ Migrated(f, Effect(s, f))
         /\ Effect(s, f).rows = f.rows
<1>1. f \in File
  BY DEF Consistent
<1>2. ASSUME NEW g \in File, g.rows = f.rows, g.log = f.log,
             f.progress # {} => g.progress = f.progress, g.progress # {"lemma"} \/ f.progress = {"lemma"},
             f.review \subseteq g.review, f.users \subseteq g.users, f.index => g.index,
             g.index => f.index \/ "nickname_fold" \in f.users
      PROVE  Consistent(g) /\ Migrated(f, g)
  <2>1. g.index => "nickname_fold" \in g.users
    BY <1>2 DEF Consistent
  <2>2. Consistent(g)
    BY <1>2, <2>1 DEF Consistent
  <2>3. Claimed(f) => Claimed(g)
    BY <1>2 DEF Claimed
  <2>4. (f.progress # {"lemma"} => g.progress # {"lemma"}) /\ (f.progress = {"deck"} => g.progress = {"deck"})
    BY <1>2
  <2> QED BY <1>2, <2>2, <2>3, <2>4 DEF Migrated
<1>3. CASE Effect(s, f) = f
  BY <1>1, <1>2, <1>3
<1>4. ASSUME NEW r, r \in {{}} \cup {{"rating"} \cup q : q \in SUBSET {"given", "answer_ms"}},
             f.review \subseteq r, Effect(s, f) = [f EXCEPT !.review = r]
      PROVE  Consistent(Effect(s, f)) /\ Migrated(f, Effect(s, f)) /\ Effect(s, f).rows = f.rows
  <2>1. PICK g : g = [f EXCEPT !.review = r]
    OBVIOUS
  <2>2. /\ g \in File /\ g.rows = f.rows /\ g.log = f.log /\ g.progress = f.progress
        /\ g.review = r /\ g.users = f.users /\ g.index = f.index
    BY <1>1, <1>4, <2>1 DEF File
  <2>3. Consistent(g) /\ Migrated(f, g)
    BY <1>2, <1>4, <2>2
  <2> QED BY <1>4, <2>1, <2>2, <2>3
<1>5. ASSUME NEW u, u \in {{}} \cup {{"email"} \cup q : q \in SUBSET {"nickname", "nickname_fold"}},
             f.users \subseteq u, Effect(s, f) = [f EXCEPT !.users = u]
      PROVE  Consistent(Effect(s, f)) /\ Migrated(f, Effect(s, f)) /\ Effect(s, f).rows = f.rows
  <2>1. PICK g : g = [f EXCEPT !.users = u]
    OBVIOUS
  <2>2. /\ g \in File /\ g.rows = f.rows /\ g.log = f.log /\ g.progress = f.progress
        /\ g.review = f.review /\ g.users = u /\ g.index = f.index
    BY <1>1, <1>5, <2>1 DEF File
  <2>3. Consistent(g) /\ Migrated(f, g)
    BY <1>2, <1>5, <2>2
  <2> QED BY <1>5, <2>1, <2>2, <2>3
<1>6. CASE s = "create progress" /\ f.progress = {}
  <2>1. PICK g : g = [f EXCEPT !.progress = {"deck"}]
    OBVIOUS
  <2>2. /\ g \in File /\ g.rows = f.rows /\ g.log = f.log /\ g.progress = {"deck"}
        /\ g.review = f.review /\ g.users = f.users /\ g.index = f.index
    BY <1>1, <2>1 DEF File
  <2>3. Consistent(g) /\ Migrated(f, g)
    BY <1>2, <1>6, <2>2
  <2>4. Effect(s, f) = g
    BY <1>6, <2>1, Effects
  <2> QED BY <2>2, <2>3, <2>4
<1>7. CASE s = "create index"
  <2>1. PICK g : g = [f EXCEPT !.index = TRUE]
    OBVIOUS
  <2>2. /\ g \in File /\ g.rows = f.rows /\ g.log = f.log /\ g.progress = f.progress
        /\ g.review = f.review /\ g.users = f.users /\ g.index
    BY <1>1, <2>1 DEF File
  <2>3. f.index \/ "nickname_fold" \in f.users
    BY <1>7 DEF Accepts
  <2>4. Consistent(g) /\ Migrated(f, g)
    BY <1>2, <2>2, <2>3
  <2>5. Effect(s, f) = g
    BY <1>7, <2>1, Effects
  <2> QED BY <2>2, <2>4, <2>5
<1>8. CASE s = "create review" /\ f.review = {}
  <2>1. {"rating", "given", "answer_ms"} = {"rating"} \cup {"given", "answer_ms"}
    OBVIOUS
  <2>2. Effect(s, f) = [f EXCEPT !.review = {"rating", "given", "answer_ms"}]
    BY <1>8, Effects
  <2> QED BY <1>4, <1>8, <2>1, <2>2
<1>9. CASE s \in {"add given", "add answer_ms"}
  <2>1. PICK q \in SUBSET {"given", "answer_ms"} : f.review = {"rating"} \cup q
    BY <1>1, <1>9 DEF File
  <2>2. /\ f.review \cup {"given"} = {"rating"} \cup (q \cup {"given"})
        /\ f.review \cup {"answer_ms"} = {"rating"} \cup (q \cup {"answer_ms"})
    BY <2>1
  <2>3. q \cup {"given"} \in SUBSET {"given", "answer_ms"} /\ q \cup {"answer_ms"} \in SUBSET {"given", "answer_ms"}
    OBVIOUS
  <2>4. \/ Effect(s, f) = [f EXCEPT !.review = f.review \cup {"given"}]
        \/ Effect(s, f) = [f EXCEPT !.review = f.review \cup {"answer_ms"}]
    BY <1>9, Effects
  <2>5. \A r \in {f.review \cup {"given"}, f.review \cup {"answer_ms"}} :
          /\ r \in {{}} \cup {{"rating"} \cup p : p \in SUBSET {"given", "answer_ms"}}
          /\ f.review \subseteq r
    BY <2>2, <2>3
  <2> QED BY <1>4, <2>4, <2>5
<1>10. CASE s = "create users" /\ f.users = {}
  <2>1. {"email"} = {"email"} \cup {}
    OBVIOUS
  <2>2. Effect(s, f) = [f EXCEPT !.users = {"email"}]
    BY <1>10, Effects
  <2> QED BY <1>5, <1>10, <2>1, <2>2
<1>11. CASE s \in {"add nickname", "add nickname_fold"}
  <2>1. PICK q \in SUBSET {"nickname", "nickname_fold"} : f.users = {"email"} \cup q
    BY <1>1, <1>11 DEF File
  <2>2. /\ f.users \cup {"nickname"} = {"email"} \cup (q \cup {"nickname"})
        /\ f.users \cup {"nickname_fold"} = {"email"} \cup (q \cup {"nickname_fold"})
    BY <2>1
  <2>3. /\ q \cup {"nickname"} \in SUBSET {"nickname", "nickname_fold"}
        /\ q \cup {"nickname_fold"} \in SUBSET {"nickname", "nickname_fold"}
    OBVIOUS
  <2>4. \/ Effect(s, f) = [f EXCEPT !.users = f.users \cup {"nickname"}]
        \/ Effect(s, f) = [f EXCEPT !.users = f.users \cup {"nickname_fold"}]
    BY <1>11, Effects
  <2>5. \A r \in {f.users \cup {"nickname"}, f.users \cup {"nickname_fold"}} :
          /\ r \in {{}} \cup {{"email"} \cup p : p \in SUBSET {"nickname", "nickname_fold"}}
          /\ f.users \subseteq r
    BY <2>2, <2>3
  <2> QED BY <1>5, <2>4, <2>5
<1>12. \/ s = "create progress" /\ f.progress # {}
       \/ s = "create review" /\ f.review # {}
       \/ s = "create users" /\ f.users # {}
       => Effect(s, f) = f
  BY Effects
<1> QED BY <1>3, <1>6, <1>7, <1>8, <1>9, <1>10, <1>11, <1>12 DEF Statements, Inside

\* A rebuild keeps the rows, whatever there were.
LEMMA RebuildFacts ==
  ASSUME NEW f, Consistent(f)
  PROVE  /\ Copied(f) \in File /\ Dropped(f) \in File /\ Rebuilt(f) \in File
         /\ Dropped(f).progress = {}
         /\ Consistent(Rebuilt(f)) /\ Migrated(f, Rebuilt(f))
         /\ Rebuilt(f).rows = f.rows /\ Rebuilt(f).progress = {"deck"}
<1>1. f \in File
  BY DEF Consistent
<1>2. NoRows \in [Cards -> Learners \cup {None}]
  BY DEF NoRows
<1>3. PICK g : g = Copied(f) /\ g = [f EXCEPT !.scratch = f.rows]
  BY Effects DEF Copied
<1>4. /\ g \in File /\ g.rows = f.rows /\ g.scratch = f.rows /\ g.progress = f.progress
      /\ g.log = f.log /\ g.review = f.review /\ g.users = f.users /\ g.index = f.index
  BY <1>1, <1>3 DEF File
<1>5. PICK h : h = Dropped(f)
  OBVIOUS
<1>6. h = [g EXCEPT !.progress = {}, !.rows = NoRows]
  BY <1>3, <1>5, Effects DEF Dropped
<1>7. /\ h \in File /\ h.scratch = f.rows /\ h.progress = {}
      /\ h.log = f.log /\ h.review = f.review /\ h.users = f.users /\ h.index = f.index
  BY <1>2, <1>4, <1>6 DEF File
<1>8. PICK k : k = Rebuilt(f)
  OBVIOUS
<1>9. k = [h EXCEPT !.progress = {"deck"}, !.rows = h.scratch, !.scratch = NoRows]
  BY <1>5, <1>8, Effects DEF Rebuilt
<1>10. /\ k \in File /\ k.rows = f.rows /\ k.progress = {"deck"}
       /\ k.log = f.log /\ k.review = f.review /\ k.users = f.users /\ k.index = f.index
  BY <1>2, <1>7, <1>9 DEF File
<1>11. Consistent(k)
  BY <1>10 DEF Consistent
<1>12. Migrated(f, k)
  BY <1>10 DEF Migrated, Claimed
<1> QED BY <1>3, <1>4, <1>5, <1>7, <1>8, <1>10, <1>11, <1>12

\* A claim keeps every card with somebody, and leaves nothing it could have moved.
LEMMA ClaimFacts ==
  ASSUME NEW f, Consistent(f), studied \subseteq Cards
  PROVE  /\ RowsClaimed(f) \in File /\ LogClaimed(f) \in File
         /\ Consistent(LogClaimed(f)) /\ Migrated(f, LogClaimed(f))
         /\ LogClaimed(f).progress = f.progress
         /\ Claimed(LogClaimed(f))
         /\ Kept(f) => Kept(LogClaimed(f))
<1>1. f \in File
  BY DEF Consistent
<1>2. Moved(f.rows) \in [Cards -> Learners \cup {None}]
  <2>1. \A c \in Cards : f.rows[c] \in Learners \cup {None} /\ f.rows[<<Local, c[2]>>] \in Learners \cup {None}
    BY <1>1, CardFacts DEF File
  <2> QED BY <2>1 DEF Moved
<1>3. MovedLog(f.log) \in [Learners -> SUBSET Cards] /\ MovedLog(f.log)[Local] = {}
  BY <1>1 DEF File, MovedLog, Learners
<1>4. PICK g : g = RowsClaimed(f) /\ g = [f EXCEPT !.rows = Moved(f.rows)]
  BY Effects DEF RowsClaimed
<1>5. /\ g \in File /\ g.rows = Moved(f.rows) /\ g.progress = f.progress /\ g.log = f.log
      /\ g.review = f.review /\ g.users = f.users /\ g.index = f.index
  BY <1>1, <1>2, <1>4 DEF File
<1>6. PICK k : k = LogClaimed(f)
  OBVIOUS
<1>7. k = [g EXCEPT !.log = MovedLog(g.log)]
  BY <1>4, <1>6, Effects DEF LogClaimed
<1>8. /\ k \in File /\ k.rows = Moved(f.rows) /\ k.progress = f.progress /\ k.log[Local] = {}
      /\ k.review = f.review /\ k.users = f.users /\ k.index = f.index
  BY <1>3, <1>5, <1>7 DEF File
<1>9. ASSUME NEW i \in Items
      PROVE  /\ k.rows[<<Account, i>>] = IF f.rows[<<Account, i>>] # None THEN f.rows[<<Account, i>>]
                                         ELSE f.rows[<<Local, i>>]
             /\ k.rows[<<Local, i>>] = IF f.rows[<<Account, i>>] # None THEN f.rows[<<Local, i>>]
                                       ELSE None
  <2>1. /\ <<Local, i>> \in Cards /\ <<Account, i>> \in Cards
        /\ <<Local, i>>[2] = i /\ <<Account, i>>[2] = i
        /\ <<Local, i>>[1] = Local /\ <<Account, i>>[1] = Account /\ Local # Account
    BY CardFacts, LearnerAssumption
  <2> QED BY <1>8, <2>1 DEF Moved
<1>10. \A i \in Items : k.rows[<<Local, i>>] # None => k.rows[<<Account, i>>] = Account
  BY <1>9 DEF Consistent
<1>11. Consistent(k) /\ Claimed(k)
  BY <1>8, <1>10 DEF Consistent, Claimed
<1>12. Migrated(f, k)
  BY <1>8, <1>11 DEF Migrated
<1>13. ASSUME Kept(f), NEW c \in studied
       PROVE  k.rows[c] # None \/ (c[1] = Local /\ k.rows[<<Account, c[2]>>] # None)
  <2>1. c \in Cards /\ c[1] \in {Local, Account} /\ c[2] \in Items /\ c = <<c[1], c[2]>>
    BY <1>13, CardFacts
  <2>2. f.rows[c] # None \/ (c[1] = Local /\ f.rows[<<Account, c[2]>>] # None)
    BY <1>13 DEF Kept
  <2>3. CASE c[1] = Account
    BY <1>9, <2>1, <2>2, <2>3, LearnerAssumption
  <2>4. CASE c[1] = Local
    BY <1>9, <2>1, <2>2, <2>4
  <2> QED BY <2>1, <2>3, <2>4
<1> QED BY <1>4, <1>5, <1>6, <1>8, <1>11, <1>12, <1>13 DEF Kept

-----------------------------------------------------------------------------
(* Steps.                                                                  *)

\* A process that has something to do.
LEMMA AtWork ==
  ASSUME ProcInv, NEW p \in Processes, Todo(p) # <<>>
  PROVE  /\ Todo(p) \in Seq(Steps) /\ Good(Todo(p)) /\ proc[p].kind \in {"server", "claim"}
         /\ \A s : Has(p, s) <=> s = Head(Todo(p)) \/ s \in ToSet(Tail(Todo(p)))
         /\ ~InTx(p) => Head(Todo(p)) \notin Inside
<1>1. Todo(p) \in Seq(Steps) /\ Good(Todo(p)) /\ proc[p].kind \in {"server", "claim"}
  <2>1. proc[p] \in Process
    BY DEF ProcInv
  <2>2. proc[p].kind # "down"
    BY DEF ProcInv, Down, Todo
  <2> QED BY <2>1, <2>2 DEF ProcInv, Process, Todo
<1>2. ToSet(Todo(p)) = {Head(Todo(p))} \cup ToSet(Tail(Todo(p)))
  BY <1>1, TailFacts
<1> QED BY <1>1, <1>2 DEF Has, ProcInv

\* A process in a transaction is about to do something of it.
LEMMA InTxFacts ==
  ASSUME TxInv
  PROVE  \A p : InTx(p) => /\ p \in Processes /\ Todo(p) # <<>> /\ Head(Todo(p)) \in Inside
                           /\ p = tx.by /\ tx # None
BY DEF TxInv, InTx, Inside

\* One process goes on with another list.
LEMMA ProcStep ==
  ASSUME ProcInv, NEW p \in Processes, Todo(p) # <<>>, NEW t \in Seq(Steps), Good(t), Do(p, t),
         \A q \in Processes \ {p} : InTx(q)' <=> InTx(q),
         t # <<>> => Head(t) \notin Inside \/ InTx(p)'
  PROVE  /\ ProcInv' /\ Todo(p)' = t /\ proc'[p].kind = proc[p].kind
         /\ \A q \in Processes \ {p} : proc'[q] = proc[q]
         /\ \A s : Has(p, s)' <=> s \in ToSet(t)
<1>1. proc' = [proc EXCEPT ![p].todo = t] /\ proc \in [Processes -> Process]
  BY DEF Do, ProcInv
<1>2. proc[p] \in Process /\ proc[p].kind \in {"server", "claim"}
  BY <1>1, AtWork
<1>3. proc'[p] = [proc[p] EXCEPT !.todo = t] /\ \A q \in Processes \ {p} : proc'[q] = proc[q]
  BY <1>1
<1>4. proc'[p].todo = t /\ proc'[p].kind = proc[p].kind /\ proc'[p] \in Process
  BY <1>2, <1>3 DEF Process
<1>5. proc' \in [Processes -> Process]
  BY <1>1, <1>3, <1>4
<1>6. Todo(p)' = t
  BY <1>4 DEF Todo
<1>7. ASSUME NEW q \in Processes
      PROVE  /\ Good(Todo(q)')
             /\ proc'[q].kind = "down" => proc'[q] = Down
             /\ ~InTx(q)' /\ Todo(q)' # <<>> => Head(Todo(q)') \notin Inside
  <2>1. CASE q = p
    BY <1>2, <1>4, <1>6, <2>1
  <2>2. CASE q # p
    BY <1>3, <2>2 DEF ProcInv, Todo
  <2> QED BY <2>1, <2>2
<1>8. ProcInv'
  BY <1>5, <1>7 DEF ProcInv
<1>9. \A s : Has(p, s)' <=> s \in ToSet(t)
  BY <1>6 DEF Has
<1> QED BY <1>3, <1>4, <1>6, <1>8, <1>9

\* A process starts, or is gone.
LEMMA ProcTurn ==
  ASSUME ProcInv, NEW p \in Processes, NEW r \in Process, Good(r.todo),
         r.kind = "down" => r = Down, r.todo # <<>> => Head(r.todo) \notin Inside,
         proc' = [proc EXCEPT ![p] = r],
         \A q \in Processes \ {p} : InTx(q)' <=> InTx(q)
  PROVE  /\ ProcInv' /\ proc'[p] = r
         /\ \A q \in Processes \ {p} : proc'[q] = proc[q]
<1>1. proc \in [Processes -> Process]
  BY DEF ProcInv
<1>2. proc'[p] = r /\ \A q \in Processes \ {p} : proc'[q] = proc[q]
  BY <1>1
<1>3. proc' \in [Processes -> Process]
  BY <1>1, <1>2
<1>4. ASSUME NEW q \in Processes
      PROVE  /\ Good(Todo(q)')
             /\ proc'[q].kind = "down" => proc'[q] = Down
             /\ ~InTx(q)' /\ Todo(q)' # <<>> => Head(Todo(q)') \notin Inside
  <2>1. CASE q = p
    BY <1>2, <2>1 DEF Todo
  <2>2. CASE q # p
    BY <1>2, <2>2 DEF ProcInv, Todo
  <2> QED BY <2>1, <2>2
<1> QED BY <1>2, <1>3, <1>4 DEF ProcInv

\* What the others have done stays done.
LEMMA Bystander ==
  ASSUME StartInv, NEW q \in Processes, proc'[q] = proc[q], InTx(q)' <=> InTx(q),
         InTx(q) => tx' = tx /\ file' = file, Migrated(file, file')
  PROVE  /\ proc'[q].kind # "down" => Done(q)'
         /\ proc'[q].kind = "claim" => ClaimInv(q)'
<1>1. \A s : Has(q, s)' <=> Has(q, s)
  BY DEF Has, Todo
<1>2. ASSUME Done(q) PROVE Done(q)'
  BY <1>1, <1>2 DEF Done, Migrated
<1>3. ASSUME ClaimInv(q) PROVE ClaimInv(q)'
  <2>1. Claimed(file) => Claimed(file')
    BY DEF Migrated
  <2>2. CASE InTx(q) /\ Head(Todo(q)) = "commit" /\ tx.file = LogClaimed(file)
    <3>1. InTx(q)' /\ Todo(q)' = Todo(q) /\ tx' = tx /\ file' = file
      BY <2>2 DEF Todo
    <3>2. LogClaimed(file)' = LogClaimed(file)
      BY <3>1
    <3> QED BY <2>2, <3>1, <3>2 DEF ClaimInv
  <2> QED BY <1>1, <1>3, <2>1, <2>2 DEF ClaimInv
<1> QED BY <1>2, <1>3 DEF StartInv

\* Nothing is taken back where nothing is done.
LEMMA MigratedSame == \A f : Migrated(f, f)
BY DEF Migrated

\* The parts make the whole: what has a type follows.
LEMMA Assembled ==
  ASSUME ProcInv', FileInv', TxInv', StartInv',
         studied' \subseteq Cards, faults' \in 0..MaxFaults, claims' \in 0..MaxClaims
  PROVE  IInv'
<1>1. file' \in File
  BY DEF FileInv, Consistent
<1>2. tx' = None \/ (tx'.by \in Processes /\ proc'[tx'.by] # Down /\ tx'.file \in File)
  <2>1. Down.todo = <<>>
    BY DEF Down
  <2>2. tx' # None => /\ tx' \in [by : Processes, file : File]
                     /\ proc'[tx'.by].todo # <<>>
    BY DEF TxInv, Todo
  <2> QED BY <2>1, <2>2
<1>3. \A p \in Processes : proc'[p].kind \in {"down", "server", "claim"}
  BY DEF ProcInv, Process
<1>4. TypeOK'
  BY <1>1, <1>2, <1>3 DEF TypeOK
<1> QED BY <1>4 DEF IInv

\* A file nobody has touched is as it was.
LEMMA SameFile ==
  ASSUME FileInv, file' = file, studied' = studied
  PROVE  FileInv' /\ Migrated(file, file')
<1>1. Kept(file)'
  BY DEF FileInv, Kept
<1>2. Consistent(file)'
  BY DEF FileInv, Consistent
<1> QED BY <1>1, <1>2, MigratedSame DEF FileInv

\* The transaction of a process that does nothing is as far as it was.
LEMMA SameTx ==
  ASSUME TxInv, tx' = tx, file' = file, tx # None => proc'[tx.by] = proc[tx.by]
  PROVE  TxInv'
<1>1. /\ Copied(file)' = Copied(file) /\ Dropped(file)' = Dropped(file)
      /\ Rebuilt(file)' = Rebuilt(file)
      /\ RowsClaimed(file)' = RowsClaimed(file) /\ LogClaimed(file)' = LogClaimed(file)
  OBVIOUS
<1>2. CASE tx = None
  BY <1>2 DEF TxInv
<1>3. CASE tx # None
  <2>1. Todo(tx.by)' = Todo(tx.by)
    BY <1>3 DEF Todo
  <2> QED BY <1>1, <1>3, <2>1 DEF TxInv
<1> QED BY <1>2, <1>3

\* A process is gone, and its transaction with it.
LEMMA Leaves ==
  ASSUME IInv, NEW p \in Processes, Exit(p), file' = file, studied' = studied,
         faults' \in 0..MaxFaults, claims' \in 0..MaxClaims
  PROVE  IInv'
<1>1. /\ proc' = [proc EXCEPT ![p] = Down]
      /\ InTx(p) => tx' = None
      /\ ~InTx(p) => tx' = tx
  BY DEF Exit
<1>2. \A q \in Processes \ {p} : (InTx(q)' <=> InTx(q)) /\ (InTx(q) => tx' = tx)
  BY <1>1 DEF InTx
<1>3. Down \in Process /\ Down.todo = <<>> /\ Down.kind = "down"
  BY DEF Down, Process
<1>4. ProcInv' /\ proc'[p] = Down /\ \A q \in Processes \ {p} : proc'[q] = proc[q]
  BY <1>1, <1>2, <1>3, ShortLists, ProcTurn DEF IInv
<1>5. FileInv' /\ Migrated(file, file')
  BY SameFile DEF IInv
<1>6. TxInv'
  <2>1. CASE tx' = None
    BY <2>1 DEF TxInv
  <2>2. CASE tx' # None
    <3>1. tx' = tx /\ tx.by \in Processes \ {p}
      BY <1>1, <2>2 DEF InTx, IInv, TxInv
    <3>2. proc'[tx.by] = proc[tx.by]
      BY <1>4, <3>1
    <3> QED BY <3>1, <3>2, SameTx DEF IInv
  <2> QED BY <2>1, <2>2
<1>7. StartInv'
  <2>1. \A q \in Processes \ {p} : /\ proc'[q].kind # "down" => Done(q)'
                                   /\ proc'[q].kind = "claim" => ClaimInv(q)'
    BY <1>2, <1>4, <1>5, Bystander DEF IInv
  <2>2. proc'[p].kind = "down"
    BY <1>3, <1>4
  <2> QED BY <2>1, <2>2 DEF StartInv
<1> QED BY <1>4, <1>5, <1>6, <1>7, Assembled DEF IInv, TypeOK

\* A process goes on, and leaves file and transaction alone.
LEMMA Quiet ==
  ASSUME IInv, NEW p \in Processes, Todo(p) # <<>>, ~InTx(p),
         NEW t \in Seq(Steps), Good(t), Do(p, t), t # <<>> => Head(t) \notin Inside,
         UNCHANGED <<file, tx, faults, claims, studied>>,
         Done(p)', proc[p].kind = "claim" => ClaimInv(p)'
  PROVE  IInv'
<1>1. \A q \in Processes \ {p} : (InTx(q)' <=> InTx(q)) /\ (InTx(q) => tx' = tx)
  BY DEF InTx
<1>2. /\ ProcInv' /\ proc'[p].kind = proc[p].kind
      /\ \A q \in Processes \ {p} : proc'[q] = proc[q]
  BY <1>1, ProcStep DEF IInv
<1>3. FileInv' /\ Migrated(file, file')
  BY SameFile DEF IInv
<1>4. TxInv'
  <2>1. tx # None => proc'[tx.by] = proc[tx.by]
    BY <1>2 DEF IInv, TxInv, InTx
  <2> QED BY <2>1, SameTx DEF IInv
<1>5. StartInv'
  <2>1. \A q \in Processes \ {p} : /\ proc'[q].kind # "down" => Done(q)'
                                   /\ proc'[q].kind = "claim" => ClaimInv(q)'
    BY <1>1, <1>2, <1>3, Bystander DEF IInv
  <2> QED BY <1>2, <2>1 DEF StartInv
<1> QED BY <1>2, <1>3, <1>4, <1>5, Assembled DEF IInv, TypeOK

\* A server or a claim starts.
LEMMA Starts ==
  ASSUME IInv, NEW p \in Processes, proc[p] = Down,
         NEW k \in {"server", "claim"}, NEW t \in {ServerTodo, ClaimTodo},
         k = "claim" => t = ClaimTodo,
         proc' = [proc EXCEPT ![p] = [kind |-> k, todo |-> t]],
         UNCHANGED <<file, tx, faults, studied>>, claims' \in 0..MaxClaims
  PROVE  IInv'
<1>1. PICK r : r = [kind |-> k, todo |-> t]
  OBVIOUS
<1>2. r.kind = k /\ r.todo = t /\ r \in Process /\ Good(t) /\ Head(t) \notin Inside
  BY <1>1, StartListsGood DEF Process
<1>3. ~InTx(p)
  BY InTxFacts DEF IInv, Todo, Down
<1>4. \A q \in Processes \ {p} : (InTx(q)' <=> InTx(q)) /\ (InTx(q) => tx' = tx)
  BY DEF InTx
<1>5. /\ ProcInv' /\ proc'[p] = r
      /\ \A q \in Processes \ {p} : proc'[q] = proc[q]
  BY <1>1, <1>2, <1>4, ProcTurn DEF IInv
<1>6. FileInv' /\ Migrated(file, file')
  BY SameFile DEF IInv
<1>7. TxInv'
  <2>1. tx # None => proc'[tx.by] = proc[tx.by]
    BY <1>3, <1>5 DEF IInv, TxInv, InTx
  <2> QED BY <2>1, SameTx DEF IInv
<1>8. StartInv'
  <2>1. \A q \in Processes \ {p} : /\ proc'[q].kind # "down" => Done(q)'
                                   /\ proc'[q].kind = "claim" => ClaimInv(q)'
    BY <1>4, <1>5, <1>6, Bystander DEF IInv
  <2>2. \A s : Has(p, s)' <=> s \in ToSet(t)
    BY <1>2, <1>5 DEF Has, Todo
  <2>3. Done(p)'
    BY <2>2, StartListsGood DEF Done
  <2>4. proc'[p].kind = "claim" => ClaimInv(p)'
    BY <1>2, <1>5, <2>2, StartListsGood DEF ClaimInv
  <2> QED BY <2>1, <2>3, <2>4 DEF StartInv
<1> QED BY <1>5, <1>6, <1>7, <1>8, Assembled DEF IInv, TypeOK

\* A process looks at the columns, at the account, at what there is to claim: it has
\* done what it leaves out.
LEMMA LookStep ==
  ASSUME IInv, NEW p \in Processes, Look(p)
  PROVE  IInv'
<1> DEFINE old == Todo(p)
<1>1. /\ old # <<>> /\ UNCHANGED <<file, faults, claims, studied>>
      /\ Head(old) \in {"rebuild?", "answers?", "nicknames?", "account?", "pending?"}
  BY DEF Look, Doing
<1>2. /\ old \in Seq(Steps) /\ Good(old) /\ proc[p].kind \in {"server", "claim"}
      /\ \A s : Has(p, s) <=> s = Head(old) \/ s \in ToSet(Tail(old))
  BY <1>1, AtWork DEF IInv
<1>3. Head(old) \notin {"begin"} \cup Inside /\ ~InTx(p)
  <2>1. Head(old) \notin {"begin"} \cup Inside
    BY <1>1 DEF Inside
  <2> QED BY <2>1, InTxFacts DEF IInv
<1>4. Done(p) /\ (proc[p].kind = "claim" => ClaimInv(p))
  BY <1>2 DEF IInv, StartInv
<1>5. PICK rest \in Seq(Steps) : rest = Tail(old)
  BY <1>1, <1>2, TailFacts
<1>6. \A s \in ToSet(rest) : ~Misplaced(Head(old), s)
  BY <1>1, <1>2, <1>5, TailGood
<1>7. /\ Good(rest) /\ (rest # <<>> => Head(rest) \notin Inside)
  BY <1>1, <1>2, <1>3, <1>5, TailGood, AfterHead
<1>8. ASSUME NEW t \in Seq(Steps), Do(p, t)
      PROVE  /\ Todo(p)' = t /\ \A s : Has(p, s)' <=> s \in ToSet(t)
             /\ \A q \in Processes \ {p} : UNCHANGED tx => (InTx(q)' <=> InTx(q))
  <2>1. Todo(p)' = t
    BY <1>8 DEF IInv, ProcInv, Process, Do, Todo
  <2> QED BY <2>1 DEF Has, InTx
<1>9. ASSUME NEW x \in Seq(Steps), Good(x), x # <<>> => Head(x) \notin Inside,
             \A a \in ToSet(x), b \in ToSet(rest) : ~Misplaced(a, b),
             Do(p, x \o rest), UNCHANGED tx, Head(old) # "pending?",
             \/ Head(old) # "rebuild?" \/ file.progress # {"lemma"} \/ "rename table" \in ToSet(x),
             \/ Head(old) # "answers?" \/ "given" \in file.review \/ "add given" \in ToSet(x),
             \/ Head(old) # "answers?" \/ "answer_ms" \in file.review \/ "add answer_ms" \in ToSet(x),
             \/ Head(old) # "nicknames?" \/ "nickname" \in file.users \/ "add nickname" \in ToSet(x)
      PROVE  IInv'
  <2>1. PICK t \in Seq(Steps) : /\ t = x \o rest /\ Good(t) /\ ToSet(t) = ToSet(x) \cup ToSet(rest)
                                /\ t # <<>> => Head(t) \notin Inside
    BY <1>1, <1>2, <1>3, <1>5, <1>9, PutInFront
  <2>2. Do(p, t)
    BY <1>9, <2>1
  <2>3. \A s : Has(p, s)' <=> s \in ToSet(x) \/ s \in ToSet(rest)
    BY <1>8, <2>1, <2>2
  <2>4. file' = file
    BY <1>1
  <2>5. Done(p)'
    <3>1. \A s : Has(p, s) /\ s # Head(old) => Has(p, s)'
      BY <1>2, <1>5, <2>3
    <3>2. \A s \in ToSet(x) : Has(p, s)'
      BY <2>3
    <3>3. file'.progress = {"lemma"} => Has(p, "rebuild?")' \/ Has(p, "rename table")'
      BY <1>1, <1>3, <1>4, <1>9, <2>4, <3>1, <3>2 DEF Done
    <3>4. /\ file'.progress = {"deck"} \/ Has(p, "create progress")'
          /\ "rating" \in file'.review \/ Has(p, "create review")'
          /\ "email" \in file'.users \/ Has(p, "create users")'
          /\ file'.index \/ Has(p, "create index")'
      BY <1>1, <1>4, <2>4, <3>1 DEF Done
    <3>5. /\ "given" \in file'.review \/ Has(p, "answers?")' \/ Has(p, "add given")'
          /\ "answer_ms" \in file'.review \/ Has(p, "answers?")' \/ Has(p, "add answer_ms")'
      BY <1>1, <1>4, <1>9, <2>4, <3>1, <3>2 DEF Done
    <3>6. "nickname" \in file'.users \/ Has(p, "nicknames?")' \/ Has(p, "add nickname")'
      BY <1>1, <1>4, <1>9, <2>4, <3>1, <3>2 DEF Done
    <3> QED BY <3>3, <3>4, <3>5, <3>6 DEF Done
  <2>6. proc[p].kind = "claim" => ClaimInv(p)'
    <3>1. ClaimInv(p) => Has(p, "move log") \/ Claimed(file)
      BY <1>3 DEF ClaimInv
    <3>2. Has(p, "move log") => Has(p, "move log")'
      BY <1>1, <1>2, <1>5, <2>3
    <3>3. Claimed(file) => Claimed(file)'
      BY <2>4 DEF Claimed
    <3> QED BY <1>4, <3>1, <3>2, <3>3 DEF ClaimInv
  <2> QED BY <1>1, <1>3, <1>9, <2>1, <2>2, <2>5, <2>6, Quiet
<1>10. <<>> \in Seq(Steps) /\ Good(<<>>) /\ ToSet(<<>>) = {} /\ <<>> \o rest = rest
  BY ShortLists
<1>11. CASE Doing(p, "rebuild?") /\ Do(p, Rebuild(file) \o Tail(Todo(p))) /\ UNCHANGED tx
  <2>1. Head(old) = "rebuild?"
    BY <1>11 DEF Doing
  <2>2. CASE "lemma" \in file.progress
    <3>1. Do(p, Rebuilding \o rest)
      BY <1>5, <1>11, <2>2, LookLists
    <3>2. \A a \in ToSet(Rebuilding), b \in ToSet(rest) : ~Misplaced(a, b)
      BY RebuildingGood DEF Misplaced
    <3>3. Head(Rebuilding) \notin Inside /\ "rename table" \in ToSet(Rebuilding)
      BY RebuildingGood DEF Inside
    <3> QED BY <1>9, <1>11, <2>1, <3>1, <3>2, <3>3, RebuildingGood
  <2>3. CASE "lemma" \notin file.progress
    <3>1. Do(p, <<>> \o rest)
      BY <1>5, <1>11, <2>3, LookLists
    <3>2. file.progress # {"lemma"}
      BY <2>3
    <3> QED BY <1>9, <1>10, <1>11, <2>1, <3>1, <3>2
  <2> QED BY <2>2, <2>3
<1>12. CASE Doing(p, "answers?") /\ Do(p, AddAnswers(file) \o Tail(Todo(p))) /\ UNCHANGED tx
  <2>1. Head(old) = "answers?"
    BY <1>12 DEF Doing
  <2>2. PICK x \in Seq(Steps) :
          /\ x = AddAnswers(file) /\ Good(x) /\ (x # <<>> => Head(x) \notin Inside)
          /\ ToSet(x) \subseteq {"add given", "add answer_ms"}
          /\ "given" \notin file.review => "add given" \in ToSet(x)
          /\ "answer_ms" \notin file.review => "add answer_ms" \in ToSet(x)
    BY LookLists
  <2>3. "create review" \notin ToSet(rest)
    BY <1>6, <2>1 DEF Misplaced
  <2>4. \A a \in ToSet(x), b \in ToSet(rest) : ~Misplaced(a, b)
    BY <2>2, <2>3 DEF Misplaced
  <2>5. Do(p, x \o rest)
    BY <1>5, <1>12, <2>2
  <2> QED BY <1>9, <1>12, <2>1, <2>2, <2>4, <2>5
<1>13. CASE Doing(p, "nicknames?") /\ Do(p, AddNicknames(file) \o Tail(Todo(p))) /\ UNCHANGED tx
  <2>1. Head(old) = "nicknames?"
    BY <1>13 DEF Doing
  <2>2. PICK x \in Seq(Steps) :
          /\ x = AddNicknames(file) /\ Good(x) /\ (x # <<>> => Head(x) \notin Inside)
          /\ ToSet(x) \subseteq {"add nickname", "add nickname_fold"}
          /\ "nickname" \notin file.users => "add nickname" \in ToSet(x)
    BY LookLists
  <2>3. "create users" \notin ToSet(rest)
    BY <1>6, <2>1 DEF Misplaced
  <2>4. \A a \in ToSet(x), b \in ToSet(rest) : ~Misplaced(a, b)
    BY <2>2, <2>3 DEF Misplaced
  <2>5. Do(p, x \o rest)
    BY <1>5, <1>13, <2>2
  <2> QED BY <1>9, <1>13, <2>1, <2>2, <2>4, <2>5
<1>14. CASE Doing(p, "account?") /\ IF file.verified THEN Do(p, Tail(Todo(p))) /\ UNCHANGED tx ELSE Exit(p)
  <2>1. CASE file.verified
    <3>1. Do(p, <<>> \o rest) /\ UNCHANGED tx /\ Head(old) = "account?"
      BY <1>5, <1>10, <1>14, <2>1 DEF Doing
    <3> QED BY <1>9, <1>10, <3>1
  <2>2. CASE ~file.verified
    <3>1. faults' \in 0..MaxFaults /\ claims' \in 0..MaxClaims
      BY <1>1 DEF IInv, TypeOK
    <3> QED BY <1>1, <1>14, <2>2, <3>1, Leaves
  <2> QED BY <2>1, <2>2
<1>15. CASE /\ Doing(p, "pending?") /\ UNCHANGED tx
            /\ Do(p, IF \E i \in Items : file.rows[<<Local, i>>] # None THEN Tail(Todo(p)) ELSE <<>>)
  <2>1. Head(old) = "pending?"
    BY <1>15 DEF Doing
  <2>2. ToSet(rest) \subseteq {"begin", "move rows", "move log", "commit"}
    BY <1>6, <2>1 DEF Misplaced
  <2>3. ASSUME NEW t \in {rest, <<>>}, Do(p, t), proc[p].kind = "claim" => ClaimInv(p)'
        PROVE  IInv'
    <3>1. t \in Seq(Steps) /\ Good(t) /\ (t # <<>> => Head(t) \notin Inside)
      BY <1>7, <1>10, <2>3
    <3>2. \A s : s \notin {"pending?", "begin", "move rows", "move log", "commit"} => ~Has(p, s)
      BY <1>2, <1>5, <2>1, <2>2
    <3>3. /\ file.progress # {"lemma"} /\ file.progress = {"deck"}
          /\ {"rating", "given", "answer_ms"} \subseteq file.review
          /\ {"email", "nickname"} \subseteq file.users /\ file.index
      BY <1>3, <1>4, <3>2 DEF Done
    <3>4. file' = file
      BY <1>1
    <3>5. Done(p)'
      BY <3>3, <3>4 DEF Done
    <3> QED BY <1>1, <1>3, <1>15, <2>3, <3>1, <3>5, Quiet
  <2>4. CASE \E i \in Items : file.rows[<<Local, i>>] # None
    <3>1. Do(p, rest)
      BY <1>5, <1>15, <2>4
    <3>2. \A s : Has(p, s)' <=> s \in ToSet(rest)
      BY <1>8, <3>1
    <3>3. ClaimInv(p) => ClaimInv(p)'
      <4>1. ClaimInv(p) => Has(p, "move log") \/ Claimed(file)
        BY <1>3 DEF ClaimInv
      <4>2. Has(p, "move log") => Has(p, "move log")'
        BY <1>2, <1>5, <2>1, <3>2
      <4>3. Claimed(file) => Claimed(file)'
        BY <1>1 DEF Claimed
      <4> QED BY <4>1, <4>2, <4>3 DEF ClaimInv
    <3> QED BY <1>4, <2>3, <3>1, <3>3
  <2>5. CASE ~\E i \in Items : file.rows[<<Local, i>>] # None
    <3>1. Do(p, <<>>)
      BY <1>15, <2>5
    <3>2. Claimed(file)
      BY <2>5 DEF IInv, FileInv, Consistent, Claimed
    <3>3. Claimed(file)'
      BY <1>1, <3>2 DEF Claimed
    <3> QED BY <2>3, <3>1, <3>3 DEF ClaimInv
  <2> QED BY <2>4, <2>5
<1> QED BY <1>11, <1>12, <1>13, <1>14, <1>15 DEF Look

\* A server listens, or ends because another one does.
LEMMA ListenStep ==
  ASSUME IInv, NEW p \in Processes, Listen(p)
  PROVE  IInv'
<1>1. /\ Todo(p) # <<>> /\ Head(Todo(p)) = "listen"
      /\ UNCHANGED <<file, faults, claims, studied>>
  BY DEF Listen, Doing
<1>2. Exit(p) \/ (Do(p, <<>>) /\ UNCHANGED tx)
  BY DEF Listen
<1>3. CASE Exit(p)
  <2>1. faults' \in 0..MaxFaults /\ claims' \in 0..MaxClaims
    BY <1>1 DEF IInv, TypeOK
  <2> QED BY <1>1, <1>3, <2>1, Leaves
<1>4. CASE Do(p, <<>>) /\ UNCHANGED tx
  <2>1. /\ Todo(p) \in Seq(Steps) /\ Good(Todo(p)) /\ proc[p].kind \in {"server", "claim"}
        /\ \A s : Has(p, s) <=> s = "listen" \/ s \in ToSet(Tail(Todo(p)))
    BY <1>1, AtWork DEF IInv
  <2>2. ToSet(Tail(Todo(p))) = {}
    BY <1>1, <2>1, TailGood DEF Misplaced
  <2>3. ~InTx(p)
    BY <1>1, InTxFacts DEF IInv, Inside
  <2>4. Done(p) /\ (proc[p].kind = "claim" => ClaimInv(p))
    BY <2>1 DEF IInv, StartInv
  <2>5. \A s : s # "listen" => ~Has(p, s)
    BY <2>1, <2>2
  <2>6. /\ file.progress # {"lemma"} /\ file.progress = {"deck"}
        /\ {"rating", "given", "answer_ms"} \subseteq file.review
        /\ {"email", "nickname"} \subseteq file.users /\ file.index
    BY <2>3, <2>4, <2>5 DEF Done
  <2>7. file' = file
    BY <1>1
  <2>8. Done(p)'
    BY <2>6, <2>7 DEF Done
  <2>9. proc[p].kind = "claim" => Claimed(file)
    BY <2>3, <2>4, <2>5 DEF ClaimInv
  <2>10. proc[p].kind = "claim" => ClaimInv(p)'
    BY <2>7, <2>9 DEF ClaimInv, Claimed
  <2>11. <<>> \in Seq(Steps) /\ Good(<<>>)
    BY ShortLists
  <2> QED BY <1>1, <1>4, <2>3, <2>8, <2>10, <2>11, Quiet
<1> QED BY <1>2, <1>3, <1>4

\* A transaction begins.
LEMMA BeginStep ==
  ASSUME IInv, NEW p \in Processes, Begin(p)
  PROVE  IInv'
<1> DEFINE old == Todo(p)
<1>1. /\ old # <<>> /\ Head(old) = "begin" /\ tx = None /\ tx' = [by |-> p, file |-> file]
      /\ UNCHANGED <<file, faults, claims, studied>> /\ Do(p, Tail(old))
  BY DEF Begin, Doing
<1>2. /\ old \in Seq(Steps) /\ Good(old) /\ proc[p].kind \in {"server", "claim"}
      /\ \A s : Has(p, s) <=> s = Head(old) \/ s \in ToSet(Tail(old))
  BY <1>1, AtWork DEF IInv
<1>3. PICK rest \in Seq(Steps) : rest = Tail(old)
  BY <1>1, <1>2, TailFacts
<1>4. Good(rest) /\ rest # <<>> /\ Follows("begin", Head(rest))
  BY <1>1, <1>2, <1>3, TailGood
<1>5. file \in File /\ file' = file
  BY <1>1 DEF IInv, TypeOK
<1>6. tx' # None /\ tx'.by = p /\ tx'.file = file /\ tx' \in [by : Processes, file : File]
  BY <1>1, <1>5, NoneAssumption
<1>7. \A q \in Processes : ~InTx(q) /\ (InTx(q)' <=> q = p)
  BY <1>1, <1>6 DEF InTx
<1>8. /\ ProcInv' /\ Todo(p)' = rest /\ proc'[p].kind = proc[p].kind
      /\ \A q \in Processes \ {p} : proc'[q] = proc[q]
      /\ \A s : Has(p, s)' <=> s \in ToSet(rest)
  BY <1>1, <1>3, <1>4, <1>7, ProcStep DEF IInv
<1>9. FileInv' /\ Migrated(file, file')
  BY <1>1, SameFile DEF IInv
<1>10. Done(p) /\ (proc[p].kind = "claim" => ClaimInv(p))
  BY <1>2 DEF IInv, StartInv
<1>11. \A s : s # "begin" => (Has(p, s) <=> Has(p, s)')
  BY <1>1, <1>2, <1>3, <1>8
<1>12. Done(p)'
  BY <1>5, <1>7, <1>10, <1>11 DEF Done
<1>13. proc[p].kind = "claim" => ClaimInv(p)'
  <2>1. proc[p].kind = "claim" => Has(p, "move log") \/ Claimed(file)
    BY <1>7, <1>10 DEF ClaimInv
  <2>2. Claimed(file) => Claimed(file)'
    BY <1>5 DEF Claimed
  <2> QED BY <1>11, <2>1, <2>2 DEF ClaimInv
<1>14. StartInv'
  <2>1. \A q \in Processes \ {p} : /\ proc'[q].kind # "down" => Done(q)'
                                   /\ proc'[q].kind = "claim" => ClaimInv(q)'
    BY <1>7, <1>8, <1>9, Bystander DEF IInv
  <2> QED BY <1>8, <1>12, <1>13, <2>1 DEF StartInv
<1>15. TxInv'
  <2>1. Head(rest) \in {"copy rows", "move rows"}
    BY <1>4 DEF Follows
  <2>2. CASE Head(rest) = "copy rows"
    BY <1>4, <1>5, <1>6, <1>8, <2>2 DEF TxInv
  <2>3. CASE Head(rest) = "move rows"
    <3>1. ToSet(rest) \subseteq {"move rows", "move log", "commit"}
      BY <1>3, <1>4, <2>3, TailFacts, TailGood DEF Misplaced
    <3>2. ~Has(p, "rebuild?") /\ ~Has(p, "rename table")
      <4>1. "rebuild?" \notin ToSet(rest) /\ "rename table" \notin ToSet(rest)
        BY <3>1
      <4> QED BY <1>8, <1>11, <4>1
    <3>3. ~InTx(p)
      BY <1>7
    <3>4. file.progress # {"lemma"}
      BY <1>10, <3>2, <3>3 DEF Done
    <3> QED BY <1>4, <1>5, <1>6, <1>8, <2>3, <3>4 DEF TxInv
  <2> QED BY <2>1, <2>2, <2>3
<1> QED BY <1>1, <1>8, <1>9, <1>14, <1>15, Assembled DEF IInv, TypeOK

\* A transaction is committed: it is one of the two, and whole.
LEMMA CommitStep ==
  ASSUME IInv, NEW p \in Processes, Commit(p)
  PROVE  IInv'
<1> DEFINE old == Todo(p)
<1>1. /\ old # <<>> /\ Head(old) = "commit" /\ file' = tx.file /\ tx' = None
      /\ UNCHANGED <<faults, claims, studied>> /\ Do(p, Tail(old))
  BY DEF Commit, Doing
<1>2. /\ old \in Seq(Steps) /\ Good(old) /\ proc[p].kind \in {"server", "claim"}
      /\ \A s : Has(p, s) <=> s = Head(old) \/ s \in ToSet(Tail(old))
  BY <1>1, AtWork DEF IInv
<1>3. InTx(p)
  BY <1>1, AtWork DEF IInv, Inside
<1>4. PICK rest \in Seq(Steps) : rest = Tail(old)
  BY <1>1, <1>2, TailFacts
<1>5. Good(rest) /\ (rest # <<>> => Head(rest) \notin Inside)
  <2>1. rest # <<>> => Follows("commit", Head(rest))
    BY <1>1, <1>2, <1>4, TailGood
  <2> QED BY <1>1, <1>2, <1>4, <2>1, TailGood DEF Follows, Inside
<1>6. \A q \in Processes \ {p} : ~InTx(q) /\ ~InTx(q)'
  BY <1>1, <1>3 DEF InTx
<1>7. /\ ProcInv' /\ Todo(p)' = rest /\ proc'[p].kind = proc[p].kind
      /\ \A q \in Processes \ {p} : proc'[q] = proc[q]
      /\ \A s : Has(p, s)' <=> s \in ToSet(rest)
  BY <1>1, <1>4, <1>5, <1>6, ProcStep DEF IInv
<1>8. \/ file' = Rebuilt(file)
      \/ file' = LogClaimed(file) /\ file.progress # {"lemma"}
  <2>1. tx # None /\ tx.by = p
    BY <1>3 DEF InTx
  <2> QED BY <1>1, <2>1 DEF IInv, TxInv
<1>9. /\ Consistent(file') /\ Migrated(file, file') /\ file'.progress # {"lemma"}
      /\ Kept(file) => Kept(file')
  <2>1. Consistent(file) /\ studied \subseteq Cards
    BY DEF IInv, FileInv, TypeOK
  <2>2. CASE file' = Rebuilt(file)
    <3>1. Kept(file) => Kept(Rebuilt(file))
      BY <2>1, RebuildFacts DEF Kept
    <3>2. Rebuilt(file).progress # {"lemma"}
      BY <2>1, RebuildFacts
    <3> QED BY <2>1, <2>2, <3>1, <3>2, RebuildFacts
  <2>3. CASE file' = LogClaimed(file) /\ file.progress # {"lemma"}
    <3>1. Kept(file) => Kept(LogClaimed(file))
      BY <2>1, ClaimFacts
    <3> QED BY <2>1, <2>3, <3>1, ClaimFacts
  <2> QED BY <1>8, <2>2, <2>3
<1>10. FileInv'
  <2>1. Kept(file)'
    BY <1>1, <1>9 DEF IInv, FileInv, Kept
  <2>2. Consistent(file)'
    BY <1>9 DEF Consistent
  <2> QED BY <2>1, <2>2 DEF FileInv
<1>11. Done(p) /\ (proc[p].kind = "claim" => ClaimInv(p))
  BY <1>2 DEF IInv, StartInv
<1>12. \A s : s # "commit" => (Has(p, s) <=> Has(p, s)')
  BY <1>1, <1>2, <1>4, <1>7
<1>13. Done(p)'
  BY <1>9, <1>11, <1>12 DEF Done, Migrated
<1>14. proc[p].kind = "claim" => ClaimInv(p)'
  <2>1. CASE Has(p, "move log")
    BY <1>12, <2>1 DEF ClaimInv
  <2>2. CASE tx.file = LogClaimed(file)
    <3>1. Claimed(file')
      BY <1>1, <2>2, ClaimFacts DEF IInv, FileInv, TypeOK
    <3> QED BY <3>1 DEF ClaimInv, Claimed
  <2>3. CASE Claimed(file)
    <3>1. Claimed(file')
      BY <1>9, <2>3 DEF Migrated
    <3> QED BY <3>1 DEF ClaimInv, Claimed
  <2> QED BY <1>11, <2>1, <2>2, <2>3 DEF ClaimInv
<1>15. StartInv'
  <2>1. \A q \in Processes \ {p} : /\ proc'[q].kind # "down" => Done(q)'
                                   /\ proc'[q].kind = "claim" => ClaimInv(q)'
    BY <1>6, <1>7, <1>9, Bystander DEF IInv
  <2> QED BY <1>7, <1>13, <1>14, <2>1 DEF StartInv
<1>16. TxInv'
  BY <1>1 DEF TxInv
<1> QED BY <1>1, <1>7, <1>10, <1>15, <1>16, Assembled DEF IInv, TypeOK

\* What a statement outside of a transaction was there for, is there.
LEMMA PlainDone ==
  ASSUME NEW f \in File, NEW s
  PROVE  /\ s = "create progress" /\ f.progress # {"lemma"} => Effect(s, f).progress = {"deck"}
         /\ s = "create review" => "rating" \in Effect(s, f).review
         /\ s = "create users" => "email" \in Effect(s, f).users
         /\ s = "add given" => "given" \in Effect(s, f).review
         /\ s = "add answer_ms" => "answer_ms" \in Effect(s, f).review
         /\ s = "add nickname" => "nickname" \in Effect(s, f).users
         /\ s = "create index" => Effect(s, f).index
<1>1. CASE s = "create progress" /\ f.progress # {"lemma"}
  <2>1. f.progress \in {{}, {"deck"}}
    BY <1>1 DEF File
  <2>2. Effect(s, f) = IF f.progress = {} THEN [f EXCEPT !.progress = {"deck"}] ELSE f
    BY <1>1, Effects
  <2>3. Effect(s, f).progress = {"deck"}
    BY <2>1, <2>2 DEF File
  <2> QED BY <1>1, <2>3
<1>2. CASE s = "create review"
  <2>1. f.review = {} \/ "rating" \in f.review
    BY DEF File
  <2>2. Effect(s, f) = IF f.review = {} THEN [f EXCEPT !.review = {"rating", "given", "answer_ms"}] ELSE f
    BY <1>2, Effects
  <2>3. "rating" \in Effect(s, f).review
    BY <2>1, <2>2 DEF File
  <2> QED BY <1>2, <2>3
<1>3. CASE s = "create users"
  <2>1. f.users = {} \/ "email" \in f.users
    BY DEF File
  <2>2. Effect(s, f) = IF f.users = {} THEN [f EXCEPT !.users = {"email"}] ELSE f
    BY <1>3, Effects
  <2>3. "email" \in Effect(s, f).users
    BY <2>1, <2>2 DEF File
  <2> QED BY <1>3, <2>3
<1>4. CASE s = "add given"
  <2>1. Effect(s, f) = [f EXCEPT !.review = f.review \cup {"given"}]
    BY <1>4, Effects
  <2> QED BY <1>4, <2>1 DEF File
<1>5. CASE s = "add answer_ms"
  <2>1. Effect(s, f) = [f EXCEPT !.review = f.review \cup {"answer_ms"}]
    BY <1>5, Effects
  <2> QED BY <1>5, <2>1 DEF File
<1>6. CASE s = "add nickname"
  <2>1. Effect(s, f) = [f EXCEPT !.users = f.users \cup {"nickname"}]
    BY <1>6, Effects
  <2> QED BY <1>6, <2>1 DEF File
<1>7. CASE s = "create index"
  <2>1. Effect(s, f) = [f EXCEPT !.index = TRUE]
    BY <1>7, Effects
  <2> QED BY <1>7, <2>1 DEF File
<1> QED BY <1>1, <1>2, <1>3, <1>4, <1>5, <1>6, <1>7

\* A statement outside of a transaction: what has to be done before it, is done.
LEMMA PlainStep ==
  ASSUME IInv, NEW p \in Processes, NEW s \in Statements, Doing(p, s), tx = None,
         Accepts(s, file), Do(p, Tail(Todo(p))), file' = Effect(s, file),
         UNCHANGED <<tx, faults, claims, studied>>
  PROVE  IInv'
<1> DEFINE old == Todo(p)
<1>1. old # <<>> /\ Head(old) = s
  BY DEF Doing
<1>2. /\ old \in Seq(Steps) /\ Good(old) /\ proc[p].kind \in {"server", "claim"}
      /\ \A a : Has(p, a) <=> a = s \/ a \in ToSet(Tail(old))
      /\ s \notin Inside
  <2>1. ~InTx(p)
    BY DEF InTx
  <2> QED BY <1>1, <2>1, AtWork DEF IInv
<1>3. PICK rest \in Seq(Steps) : rest = Tail(old)
  BY <1>1, <1>2, TailFacts
<1>4. s # "begin"
  BY DEF Statements
<1>5. Good(rest) /\ (rest # <<>> => Head(rest) \notin Inside) /\ \A a \in ToSet(rest) : ~Misplaced(s, a)
  BY <1>1, <1>2, <1>3, <1>4, TailGood, AfterHead
<1>6. \A q \in Processes : ~InTx(q) /\ ~InTx(q)'
  BY DEF InTx
<1>7. /\ ProcInv' /\ Todo(p)' = rest /\ proc'[p].kind = proc[p].kind
      /\ \A q \in Processes \ {p} : proc'[q] = proc[q]
      /\ \A a : Has(p, a)' <=> a \in ToSet(rest)
  BY <1>1, <1>3, <1>5, <1>6, ProcStep DEF IInv
<1>8. Done(p) /\ (proc[p].kind = "claim" => ClaimInv(p))
  BY <1>2 DEF IInv, StartInv
<1>9. \A a : Has(p, a) <=> a = s \/ Has(p, a)'
  BY <1>2, <1>3, <1>7
<1>10. file \in File /\ Consistent(file)
  BY DEF IInv, TypeOK, FileInv
<1>11. s \in {"add given", "add answer_ms"} => "rating" \in file.review
  <2>1. s \in {"add given", "add answer_ms"} => ~Has(p, "create review")
    BY <1>5, <1>7, <1>9 DEF Misplaced
  <2> QED BY <1>8, <2>1 DEF Done
<1>12. s \in {"add nickname", "add nickname_fold"} => "email" \in file.users
  <2>1. s \in {"add nickname", "add nickname_fold"} => ~Has(p, "create users")
    BY <1>5, <1>7, <1>9 DEF Misplaced
  <2> QED BY <1>8, <2>1 DEF Done
<1>13. s = "create progress" => file.progress # {"lemma"}
  <2>1. s = "create progress" => ~Has(p, "rebuild?") /\ ~Has(p, "rename table")
    BY <1>5, <1>7, <1>9 DEF Misplaced
  <2> QED BY <1>6, <1>8, <2>1 DEF Done
<1>14. Consistent(file') /\ Migrated(file, file') /\ file'.rows = file.rows
  BY <1>2, <1>10, <1>11, <1>12, PlainStatement
<1>15. FileInv'
  <2>1. Kept(file)'
    BY <1>14 DEF IInv, FileInv, Kept
  <2>2. Consistent(file)'
    BY <1>14 DEF Consistent
  <2> QED BY <2>1, <2>2 DEF FileInv
<1>16. Done(p)'
  <2>1. file'.progress = {"lemma"} => Has(p, "rebuild?")' \/ Has(p, "rename table")'
    <3>1. s \notin {"rebuild?", "rename table"}
      BY <1>2 DEF Statements, Inside
    <3> QED BY <1>6, <1>8, <1>9, <1>14, <3>1 DEF Done, Migrated
  <2>2. file'.progress = {"deck"} \/ Has(p, "create progress")'
    BY <1>8, <1>9, <1>10, <1>13, <1>14, PlainDone DEF Done, Migrated
  <2>3. "rating" \in file'.review \/ Has(p, "create review")'
    BY <1>8, <1>9, <1>10, <1>14, PlainDone DEF Done, Migrated
  <2>4. s # "answers?" /\ s # "nicknames?"
    BY DEF Statements
  <2>5. "given" \in file'.review \/ Has(p, "answers?")' \/ Has(p, "add given")'
    BY <1>8, <1>9, <1>10, <1>14, <2>4, PlainDone DEF Done, Migrated
  <2>6. "answer_ms" \in file'.review \/ Has(p, "answers?")' \/ Has(p, "add answer_ms")'
    BY <1>8, <1>9, <1>10, <1>14, <2>4, PlainDone DEF Done, Migrated
  <2>7. "email" \in file'.users \/ Has(p, "create users")'
    BY <1>8, <1>9, <1>10, <1>14, PlainDone DEF Done, Migrated
  <2>8. "nickname" \in file'.users \/ Has(p, "nicknames?")' \/ Has(p, "add nickname")'
    BY <1>8, <1>9, <1>10, <1>14, <2>4, PlainDone DEF Done, Migrated
  <2>9. file'.index \/ Has(p, "create index")'
    BY <1>8, <1>9, <1>10, <1>14, PlainDone DEF Done, Migrated
  <2> QED BY <2>1, <2>2, <2>3, <2>5, <2>6, <2>7, <2>8, <2>9 DEF Done
<1>17. proc[p].kind = "claim" => ClaimInv(p)'
  <2>1. proc[p].kind = "claim" => Has(p, "move log") \/ Claimed(file)
    BY <1>6, <1>8 DEF ClaimInv
  <2>2. Claimed(file) => Claimed(file)'
    BY <1>14 DEF Migrated, Claimed
  <2>3. s # "move log"
    BY <1>2 DEF Inside
  <2> QED BY <1>9, <2>1, <2>2, <2>3 DEF ClaimInv
<1>18. StartInv'
  <2>1. \A q \in Processes \ {p} : /\ proc'[q].kind # "down" => Done(q)'
                                   /\ proc'[q].kind = "claim" => ClaimInv(q)'
    BY <1>6, <1>7, <1>14, Bystander DEF IInv
  <2> QED BY <1>7, <1>16, <1>17, <2>1 DEF StartInv
<1>19. TxInv'
  BY DEF TxInv
<1> QED BY <1>7, <1>15, <1>18, <1>19, Assembled DEF IInv, TypeOK

\* A statement of a transaction: the next one, and what it makes of the file.
LEMMA TxStep ==
  ASSUME IInv, NEW p \in Processes, NEW s \in Statements, Doing(p, s), InTx(p),
         Accepts(s, tx.file), Do(p, Tail(Todo(p))), tx' = [tx EXCEPT !.file = Effect(s, tx.file)],
         UNCHANGED <<file, faults, claims, studied>>
  PROVE  IInv'
<1> DEFINE old == Todo(p)
<1>1. old # <<>> /\ Head(old) = s
  BY DEF Doing
<1>2. /\ old \in Seq(Steps) /\ Good(old) /\ proc[p].kind \in {"server", "claim"}
      /\ \A a : Has(p, a) <=> a = s \/ a \in ToSet(Tail(old))
  BY <1>1, AtWork DEF IInv
<1>3. PICK rest \in Seq(Steps) : rest = Tail(old)
  BY <1>1, <1>2, TailFacts
<1>4. tx \in [by : Processes, file : File] /\ tx.by = p /\ tx # None
  BY DEF IInv, TxInv, InTx
<1>5. s \in Inside \ {"commit"}
  <2>1. s # "commit"
    BY DEF Statements
  <2> QED BY <1>1, <2>1, InTxFacts DEF IInv
<1>6. Good(rest) /\ rest # <<>> /\ Follows(s, Head(rest))
  BY <1>1, <1>2, <1>3, <1>5, TailGood
<1>7. /\ Consistent(file) /\ studied \subseteq Cards /\ file \in File
  BY DEF IInv, FileInv, TypeOK
<1>8. \/ s = "copy rows" /\ tx.file = file
      \/ s = "drop table" /\ file.progress = {"lemma"} /\ tx.file = Copied(file)
      \/ s = "rename table" /\ file.progress = {"lemma"} /\ tx.file = Dropped(file)
      \/ s = "move rows" /\ file.progress # {"lemma"} /\ tx.file = file
      \/ s = "move log" /\ file.progress # {"lemma"} /\ tx.file = RowsClaimed(file)
  <2>1. s # "commit"
    BY <1>5
  <2> QED BY <1>1, <1>4, <2>1 DEF IInv, TxInv
<1>9. PICK new : new = Effect(s, tx.file)
  OBVIOUS
<1>10. \/ /\ s = "copy rows" /\ Head(rest) = "drop table"
          /\ file.progress = {"lemma"} /\ new = Copied(file)
       \/ /\ s = "drop table" /\ Head(rest) = "rename table"
          /\ file.progress = {"lemma"} /\ new = Dropped(file)
       \/ s = "rename table" /\ Head(rest) = "commit" /\ new = Rebuilt(file)
       \/ /\ s = "move rows" /\ Head(rest) = "move log"
          /\ file.progress # {"lemma"} /\ new = RowsClaimed(file)
       \/ /\ s = "move log" /\ Head(rest) = "commit"
          /\ file.progress # {"lemma"} /\ new = LogClaimed(file)
  <2>1. CASE s = "copy rows" /\ tx.file = file
    <3>1. "lemma" \in file.progress
      BY <2>1 DEF Accepts
    <3>2. file.progress = {"lemma"}
      BY <1>7, <3>1 DEF File
    <3>3. Head(rest) = "drop table"
      BY <1>6, <2>1 DEF Follows
    <3> QED BY <1>9, <2>1, <3>2, <3>3 DEF Copied
  <2>2. CASE s = "drop table" /\ file.progress = {"lemma"} /\ tx.file = Copied(file)
    BY <1>6, <1>9, <2>2 DEF Follows, Dropped
  <2>3. CASE s = "rename table" /\ file.progress = {"lemma"} /\ tx.file = Dropped(file)
    BY <1>6, <1>9, <2>3 DEF Follows, Rebuilt
  <2>4. CASE s = "move rows" /\ file.progress # {"lemma"} /\ tx.file = file
    BY <1>6, <1>9, <2>4 DEF Follows, RowsClaimed
  <2>5. CASE s = "move log" /\ file.progress # {"lemma"} /\ tx.file = RowsClaimed(file)
    BY <1>6, <1>9, <2>5 DEF Follows, LogClaimed
  <2> QED BY <1>8, <2>1, <2>2, <2>3, <2>4, <2>5
<1>11. new \in File
  BY <1>7, <1>10, RebuildFacts, ClaimFacts
<1>12. tx' = [tx EXCEPT !.file = new]
  BY <1>9
<1>13. tx'.by = p /\ tx'.file = new /\ tx' \in [by : Processes, file : File] /\ tx' # None
  BY <1>4, <1>11, <1>12, NoneAssumption
<1>14. InTx(p)' /\ \A q \in Processes \ {p} : ~InTx(q) /\ ~InTx(q)'
  BY <1>4, <1>13 DEF InTx
<1>15. /\ ProcInv' /\ Todo(p)' = rest /\ proc'[p].kind = proc[p].kind
       /\ \A q \in Processes \ {p} : proc'[q] = proc[q]
       /\ \A a : Has(p, a)' <=> a \in ToSet(rest)
  BY <1>1, <1>3, <1>6, <1>14, ProcStep DEF IInv
<1>16. FileInv' /\ Migrated(file, file') /\ file' = file
  BY SameFile DEF IInv
<1>17. TxInv'
  <2>1. /\ Copied(file)' = Copied(file) /\ Dropped(file)' = Dropped(file)
        /\ Rebuilt(file)' = Rebuilt(file)
        /\ RowsClaimed(file)' = RowsClaimed(file) /\ LogClaimed(file)' = LogClaimed(file)
    BY <1>16
  <2>2. Todo(tx.by)' = rest
    BY <1>13, <1>15 DEF Todo
  <2>3. PICK a : a = Head(rest)
    OBVIOUS
  <2>4. Head(Todo(tx.by))' = a /\ Todo(tx.by)' # <<>>
    BY <1>6, <2>2, <2>3
  <2> QED BY <1>10, <1>13, <1>16, <2>1, <2>3, <2>4 DEF TxInv
<1>18. Done(p) /\ (proc[p].kind = "claim" => ClaimInv(p))
  BY <1>2 DEF IInv, StartInv
<1>19. \A a : Has(p, a) <=> a = s \/ Has(p, a)'
  BY <1>2, <1>3, <1>15
<1>20. Done(p)'
  <2>1. s \in {"copy rows", "drop table", "rename table", "move rows", "move log"}
    BY <1>10
  <2> QED BY <1>14, <1>16, <1>18, <1>19, <2>1 DEF Done
<1>21. proc[p].kind = "claim" => ClaimInv(p)'
  <2>1. CASE s = "move log"
    <3>1. tx'.file = LogClaimed(file)' /\ Head(Todo(p)') = "commit"
      BY <1>10, <1>13, <1>15, <1>16, <2>1
    <3> QED BY <1>14, <3>1 DEF ClaimInv
  <2>2. CASE s # "move log"
    <3>1. ClaimInv(p) => Has(p, "move log") \/ Claimed(file)
      BY <1>1, <1>5 DEF ClaimInv
    <3>2. Claimed(file) => Claimed(file)'
      BY <1>16 DEF Claimed
    <3> QED BY <1>18, <1>19, <2>2, <3>1, <3>2 DEF ClaimInv
  <2> QED BY <2>1, <2>2
<1>22. StartInv'
  <2>1. \A q \in Processes \ {p} : /\ proc'[q].kind # "down" => Done(q)'
                                   /\ proc'[q].kind = "claim" => ClaimInv(q)'
    BY <1>14, <1>15, <1>16, Bystander DEF IInv
  <2> QED BY <1>15, <1>20, <1>21, <2>1 DEF StartInv
<1> QED BY <1>15, <1>16, <1>17, <1>22, Assembled DEF IInv, TypeOK

\* A statement, or the end of a start that SQLite refuses one.
LEMMA ExecuteStep ==
  ASSUME IInv, NEW p \in Processes, Execute(p)
  PROVE  IInv'
<1>1. PICK s \in Statements :
        /\ Doing(p, s) /\ (tx = None \/ InTx(p))
        /\ IF ~Accepts(s, View(p)) THEN Exit(p) /\ UNCHANGED file
           ELSE /\ Do(p, Tail(Todo(p)))
                /\ IF InTx(p) THEN tx' = [tx EXCEPT !.file = Effect(s, @)] /\ UNCHANGED file
                              ELSE file' = Effect(s, file) /\ UNCHANGED tx
  BY DEF Execute
<1>2. UNCHANGED <<faults, claims, studied>>
  BY DEF Execute
<1>3. faults' \in 0..MaxFaults /\ claims' \in 0..MaxClaims
  BY <1>2 DEF IInv, TypeOK
<1>4. CASE ~Accepts(s, View(p))
  BY <1>1, <1>2, <1>3, <1>4, Leaves
<1>5. CASE Accepts(s, View(p)) /\ InTx(p)
  <2>1. View(p) = tx.file
    BY <1>5 DEF View
  <2>2. tx' = [tx EXCEPT !.file = Effect(s, tx.file)]
    BY <1>1, <1>5
  <2> QED BY <1>1, <1>2, <1>5, <2>1, <2>2, TxStep
<1>6. CASE Accepts(s, View(p)) /\ ~InTx(p)
  <2>1. View(p) = file /\ tx = None
    BY <1>1, <1>6 DEF View
  <2> QED BY <1>1, <1>2, <1>6, <2>1, PlainStep
<1> QED BY <1>4, <1>5, <1>6

\* What a server that listens does to the file, and no process goes on.
LEMMA Serves ==
  ASSUME IInv, tx = None, UNCHANGED <<tx, proc, faults, claims>>,
         Consistent(file'), Migrated(file, file'), Kept(file)', studied' \subseteq Cards
  PROVE  IInv'
<1>1. \A q \in Processes : ~InTx(q) /\ ~InTx(q)'
  BY DEF InTx
<1>2. ProcInv'
  BY <1>1 DEF IInv, ProcInv, Todo
<1>3. FileInv'
  <2>1. Consistent(file)'
    BY DEF Consistent
  <2> QED BY <2>1 DEF FileInv
<1>4. StartInv'
  <2>1. \A q \in Processes : /\ proc'[q].kind # "down" => Done(q)'
                             /\ proc'[q].kind = "claim" => ClaimInv(q)'
    BY <1>1, Bystander DEF IInv
  <2> QED BY <2>1 DEF StartInv
<1>5. TxInv'
  BY DEF TxInv
<1> QED BY <1>2, <1>3, <1>4, <1>5, Assembled DEF IInv, TypeOK

\* A review is saved with its row.
LEMMA GradeStep ==
  ASSUME IInv, NEW p \in Processes, NEW i \in Items, Grade(p, i)
  PROVE  IInv'
<1> DEFINE c == <<Account, i>>
<1>1. /\ tx = None /\ UNCHANGED <<tx, proc, faults, claims>> /\ studied' = studied \cup {c}
      /\ file' = [file EXCEPT !.rows[c] = Account, !.log[Account] = @ \cup {c}]
  BY DEF Grade
<1>2. file \in File /\ Consistent(file) /\ Kept(file) /\ studied \subseteq Cards
  BY DEF IInv, TypeOK, FileInv
<1>3. /\ c \in Cards /\ Account \in Learners /\ Local \in Learners /\ Local # Account
      /\ Account # None /\ \A j \in Items : <<Local, j>> # c
  BY CardFacts, LearnerAssumption DEF Learners
<1>4. /\ file'.rows = [file.rows EXCEPT ![c] = Account]
      /\ file'.log = [file.log EXCEPT ![Account] = file.log[Account] \cup {c}]
      /\ file'.progress = file.progress /\ file'.review = file.review
      /\ file'.users = file.users /\ file'.index = file.index
      /\ file'.scratch = file.scratch /\ file'.verified = file.verified
      /\ file' = [progress |-> file'.progress, rows |-> file'.rows, scratch |-> file'.scratch,
                  review |-> file'.review, log |-> file'.log, users |-> file'.users,
                  index |-> file'.index, verified |-> file'.verified]
  BY <1>1, <1>2 DEF File
<1>5. /\ file.rows \in [Cards -> Learners \cup {None}]
      /\ file.log \in [Learners -> SUBSET Cards]
  BY <1>2 DEF File
<1>6. /\ file'.rows \in [Cards -> Learners \cup {None}]
      /\ file'.rows[c] = Account /\ \A d \in Cards \ {c} : file'.rows[d] = file.rows[d]
  BY <1>3, <1>4, <1>5
<1>7. /\ file'.log \in [Learners -> SUBSET Cards]
      /\ file'.log[Local] = file.log[Local]
  BY <1>3, <1>4, <1>5
<1>8. file' \in File
  BY <1>2, <1>4, <1>6, <1>7 DEF File
<1>9. \A j \in Items : /\ <<Local, j>> \in Cards \ {c} /\ <<Account, j>> \in Cards
                       /\ file'.rows[<<Local, j>>] = file.rows[<<Local, j>>]
                       /\ file'.rows[<<Account, j>>] \in {Account, file.rows[<<Account, j>>]}
  BY <1>3, <1>6, CardFacts
<1>10. Consistent(file')
  BY <1>2, <1>4, <1>7, <1>8, <1>9 DEF Consistent
<1>11. Migrated(file, file')
  <2>1. Claimed(file) => Claimed(file')
    BY <1>7, <1>9 DEF Claimed
  <2> QED BY <1>4, <2>1 DEF Migrated
<1>12. ASSUME NEW d \in Cards, file.rows[d] # None PROVE file'.rows[d] # None
  BY <1>3, <1>6, <1>12
<1>13. ASSUME NEW d \in studied'
       PROVE  file'.rows[d] # None \/ (d[1] = Local /\ file'.rows[<<Account, d[2]>>] # None)
  <2>1. CASE d = c
    BY <1>3, <1>6, <2>1
  <2>2. CASE d \in studied
    <3>1. d \in Cards /\ <<Account, d[2]>> \in Cards
      BY <1>2, <2>2, CardFacts
    <3> QED BY <1>2, <1>12, <2>2, <3>1 DEF Kept
  <2> QED BY <1>1, <1>13, <2>1, <2>2
<1>14. Kept(file)'
  BY <1>13 DEF Kept
<1>15. studied' \subseteq Cards
  BY <1>1, <1>2, <1>3
<1> QED BY <1>1, <1>10, <1>11, <1>14, <1>15, Serves

\* Somebody signs in.
LEMMA SignInStep ==
  ASSUME IInv, NEW p \in Processes, SignIn(p)
  PROVE  IInv'
<1>1. /\ tx = None /\ UNCHANGED <<tx, proc, faults, claims, studied>>
      /\ file' = [file EXCEPT !.verified = TRUE]
  BY DEF SignIn
<1>2. file \in File /\ Consistent(file) /\ Kept(file) /\ studied \subseteq Cards
  BY DEF IInv, TypeOK, FileInv
<1>3. /\ file' \in File /\ file'.rows = file.rows /\ file'.log = file.log
      /\ file'.progress = file.progress /\ file'.review = file.review
      /\ file'.users = file.users /\ file'.index = file.index
  BY <1>1, <1>2 DEF File
<1>4. Consistent(file') /\ Migrated(file, file')
  BY <1>2, <1>3 DEF Consistent, Migrated, Claimed
<1>5. Kept(file)'
  BY <1>1, <1>2, <1>3 DEF Kept
<1> QED BY <1>1, <1>2, <1>4, <1>5, Serves

\* The first server finds a file of an earlier release.
LEMMA InitHolds == Init => IInv
<1> SUFFICES ASSUME Init PROVE IInv
  OBVIOUS
<1>1. /\ Consistent(file) /\ file \in File /\ tx = None
      /\ proc = [p \in Processes |-> Down]
      /\ studied = {c \in Cards : file.rows[c] # None}
      /\ faults \in 0..MaxFaults /\ claims \in 0..MaxClaims
  BY FilesAssumption, FaultAssumption DEF Init, Consistent
<1>2. Down \in Process /\ Down.todo = <<>> /\ Down.kind = "down"
  BY DEF Down, Process
<1>3. \A p \in Processes : proc[p] = Down /\ Todo(p) = <<>>
  BY <1>1, <1>2 DEF Todo
<1>4. ProcInv
  <2>1. proc \in [Processes -> Process]
    BY <1>1, <1>2
  <2>2. \A p \in Processes : Good(Todo(p))
    BY <1>3, ShortLists
  <2> QED BY <1>3, <2>1, <2>2 DEF ProcInv
<1>5. FileInv
  BY <1>1 DEF FileInv, Kept
<1>6. TxInv
  BY <1>1 DEF TxInv
<1>7. StartInv
  BY <1>2, <1>3 DEF StartInv
<1>8. TypeOK
  BY <1>1, <1>2, <1>3 DEF TypeOK
<1> QED BY <1>4, <1>5, <1>6, <1>7, <1>8 DEF IInv

\* Every step.
LEMMA NextHolds == IInv /\ [Next]_vars => IInv'
<1> SUFFICES ASSUME IInv, [Next]_vars PROVE IInv'
  OBVIOUS
<1>1. CASE UNCHANGED vars
  <2>1. \A q \in Processes : InTx(q)' <=> InTx(q)
    BY <1>1 DEF vars, InTx
  <2>2. ProcInv'
    BY <1>1, <2>1 DEF IInv, ProcInv, Todo, vars
  <2>3. FileInv' /\ Migrated(file, file')
    BY <1>1, SameFile DEF IInv, vars
  <2>4. TxInv'
    BY <1>1, SameTx DEF IInv, vars
  <2>5. StartInv'
    <3>1. \A q \in Processes : /\ proc'[q].kind # "down" => Done(q)'
                               /\ proc'[q].kind = "claim" => ClaimInv(q)'
      BY <1>1, <2>1, <2>3, Bystander DEF IInv, vars
    <3> QED BY <3>1 DEF StartInv
  <2> QED BY <1>1, <2>2, <2>3, <2>4, <2>5, Assembled DEF IInv, TypeOK, vars
<1>2. faults \in 0..MaxFaults /\ claims \in 0..MaxClaims /\ MaxFaults \in Nat /\ MaxClaims \in Nat
  BY FaultAssumption DEF IInv, TypeOK
<1>3. ASSUME NEW p \in Processes, StartServer(p) PROVE IInv'
  BY <1>2, <1>3, Starts DEF StartServer
<1>4. ASSUME NEW p \in Processes, StartClaim(p) PROVE IInv'
  <2>1. claims' \in 0..MaxClaims
    BY <1>2, <1>4 DEF StartClaim
  <2> QED BY <1>4, <2>1, Starts DEF StartClaim
<1>5. ASSUME NEW p \in Processes, EndClaim(p) PROVE IInv'
  BY <1>2, <1>5, Leaves DEF EndClaim
<1>6. ASSUME NEW p \in Processes, Step(p) PROVE IInv'
  BY <1>5, <1>6, LookStep, BeginStep, CommitStep, ExecuteStep, ListenStep DEF Step
<1>7. ASSUME NEW p \in Processes, Die(p) PROVE IInv'
  <2>1. faults' \in 0..MaxFaults
    BY <1>2, <1>7 DEF Die
  <2> QED BY <1>2, <1>7, <2>1, Leaves DEF Die
<1>8. ASSUME NEW p \in Processes, Stop(p) PROVE IInv'
  BY <1>2, <1>8, Leaves DEF Stop
<1>9. CASE Next
  BY <1>3, <1>4, <1>6, <1>7, <1>8, <1>9, SignInStep, GradeStep DEF Next
<1> QED BY <1>1, <1>9

\* The inductive invariant.
THEOREM Invariance == Spec => []IInv
BY InitHolds, NextHolds, PTL DEF Spec

\* What has nothing left to do, has done it all.
LEMMA NothingLeft ==
  ASSUME IInv, NEW p \in Processes, proc[p].kind # "down", Todo(p) = <<>>
  PROVE  /\ file.progress = {"deck"} /\ {"rating", "given", "answer_ms"} \subseteq file.review
         /\ {"email", "nickname"} \subseteq file.users /\ file.index
         /\ proc[p].kind = "claim" => Claimed(file)
<1>1. ~InTx(p)
  BY InTxFacts DEF IInv
<1>2. \A s : ~Has(p, s)
  BY ShortLists DEF Has
<1>3. Done(p) /\ (proc[p].kind = "claim" => ClaimInv(p))
  BY DEF IInv, StartInv
<1> QED BY <1>1, <1>2, <1>3 DEF Done, ClaimInv

\* No card that was ever answered is lost, whatever was interrupted and whoever was
\* starting at the same time, and a server that listens has every column its queries
\* name (sqlitedb.go:251, main.go of cmd/uebung).
THEOREM NoCardLostHolds == Spec => []NoCardLost
<1>1. ASSUME IInv PROVE NoCardLost
  <2>1. Kept(file) /\ file \in File /\ Consistent(file) /\ TypeOK
    BY <1>1 DEF IInv, FileInv, TypeOK
  <2>2. ASSUME NEW p \in Processes, Serving(p) PROVE Usable(file)
    <3>1. /\ file.progress = {"deck"} /\ {"rating", "given", "answer_ms"} \subseteq file.review
          /\ {"email", "nickname"} \subseteq file.users /\ file.index
      BY <1>1, <2>2, NothingLeft DEF Serving
    <3>2. file.review \subseteq {"rating", "given", "answer_ms"}
      BY <2>1 DEF File
    <3>3. file.users \subseteq {"email", "nickname", "nickname_fold"}
      <4>1. PICK q \in SUBSET {"nickname", "nickname_fold"} : file.users = {"email"} \cup q
        BY <2>1, <3>1 DEF File
      <4> QED BY <4>1
    <3>4. "nickname_fold" \in file.users
      BY <2>1, <3>1 DEF Consistent
    <3> QED BY <3>1, <3>2, <3>3, <3>4 DEF Usable
  <2> QED BY <2>1, <2>2 DEF NoCardLost, Kept
<1> QED BY <1>1, Invariance, PTL

\* A claim that has come to its end has moved the log in full and every row it could,
\* though a server may have been started beside it and either may have been started
\* over (sqlitedb.go:807).
THEOREM ClaimIsWholeHolds == Spec => []ClaimIsWhole
<1>1. ASSUME IInv PROVE ClaimIsWhole
  <2>1. ASSUME NEW p \in Processes, proc[p] = [kind |-> "claim", todo |-> <<>>]
        PROVE  Claimed(file)
    <3>1. proc[p].kind = "claim" /\ Todo(p) = <<>>
      BY <2>1 DEF Todo
    <3> QED BY <1>1, <3>1, NothingLeft
  <2> QED BY <2>1 DEF ClaimIsWhole, Claimed
<1> QED BY <1>1, Invariance, PTL
==============================================================================
