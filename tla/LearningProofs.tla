--------------------------- MODULE LearningProofs ---------------------------
(***************************************************************************)
(* Proofs about what a learner is offered: Course, for any releases the    *)
(* authors may write, of any size and in any order, and any unlock         *)
(* fraction; then Rounds, for any deck, limits of a batch, length of a day *)
(* and cap on the intervals. The two share no state.                       *)
(***************************************************************************)
EXTENDS Course, Rounds, FiniteSetTheorems, SequenceTheorems, WellFoundedInduction, TLAPS

\* The inductive invariant of Course: one learner has answered finitely many cards.
CourseIInv == TypeOK /\ IsFiniteSet(seen)

-----------------------------------------------------------------------------
(* The shelf.                                                              *)

\* A deck that is on the shelf is found there by its name.
LEMMA DeckFacts ==
  ASSUME NEW r, NEW id, OnShelf(r, id)
  PROVE  DeckOf(r, id) \in ToSet(r.decks) /\ DeckOf(r, id).id = id
BY DEF OnShelf, DeckOf

\* The words a deck shows are items of the model.
LEMMA WordsAreItems ==
  ASSUME NEW r \in Releases, NEW d \in ToSet(r.decks)
  PROVE  WordsOf(r, d) \subseteq Items
<1>1. ToSet(r.nouns) \subseteq Words /\ ToSet(d.items) \subseteq Words
  BY DEF Words
<1> QED BY <1>1 DEF WordsOf, Material, Items

\* What a start has checked: no two decks have one name, a prerequisite is on the
\* shelf, and no answer is empty.
LEMMA StartFacts ==
  ASSUME NEW r \in Releases, Starts(r)
  PROVE  /\ \A d \in ToSet(r.decks) : /\ OnShelf(r, d.id) /\ DeckOf(r, d.id) = d
                                      /\ "" \notin ToSet(d.answers)
                                      /\ d.prerequisite # None => OnShelf(r, d.prerequisite)
<1>1. /\ \A k \in DOMAIN r.decks : Accepted(r.decks, k)
      /\ DOMAIN r.decks = 1..Len(r.decks) /\ Len(r.decks) \in Nat
      /\ ToSet(r.decks) = {r.decks[k] : k \in DOMAIN r.decks}
  BY ReleaseAssumption DEF Starts, ToSet
<1>2. ASSUME NEW j \in DOMAIN r.decks, NEW k \in DOMAIN r.decks, r.decks[j].id = r.decks[k].id
      PROVE  j = k
  <2>1. \A m, n \in DOMAIN r.decks : m < n => r.decks[m].id # r.decks[n].id
    BY <1>1 DEF Accepted
  <2> QED BY <1>1, <1>2, <2>1
<1>3. ASSUME NEW d \in ToSet(r.decks)
      PROVE  /\ OnShelf(r, d.id) /\ DeckOf(r, d.id) = d
             /\ "" \notin ToSet(d.answers)
             /\ d.prerequisite # None => OnShelf(r, d.prerequisite)
  <2>1. PICK k \in DOMAIN r.decks : d = r.decks[k]
    BY <1>1
  <2>2. Accepted(r.decks, k)
    BY <1>1
  <2>3. OnShelf(r, d.id)
    BY DEF OnShelf
  <2>4. DeckOf(r, d.id) = d
    BY <1>1, <1>2, <2>1, <2>3, DeckFacts
  <2>5. d.prerequisite # None => OnShelf(r, d.prerequisite)
    <3>1. \A j \in 1..k - 1 : j \in DOMAIN r.decks
      BY <1>1
    <3> QED BY <1>1, <2>1, <2>2, <3>1 DEF Accepted, OnShelf
  <2> QED BY <2>1, <2>2, <2>3, <2>4, <2>5 DEF Accepted, ValidAnswers
<1> QED BY <1>3

\* A set of numbers has a least one.
LEMMA LeastNumber == ASSUME NEW T, T \subseteq Nat, T # {} PROVE \E n \in T : \A m \in T : n <= m
<1>1. IsWellFoundedOn(OpToRel(<, Nat), Nat)
  BY NatLessThanWellFounded
<1>2. PICK n \in T : \A m \in T : ~ (<<m, n>> \in OpToRel(<, Nat))
  BY <1>1, WFMin
<1>3. \A m, k \in Nat : m < k => <<m, k>> \in OpToRel(<, Nat)
  BY DEF OpToRel
<1>4. \A m \in T : ~(m < n)
  BY <1>2, <1>3
<1>5. ASSUME NEW m \in T PROVE n <= m
  <2>1. m \in Nat /\ n \in Nat
    OBVIOUS
  <2>2. ~(m < n)
    BY <1>4
  <2> QED BY <2>1, <2>2
<1> QED BY <1>5

\* Of finitely many places the last can be named.
LEMMA GreatestNumber ==
  ASSUME NEW n \in Nat, NEW T, T \subseteq 1..n, T # {}
  PROVE  \E k \in T : \A j \in T : j <= k
<1>1. PICK U : U = {n - k : k \in T}
  OBVIOUS
<1>2. U \subseteq Nat /\ U # {}
  <2>1. ASSUME NEW v \in U PROVE v \in Nat
    <3>1. PICK k \in T : v = n - k
      BY <1>1
    <3>2. k \in 1..n
      OBVIOUS
    <3> QED BY <3>1, <3>2
  <2> QED BY <2>1, <1>1
<1>3. PICK u \in U : \A v \in U : u <= v
  BY <1>2, LeastNumber
<1>4. PICK k \in T : u = n - k
  BY <1>1
<1>5. \A j \in T : n - k <= n - j
  BY <1>1, <1>3, <1>4
<1> QED BY <1>4, <1>5

-----------------------------------------------------------------------------
(* The gate.                                                               *)

\* Multiples are ordered like what they are multiples of.
LEMMA MultipleLess ==
  ASSUME NEW k \in Nat \ {0}, NEW x \in Nat, NEW y \in Nat, x < y
  PROVE  k * x < k * y /\ x * k < y * k
<1>1. y >= x + 1 /\ k * y >= k * (x + 1)
  OBVIOUS
<1>2. k * (x + 1) = k * x + k /\ k * x \in Nat /\ k * y \in Nat
  OBVIOUS
<1>3. x * k = k * x /\ y * k = k * y
  OBVIOUS
<1> QED BY <1>1, <1>2, <1>3

\* So are they compared.
LEMMA MultipleOrder ==
  ASSUME NEW k \in Nat \ {0}
  PROVE  \A x, y \in Nat : /\ k * x >= k * y <=> x >= y
                          /\ k * x > k * y <=> x >= y + 1
<1> SUFFICES ASSUME NEW x \in Nat, NEW y \in Nat
             PROVE  /\ k * x >= k * y <=> x >= y
                    /\ k * x > k * y <=> x >= y + 1
  OBVIOUS
<1>1. k * x \in Nat /\ k * y \in Nat
  OBVIOUS
<1>2. CASE x < y
  BY <1>1, <1>2, MultipleLess
<1>3. CASE x = y
  BY <1>1, <1>3
<1>4. CASE y < x
  BY <1>1, <1>4, MultipleLess
<1> QED BY <1>2, <1>3, <1>4

\* A fraction rounded up is the least number that is no less than it.
LEMMA CeilingIsLeast ==
  ASSUME NEW y \in Nat, NEW k \in Nat \ {0}, NEW x \in Nat
  PROVE  x >= (y + k - 1) \div k <=> k * x >= y
<1>1. PICK s \in Nat : s = y + k - 1
  OBVIOUS
<1>2. PICK q \in Int : q = s \div k /\ k * q <= s /\ s < k * q + k
  <2>1. s \div k \in Int /\ k * (s \div k) <= s
    BY <1>1
  <2>2. s < k * (s \div k) + k
    BY <1>1
  <2> QED BY <2>1, <2>2
<1>3. k * q \in Int /\ k * x \in Int
  BY <1>2
<1>4. CASE x >= q
  <2>1. k * x >= k * q
    BY <1>2, <1>4
  <2>2. k * x >= y
    BY <2>1, <1>1, <1>2, <1>3
  <2> QED BY <2>2, <1>1, <1>2, <1>4
<1>5. CASE ~(x >= q)
  <2>1. x <= q - 1 /\ q - 1 \in Int
    BY <1>2, <1>5
  <2>2. k * x <= k * (q - 1)
    BY <2>1
  <2>3. k * (q - 1) = k * q - k
    BY <1>2
  <2>4. ~(k * x >= y)
    BY <2>2, <2>3, <1>1, <1>2, <1>3
  <2> QED BY <2>4, <1>1, <1>2, <1>5
<1> QED BY <1>4, <1>5

\* What the gate asks for, by the size of a deck: at least the fraction; one more than
\* the fraction only where the fraction is a whole number, and then no more than all.
LEMMA AskedOf ==
  ASSUME NEW a \in Nat, NEW x \in Nat
  PROVE  /\ Asked(a) \in Int
         /\ x >= Asked(a) => UnlockDen * x >= UnlockNum * a
         /\ UnlockDen * x > UnlockNum * a => x >= Asked(a)
         /\ x >= a => x >= Asked(a)
<1>1. PICK k \in Nat \ {0}, n \in Nat \ {0} : k = UnlockDen /\ n = UnlockNum /\ n <= k
  BY FractionAssumption
<1>2. PICK y \in Nat : y = n * a
  BY <1>1
<1>3. PICK q \in Int : q = (y + k - 1) \div k
  BY <1>1, <1>2
<1>4. \A z \in Nat : z >= q <=> k * z >= y
  BY <1>1, <1>2, <1>3, CeilingIsLeast
<1>5. Asked(a) = q + (IF a \in RoundsUp THEN 1 ELSE 0)
  BY <1>1, <1>2, <1>3 DEF Asked
<1>6. n * a <= k * a /\ k * a \in Nat
  BY <1>1
<1>7. k * x \in Nat /\ (x >= a => k * x >= k * a)
  BY <1>1
<1>8. CASE a \notin RoundsUp
  <2>1. Asked(a) = q
    BY <1>5, <1>8
  <2> QED BY <2>1, <1>1, <1>2, <1>4, <1>6, <1>7
<1>9. CASE a \in RoundsUp
  <2>1. a # 0 /\ n < k /\ \E j \in 1..a : n * a = k * j
    BY <1>1, <1>9, FractionAssumption
  <2>2. PICK j \in Nat : y = k * j
    BY <1>2, <2>1
  <2>3. q = j
    <3>1. y + k - 1 = k * j + (k - 1)
      BY <1>1, <2>2
    <3>2. \A z \in Nat : k * z >= k * j <=> z >= j
      BY <1>1, MultipleOrder
    <3>3. q >= 0
      BY <1>1, <1>2, <1>3
    <3>4. j >= q
      BY <1>4, <2>2, <3>2
    <3>5. q \in Nat
      BY <3>3
    <3>6. q >= j
      BY <1>4, <2>2, <3>2, <3>5
    <3> QED BY <3>4, <3>6
  <2>4. Asked(a) = j + 1
    BY <1>5, <1>9, <2>3
  <2>5. \A z \in Nat : /\ k * z >= k * j <=> z >= j
                      /\ k * z > k * j <=> z >= j + 1
    BY <1>1, MultipleOrder
  <2>6. n * a < k * a
    BY <1>1, <2>1, MultipleLess
  <2>7. j < a
    <3>1. k * a > k * j
      BY <1>2, <2>2, <2>6
    <3> QED BY <3>1, <2>5
  <2> QED BY <2>2, <2>4, <2>5, <2>7, <1>1, <1>2
<1> QED BY <1>8, <1>9

\* A deck that has not grown needs no more of its cards.
LEMMA AskedGrows ==
  ASSUME NEW a \in Nat, NEW b \in Nat, a <= b
  PROVE  Asked(a) <= Asked(b)
<1>1. Asked(a) \in Int /\ Asked(b) \in Int
  BY AskedOf
<1>2. CASE a = b
  BY <1>1, <1>2
<1>3. CASE a < b
  <2>1. PICK k \in Nat \ {0}, n \in Nat \ {0} : k = UnlockDen /\ n = UnlockNum
    BY FractionAssumption
  <2>2. SUFFICES ASSUME ~(Asked(a) <= Asked(b)) PROVE FALSE
    OBVIOUS
  <2>3. CASE Asked(b) < 0
    <3>1. n * b \in Nat /\ (n * b + k - 1) \div k >= 0
      BY <2>1
    <3> QED BY <3>1, <2>1, <2>3 DEF Asked
  <2>4. CASE Asked(b) >= 0
    <3>1. PICK x \in Nat : x = Asked(b)
      BY <1>1, <2>4
    <3>2. k * x >= n * b
      <4>1. x >= Asked(b)
        BY <3>1, <1>1
      <4>2. UnlockDen * x >= UnlockNum * b
        BY <3>1, <4>1, AskedOf
      <4> QED BY <4>2, <2>1
    <3>3. n * b > n * a
      BY <1>3, <2>1, MultipleLess
    <3>4. k * x > n * a
      <4>1. k * x \in Nat /\ n * b \in Nat /\ n * a \in Nat
        BY <2>1
      <4> QED BY <3>2, <3>3, <4>1
    <3>5. x >= Asked(a)
      <4>1. UnlockDen * x > UnlockNum * a
        BY <2>1, <3>4
      <4> QED BY <3>1, <4>1, AskedOf
    <3> QED BY <3>1, <3>5, <1>1, <2>2
  <2> QED BY <1>1, <2>3, <2>4
<1> QED BY <1>2, <1>3

\* The size of a deck is a number.
LEMMA SizeIsNat ==
  ASSUME NEW r \in Releases, NEW d \in ToSet(r.decks)
  PROVE  Size(r, d) \in Nat
BY ReleaseAssumption DEF Size

\* A gate that was met stays met where nothing but words has gone, and where more has
\* been answered.
LEMMA GateStays ==
  ASSUME NEW q \in Releases, NEW r \in Releases, Starts(q), Starts(r), OnlyRemoves(q, r),
         seen \subseteq seen', IsFiniteSet(seen'),
         NEW d \in ToSet(r.decks), Met(q, DeckOf(q, d.id)), d.prerequisite # None
  PROVE  Cardinality({c \in seen' : c[1] = d.prerequisite}) >= Need(r, d.prerequisite)
<1> DEFINE p == d.prerequisite
<1>1. OnShelf(r, d.id) /\ DeckOf(r, d.id) = d /\ OnShelf(r, p)
  BY StartFacts
<1>2. d.id \in Ids /\ p \in Ids
  <2>1. \A e \in ToSet(r.decks) : e.id \in Ids
    BY ReleaseAssumption DEF Ids, ToSet
  <2> QED BY <1>1, <2>1 DEF OnShelf
<1>3. /\ DeckOf(q, d.id).prerequisite = p
      /\ OnShelf(q, p) /\ Size(r, DeckOf(r, p)) <= Size(q, DeckOf(q, p))
  BY <1>1, <1>2 DEF OnlyRemoves
<1>4. Coverage(q, p) >= Need(q, p)
  BY <1>3 DEF Met
<1>5. Size(r, DeckOf(r, p)) \in Nat /\ Size(q, DeckOf(q, p)) \in Nat
  BY <1>1, <1>3, DeckFacts, SizeIsNat
<1>6. Need(r, p) <= Need(q, p) /\ Need(r, p) \in Int /\ Need(q, p) \in Int
  BY <1>3, <1>5, AskedGrows, AskedOf DEF Need
<1>7. Coverage(q, p) <= Cardinality({c \in seen' : c[1] = p}) /\ Coverage(q, p) \in Nat
      /\ Cardinality({c \in seen' : c[1] = p}) \in Nat
  <2>1. IsFiniteSet({c \in seen' : c[1] = p})
    BY FS_Subset
  <2>2. {c \in seen : c[1] = p} \subseteq {c \in seen' : c[1] = p}
    OBVIOUS
  <2> QED BY <2>1, <2>2, FS_Subset, FS_CardinalityType DEF Coverage
<1> QED BY <1>4, <1>6, <1>7

-----------------------------------------------------------------------------
(* The invariant.                                                          *)

\* Types.
LEMMA CourseInitHolds == Init => CourseIInv
BY FractionAssumption, FS_EmptySet DEF Init, CourseIInv, TypeOK

\* A release changes nothing that was answered, and an answer only adds to it.
LEMMA CourseNextHolds ==
  ASSUME CourseIInv, [Next]_vars
  PROVE  CourseIInv' /\ seen \subseteq seen'
<1>1. CASE UNCHANGED vars
  BY <1>1 DEF vars, CourseIInv, TypeOK
<1>2. ASSUME NEW r \in Releases, Release(r)
      PROVE  CourseIInv' /\ seen \subseteq seen'
  BY <1>2, FractionAssumption DEF Release, CourseIInv, TypeOK
<1>3. ASSUME NEW id \in Ids, NEW i \in Pages[id], NEW a \in Replies \cup {None}, Grade(id, i, a)
      PROVE  CourseIInv' /\ seen \subseteq seen'
  <2>1. i \in Items
    <3>1. PICK r \in Releases : OnShelf(r, id) /\ i \in WordsOf(r, DeckOf(r, id))
      BY DEF Pages
    <3> QED BY <3>1, DeckFacts, WordsAreItems
  <2>2. /\ seen' = seen \cup {<<id, i>>} /\ UNCHANGED <<course, releases>>
        /\ given' = given \cup {<<id, i, b>> : b \in {a} \ {None}}
        /\ OnShelf(course, id) /\ a \in ToSet(DeckOf(course, id).answers) \cup {None}
    BY <1>3 DEF Grade
  <2>3. seen' \subseteq Ids \X Items /\ IsFiniteSet(seen')
    <3>1. IsFiniteSet(seen \cup {<<id, i>>})
      BY FS_AddElement DEF CourseIInv
    <3>2. seen \subseteq Ids \X Items /\ <<id, i>> \in Ids \X Items
      BY <2>1 DEF CourseIInv, TypeOK
    <3> QED BY <2>2, <3>1, <3>2
  <2>4. ASSUME NEW b \in given'
        PROVE  /\ <<b[1], b[2]>> \in seen'
               /\ \E r \in Releases : OnShelf(r, b[1]) /\ b[3] \in ToSet(DeckOf(r, b[1]).answers)
    <3>1. CASE b \in given
      BY <2>2, <3>1 DEF CourseIInv, TypeOK
    <3>2. CASE b = <<id, i, a>> /\ a # None
      <4>1. b[1] = id /\ b[2] = i /\ b[3] = a
        BY <3>2
      <4> QED BY <2>2, <3>2, <4>1 DEF CourseIInv, TypeOK
    <3> QED BY <2>2, <2>4, <3>1, <3>2
  <2> QED BY <2>2, <2>3, <2>4 DEF CourseIInv, TypeOK
<1> QED BY <1>1, <1>2, <1>3 DEF Next

\* The inductive invariant.
THEOREM CourseInvariance == Spec => []CourseIInv
BY CourseInitHolds, CourseNextHolds, PTL DEF Spec

\* The grid counts no answer about a word that the running release does not have, and
\* each answer where that release files its word, whatever was answered under the
\* releases before it (convert.go:140).
THEOREM GridIsTheDeckHolds == Spec => []GridIsTheDeck
<1>1. ASSUME CourseIInv PROVE GridIsTheDeck
  <2>1. course \in Releases /\ Starts(course) /\ TypeOK
    BY <1>1 DEF CourseIInv, TypeOK
  <2>2. ASSUME NEW d \in ToSet(course.decks),
               NEW wanted \in ToSet(d.answers), NEW col \in ToSet(d.answers),
               NEW i \in Cell(course, d, wanted, col)
        PROVE  \E w \in ToSet(Material(course, d)) : w.word = i /\ w.answer = wanted
    <3> DEFINE m == Material(course, d)
               rows == {k \in DOMAIN m : m[k].word = i}
               last == CHOOSE k \in rows : \A j \in rows : j <= k
    <3>1. Expected(course, d, i) = wanted
      BY DEF Cell
    <3>2. wanted # ""
      BY <2>1, StartFacts
    <3>3. rows # {} /\ wanted = m[last].answer
      BY <3>1, <3>2 DEF Expected
    <3>4. m \in Seq(Words)
      BY <2>1, ReleaseAssumption DEF Material
    <3>5. \E k \in rows : \A j \in rows : j <= k
      <4>1. rows \subseteq 1..Len(m) /\ Len(m) \in Nat
        BY <3>4
      <4> HIDE DEF rows
      <4> QED BY <3>3, <4>1, GreatestNumber
    <3>6. last \in rows
      BY <3>5
    <3>7. last \in DOMAIN m /\ m[last].word = i
      BY <3>6
    <3> QED BY <3>3, <3>7 DEF ToSet
  <2> QED BY <2>1, <2>2 DEF GridIsTheDeck
<1> QED BY <1>1, CourseInvariance, PTL

\* No release that only takes words away, or exchanges them, closes a gate that was
\* open, and no answer does (curriculumbus_test.go:199).
THEOREM RemovalsNeverLockHolds == Spec => RemovalsNeverLock
<1> DEFINE StaysOpen == OnlyRemoves(course, course') =>
             \A d \in ToSet(course'.decks) : Met(course, DeckOf(course, d.id)) => Met(course, d)'
<1>1. CourseIInv /\ [Next]_vars => [StaysOpen]_vars
  <2> SUFFICES ASSUME CourseIInv, [Next]_vars, OnlyRemoves(course, course'),
                      NEW d \in ToSet(course'.decks), Met(course, DeckOf(course, d.id))
               PROVE  Met(course, d)'
    OBVIOUS
  <2>1. CourseIInv' /\ seen \subseteq seen'
    BY CourseNextHolds
  <2>2. /\ course \in Releases /\ Starts(course) /\ IsFiniteSet(seen')
        /\ course' \in Releases /\ Starts(course')
    BY <2>1 DEF CourseIInv, TypeOK
  <2>3. CASE d.prerequisite = None
    BY <2>3 DEF Met
  <2>4. CASE d.prerequisite # None
    <3>1. Cardinality({c \in seen' : c[1] = d.prerequisite}) >= Need(course', d.prerequisite)
      BY <2>1, <2>2, <2>4, GateStays
    <3> QED BY <2>4, <3>1 DEF Met, Coverage, Need
  <2> QED BY <2>3, <2>4
<1> QED BY <1>1, CourseInvariance, PTL DEF Spec, RemovalsNeverLock

\* Rounding never lets anybody into a deck with less than the fraction of the deck
\* before seen, shuts out nobody who has seen more than the fraction - only, where the
\* product comes out above a whole number, who has seen exactly that - and nobody who
\* has seen as many items as there are, nor anyone behind an empty deck
\* (curriculumbus.go:120).
GateIsTheShare ==
  \A d \in ToSet(course.decks) : d.prerequisite # None =>
    LET size == Size(course, DeckOf(course, d.prerequisite))
        covered == Coverage(course, d.prerequisite)
    IN  /\ Met(course, d) => UnlockDen * covered >= UnlockNum * size
        /\ UnlockDen * covered > UnlockNum * size => Met(course, d)
        /\ covered >= size => Met(course, d)

\* The gate is the share, for any fraction up to one, decks of any size and however
\* the product is rounded at a whole number.
THEOREM GateIsTheShareHolds == Spec => []GateIsTheShare
<1>1. ASSUME CourseIInv PROVE GateIsTheShare
  <2>1. course \in Releases /\ Starts(course) /\ IsFiniteSet(seen)
    BY <1>1 DEF CourseIInv, TypeOK
  <2> SUFFICES ASSUME NEW d \in ToSet(course.decks), d.prerequisite # None,
                      NEW size, size = Size(course, DeckOf(course, d.prerequisite)),
                      NEW covered, covered = Coverage(course, d.prerequisite)
               PROVE  /\ Met(course, d) => UnlockDen * covered >= UnlockNum * size
                      /\ UnlockDen * covered > UnlockNum * size => Met(course, d)
                      /\ covered >= size => Met(course, d)
    BY DEF GateIsTheShare
  <2>2. size \in Nat
    <3>1. OnShelf(course, d.prerequisite)
      BY <2>1, StartFacts
    <3>2. DeckOf(course, d.prerequisite) \in ToSet(course.decks)
      BY <3>1, DeckFacts
    <3> QED BY <2>1, <3>2, SizeIsNat
  <2>3. covered \in Nat
    <3>1. IsFiniteSet({c \in seen : c[1] = d.prerequisite})
      BY <2>1, FS_Subset
    <3> QED BY <3>1, FS_CardinalityType DEF Coverage
  <2>4. Met(course, d) <=> covered >= Asked(size)
    BY DEF Met, Need
  <2>5. /\ covered >= Asked(size) => UnlockDen * covered >= UnlockNum * size
        /\ UnlockDen * covered > UnlockNum * size => covered >= Asked(size)
        /\ covered >= size => covered >= Asked(size)
    BY <2>2, <2>3, AskedOf
  <2> QED BY <2>4, <2>5
<1> QED BY <1>1, CourseInvariance, PTL

-----------------------------------------------------------------------------
(* Rounds: the inductive invariant, in parts.                              *)

\* A card that was answered well, and not yet a day ago, still has at least the rest
\* of that day to wait.
RestInv ==
  \A i \in Seen : row[i].state = "review" /\ row[i].age < Day => row[i].wait + row[i].age >= Day

\* A page of cards says nothing about later; an empty page, where no word is in the way,
\* names the time of the row that comes due first.
PromiseInv ==
  /\ page.cards # <<>> => page.back = Nothing
  /\ page.cards = <<>> /\ page.back # Nothing /\ Strays = {} =>
       /\ deck \subseteq Seen
       /\ page.back > 0 => /\ \A i \in Seen : row[i].wait >= page.back
                           /\ \E i \in Seen : row[i].wait = page.back
       /\ page.back <= 0 => \E i \in Seen : row[i].wait <= 0

\* The inductive invariant.
RoundsIInv == RoundsTypeOK /\ RestInv /\ PromiseInv

-----------------------------------------------------------------------------
(* Sets in order.                                                          *)

\* A sequence of SetToSeqs holds every member of a finite set, once.
LEMMA Orderings ==
  ASSUME NEW T, IsFiniteSet(T), NEW u \in SetToSeqs(T)
  PROVE  /\ u \in Seq(T) /\ DOMAIN u = 1..Len(u) /\ Len(u) = Cardinality(T) /\ Len(u) \in Nat
         /\ \A i \in 1..Len(u) : u[i] \in T
         /\ \A i, j \in 1..Len(u) : u[i] = u[j] => i = j
         /\ \A x \in T : \E i \in 1..Len(u) : u[i] = x
<1> DEFINE D == 1..Cardinality(T)
<1>1. u \in [D -> T] /\ \A i, j \in D : i # j => u[i] # u[j]
  BY DEF SetToSeqs
<1>2. Cardinality(T) \in Nat
  BY FS_CardinalityType
<1>3. u \in Seq(T) /\ Len(u) = Cardinality(T) /\ DOMAIN u = D
  BY <1>1, <1>2
<1>4. u \in Injection(D, T)
  BY <1>1 DEF Injection, IsInjective
<1>5. Cardinality(D) = Cardinality(T)
  BY <1>2, FS_Interval
<1>6. IsFiniteSet(D)
  BY <1>2, FS_Interval
<1>7. u \in Surjection(D, T)
  BY <1>4, <1>5, <1>6, FS_Injection
<1>8. \A x \in T : \E i \in D : u[i] = x
  BY <1>7 DEF Surjection
<1> QED BY <1>1, <1>2, <1>3, <1>8

\* What orders a set orders it with one more member at the end.
LEMMA OrderExtends ==
  ASSUME NEW T, IsFiniteSet(T), NEW x, x \notin T, NEW u \in SetToSeqs(T)
  PROVE  \E v \in SetToSeqs(T \cup {x}) :
           /\ Len(v) = Len(u) + 1 /\ v[Len(v)] = x
           /\ \A i \in 1..Len(u) : v[i] = u[i]
<1>1. /\ u \in Seq(T) /\ DOMAIN u = 1..Len(u) /\ Len(u) = Cardinality(T) /\ Len(u) \in Nat
      /\ \A i \in 1..Len(u) : u[i] \in T
      /\ \A i, j \in 1..Len(u) : u[i] = u[j] => i = j
  BY Orderings
<1>2. Cardinality(T \cup {x}) = Len(u) + 1
  BY <1>1, FS_AddElement
<1>3. PICK v : v = [i \in 1..Len(u) + 1 |-> IF i = Len(u) + 1 THEN x ELSE u[i]]
  OBVIOUS
<1>4. v \in [1..Len(u) + 1 -> T \cup {x}]
  BY <1>1, <1>3
<1>5. v[Len(u) + 1] = x /\ \A i \in 1..Len(u) : v[i] = u[i]
  BY <1>1, <1>3
<1>6. \A i, j \in 1..Len(u) + 1 : i # j => v[i] # v[j]
  <2> TAKE i, j \in 1..Len(u) + 1
  <2>1. i \in 1..Len(u) \/ i = Len(u) + 1
    BY <1>1
  <2>2. j \in 1..Len(u) \/ j = Len(u) + 1
    BY <1>1
  <2> QED BY <2>1, <2>2, <1>1, <1>5
<1>7. v \in SetToSeqs(T \cup {x})
  BY <1>2, <1>4, <1>6 DEF SetToSeqs
<1>8. Len(v) = Len(u) + 1
  BY <1>1, <1>4
<1> QED BY <1>5, <1>7, <1>8

\* What u has in common with s is in the order of s.
Follows(u, s) ==
  \A m, n \in DOMAIN u : \A j, k \in DOMAIN s : m < n /\ u[m] = s[j] /\ u[n] = s[k] => j < k

\* InOrderOf is defined: members of a sequence without repetitions can be put in its
\* order. Step <1>3 adds the last of n places; the least place at which that fails
\* does not exist.
LEMMA OrderExists ==
  ASSUME NEW S, NEW s \in Seq(S), IsInjective(s), NEW T, T \subseteq ToSet(s)
  PROVE  /\ IsFiniteSet(T)
         /\ InOrderOf(T, s) \in SetToSeqs(T)
         /\ Follows(InOrderOf(T, s), s)
<1> DEFINE Prefix(n) == {s[j] : j \in 1..n}
           Good(n) == \A U : U \subseteq Prefix(n) =>
                        IsFiniteSet(U) /\ \E u \in SetToSeqs(U) : Follows(u, s)
           Bad == {n \in 0..Len(s) : ~Good(n)}
<1>1. Len(s) \in Nat /\ DOMAIN s = 1..Len(s)
  OBVIOUS
<1>2. Good(0)
  <2> SUFFICES ASSUME NEW U, U \subseteq Prefix(0)
               PROVE  IsFiniteSet(U) /\ \E u \in SetToSeqs(U) : Follows(u, s)
    OBVIOUS
  <2>1. U = {}
    OBVIOUS
  <2>2. IsFiniteSet({}) /\ Cardinality({}) = 0
    BY FS_EmptySet
  <2>3. PICK e : e = <<>>
    OBVIOUS
  <2>4. DOMAIN e = {} /\ e \in [1..0 -> {}]
    BY <2>3
  <2>5. e \in SetToSeqs({})
    BY <2>2, <2>4 DEF SetToSeqs
  <2>6. Follows(e, s)
    BY <2>4 DEF Follows
  <2> QED BY <2>1, <2>2, <2>5, <2>6
<1>3. ASSUME NEW n \in 1..Len(s), Good(n - 1) PROVE Good(n)
  <2> HIDE DEF Bad
  <2> SUFFICES ASSUME NEW U, U \subseteq Prefix(n)
               PROVE  IsFiniteSet(U) /\ \E u \in SetToSeqs(U) : Follows(u, s)
    OBVIOUS
  <2>1. PICK x : x = s[n]
    OBVIOUS
  <2>2. U \ {x} \subseteq Prefix(n - 1)
    <3>1. ASSUME NEW y \in U \ {x} PROVE y \in Prefix(n - 1)
      <4>1. PICK j \in 1..n : y = s[j]
        OBVIOUS
      <4>2. j # n
        BY <4>1, <2>1
      <4>3. j \in 1..(n - 1)
        BY <4>1, <4>2, <1>1
      <4> QED BY <4>1, <4>3
    <3> QED BY <3>1
  <2>3. IsFiniteSet(U \ {x})
    BY <2>2, <1>3
  <2>4. PICK u \in SetToSeqs(U \ {x}) : Follows(u, s)
    BY <2>2, <1>3
  <2>5. CASE x \notin U
    <3>1. U \ {x} = U
      BY <2>5
    <3> QED BY <3>1, <2>3, <2>4
  <2>6. CASE x \in U
    <3>0. PICK R : R = U \ {x}
      OBVIOUS
    <3>1. R \cup {x} = U /\ x \notin R /\ IsFiniteSet(R) /\ u \in SetToSeqs(R)
      BY <3>0, <2>3, <2>6
    <3>2. IsFiniteSet(R \cup {x})
      BY <3>1, FS_AddElement
    <3>7. IsFiniteSet(U)
      BY <3>1, <3>2
    <3>8. PICK v \in SetToSeqs(R \cup {x}) :
            /\ Len(v) = Len(u) + 1 /\ v[Len(v)] = x
            /\ \A i \in 1..Len(u) : v[i] = u[i]
      BY <3>1, OrderExtends
    <3>3. /\ v \in SetToSeqs(U)
          /\ Len(v) = Len(u) + 1 /\ v[Len(v)] = x
          /\ \A i \in 1..Len(u) : v[i] = u[i]
      BY <3>1, <3>8
    <3>4. /\ DOMAIN u = 1..Len(u) /\ Len(u) \in Nat
          /\ \A i \in 1..Len(u) : u[i] \in U \ {x}
      BY <2>3, Orderings
    <3>5. DOMAIN v = 1..Len(v)
      BY <3>3, <3>7, Orderings
    <3>6. Follows(v, s)
      <4> SUFFICES ASSUME NEW p \in DOMAIN v, NEW q \in DOMAIN v, NEW j \in DOMAIN s, NEW k \in DOMAIN s,
                          p < q, v[p] = s[j], v[q] = s[k]
                   PROVE  j < k
        BY DEF Follows
      <4>1. p \in 1..Len(u) /\ (q \in 1..Len(u) \/ q = Len(v))
        BY <3>3, <3>4, <3>5
      <4>2. CASE q \in 1..Len(u)
        BY <4>1, <4>2, <3>3, <3>4, <2>4 DEF Follows
      <4>3. CASE q = Len(v)
        <5>1. s[k] = s[n]
          BY <4>3, <3>3, <2>1
        <5>2. k = n
          BY <5>1, <1>1 DEF IsInjective
        <5>3. v[p] \in Prefix(n - 1)
          BY <4>1, <3>3, <3>4, <2>2
        <5>4. PICK i \in 1..(n - 1) : v[p] = s[i]
          BY <5>3
        <5>5. i \in DOMAIN s /\ s[i] = s[j]
          BY <5>4, <1>1
        <5>6. i = j
          BY <5>5 DEF IsInjective
        <5> QED BY <5>2, <5>4, <5>6, <1>1
      <4> QED BY <4>1, <4>2, <4>3
    <3> QED BY <3>3, <3>6, <3>7
  <2> QED BY <2>5, <2>6
<1>4. Good(Len(s))
  <2> HIDE DEF Good
  <2> SUFFICES ASSUME ~Good(Len(s)) PROVE FALSE
    OBVIOUS
  <2>1. Bad \subseteq Nat /\ Bad # {}
    BY <1>1
  <2>2. PICK n \in Bad : \A m \in Bad : n <= m
    BY <2>1, LeastNumber
  <2>3. n # 0 /\ n \in 0..Len(s)
    BY <1>2, <2>2
  <2>4. n - 1 \in 0..Len(s) /\ n \in 1..Len(s) /\ ~(n <= n - 1)
    BY <1>1, <2>3
  <2>5. Good(n - 1)
    BY <2>2, <2>4
  <2>6. Good(n)
    BY <2>4, <2>5, <1>3
  <2> QED BY <2>2, <2>6
<1>5. T \subseteq Prefix(Len(s))
  BY <1>1 DEF ToSet
<1>6. IsFiniteSet(T) /\ \E u \in SetToSeqs(T) : Follows(u, s)
  BY <1>4, <1>5
<1>7. InOrderOf(T, s) = CHOOSE u \in SetToSeqs(T) : Follows(u, s)
  BY DEF InOrderOf, Follows
<1> QED BY <1>6, <1>7

\* The deck is finite, and each word is in it once.
LEMMA CardsAreFinite ==
  /\ IsFiniteSet(Cards) /\ IsInjective(Deck) /\ Deck \in Seq(Cards) /\ Cards = ToSet(Deck)
  /\ Cardinality(Cards) = Len(Deck) /\ Len(Deck) \in Nat
<1>1. Deck \in Seq(Cards) /\ Len(Deck) \in Nat /\ DOMAIN Deck = 1..Len(Deck)
  BY DeckAssumption
<1>2. Deck \in [1..Len(Deck) -> Cards] /\ \A x \in Cards : \E i \in 1..Len(Deck) : Deck[i] = x
  BY <1>1 DEF Cards, ToSet
<1>3. Deck \in Surjection(1..Len(Deck), Cards)
  BY <1>2 DEF Surjection
<1>4. IsFiniteSet(1..Len(Deck)) /\ Cardinality(1..Len(Deck)) = Len(Deck)
  BY <1>1, FS_Interval
<1>5. IsFiniteSet(Cards) /\ Deck \in Injection(1..Len(Deck), Cards)
  BY <1>3, <1>4, DeckAssumption, FS_Surjection
<1> QED BY <1>1, <1>5, DeckAssumption DEF Injection, Cards

\* UpTo is a prefix.
LEMMA UpToFacts ==
  ASSUME NEW S, NEW s \in Seq(S), NEW n \in Nat
  PROVE  /\ UpTo(s, n) \in Seq(S)
         /\ Len(UpTo(s, n)) = IF Len(s) < n THEN Len(s) ELSE n
         /\ \A i \in 1..Len(UpTo(s, n)) : i \in 1..Len(s) /\ UpTo(s, n)[i] = s[i]
<1>1. PICK k \in Nat : k = IF Len(s) < n THEN Len(s) ELSE n
  OBVIOUS
<1>2. UpTo(s, n) = SubSeq(s, 1, k)
  BY <1>1 DEF UpTo
<1>3. k <= Len(s) /\ Len(s) \in Nat
  BY <1>1
<1>4. \A i \in 1..k : s[i] \in S
  BY <1>3
<1>5. /\ SubSeq(s, 1, k) \in Seq(S)
      /\ Len(SubSeq(s, 1, k)) = IF 1 <= k THEN k - 1 + 1 ELSE 0
      /\ \A i \in 1..(k - 1 + 1) : SubSeq(s, 1, k)[i] = s[1 + i - 1]
  BY <1>4, SubSeqProperties
<1>6. Len(SubSeq(s, 1, k)) = k
  BY <1>5
<1>7. \A i \in 1..k : i \in 1..Len(s) /\ SubSeq(s, 1, k)[i] = s[i]
  BY <1>3, <1>5
<1> QED BY <1>1, <1>2, <1>5, <1>6, <1>7

\* What Batch takes of the due rows and of the words without one.
Reviews(s) == UpTo(s, Limit)
FewerNew(room) == IF room < MaxNewPerBatch THEN room ELSE MaxNewPerBatch

-----------------------------------------------------------------------------
(* A batch.                                                                *)

\* A batch is a prefix of the due rows, soonest first, and a prefix of the words without
\* a row.
LEMMA BatchParts ==
  ASSUME RoundsTypeOK, NEW b \in Batches
  PROVE  \E s \in SoonestFirst({i \in Cards : Due(i)}), n \in Seq(Cards), u \in SetToSeqs(deck \ Seen) :
           /\ Reviews(s) \in Seq(Cards) /\ Len(Reviews(s)) <= Limit
           /\ n = UpTo(u, FewerNew(Limit - Len(Reviews(s))))
           /\ b = Reviews(s) \o n
<1>1. PICK s \in SoonestFirst({i \in Cards : Due(i)}) :
        b = UpTo(s, Limit) \o Unseen(Limit - Len(UpTo(s, Limit)))
  BY DEF Batches
<1>2. IsFiniteSet({i \in Cards : Due(i)})
  BY CardsAreFinite, FS_Subset
<1>3. s \in SetToSeqs({i \in Cards : Due(i)})
  BY DEF SoonestFirst
<1>4. s \in Seq({i \in Cards : Due(i)})
  BY <1>2, <1>3, Orderings
<1>5. s \in Seq(Cards) /\ Limit \in Nat /\ MaxNewPerBatch \in Nat
  BY <1>4, PolicyAssumption
<1>6. Reviews(s) \in Seq(Cards) /\ Len(Reviews(s)) = IF Len(s) < Limit THEN Len(s) ELSE Limit
  BY <1>5, UpToFacts DEF Reviews
<1>7. Len(Reviews(s)) <= Limit /\ Limit - Len(Reviews(s)) \in Nat
  BY <1>5, <1>6
<1>8. deck \ Seen \subseteq ToSet(Deck)
  BY CardsAreFinite DEF RoundsTypeOK
<1>9. IsFiniteSet(deck \ Seen) /\ InOrderOf(deck \ Seen, Deck) \in SetToSeqs(deck \ Seen)
  BY <1>8, CardsAreFinite, OrderExists
<1>10. PICK u \in SetToSeqs(deck \ Seen) : u = InOrderOf(deck \ Seen, Deck)
  BY <1>9
<1>11. u \in Seq(deck \ Seen)
  BY <1>9, <1>10, Orderings
<1>12. u \in Seq(Cards)
  BY <1>11 DEF RoundsTypeOK
<1>13. PICK r \in Nat : r = FewerNew(Limit - Len(Reviews(s)))
  BY <1>5, <1>7 DEF FewerNew
<1>14. UpTo(u, r) \in Seq(Cards)
  BY <1>12, UpToFacts
<1>15. Unseen(Limit - Len(Reviews(s))) = UpTo(u, r)
  BY <1>10, <1>13 DEF Unseen, FewerNew
<1>16. b = Reviews(s) \o UpTo(u, r)
  BY <1>1, <1>15 DEF Reviews
<1> QED BY <1>6, <1>7, <1>10, <1>13, <1>14, <1>16

\* What a batch has, and what it leaves out: reviews for reviews that came due no
\* later, new words for reviews that fill the batch or for new words before them.
LEMMA BatchFacts ==
  ASSUME RoundsTypeOK, NEW b \in Batches
  PROVE  /\ b \in Seq(Cards) /\ Len(b) <= Limit /\ IsInjective(b)
         /\ \A i \in ToSet(b) : Due(i) \/ i \in deck \ Seen
         /\ \A i \in Cards \ ToSet(b) : Due(i) =>
              Len(b) = Limit /\ \A j \in ToSet(b) : Due(j) /\ row[j].wait <= row[i].wait
         /\ \A i \in (deck \ Seen) \ ToSet(b) :
              \/ Len(b) = Limit /\ \A j \in ToSet(b) : Due(j)
              \/ \E j \in ToSet(b) : j \in deck \ Seen
<1> DEFINE D == {i \in Cards : Due(i)}
<1>1. PICK s \in SoonestFirst(D), n \in Seq(Cards), u \in SetToSeqs(deck \ Seen) :
        /\ Reviews(s) \in Seq(Cards) /\ Len(Reviews(s)) <= Limit
        /\ n = UpTo(u, FewerNew(Limit - Len(Reviews(s))))
        /\ b = Reviews(s) \o n
  BY BatchParts
<1>2. IsFiniteSet(D) /\ IsFiniteSet(deck \ Seen) /\ deck \subseteq Cards
  <2>1. deck \subseteq Cards
    BY DEF RoundsTypeOK
  <2> QED BY <2>1, CardsAreFinite, FS_Subset
<1>3. s \in SetToSeqs(D) /\ \A p, q \in DOMAIN s : p < q => row[s[p]].wait <= row[s[q]].wait
  BY DEF SoonestFirst
<1>4. /\ s \in Seq(D) /\ DOMAIN s = 1..Len(s) /\ Len(s) \in Nat
      /\ \A i \in 1..Len(s) : s[i] \in D
      /\ \A i, j \in 1..Len(s) : s[i] = s[j] => i = j
      /\ \A x \in D : \E i \in 1..Len(s) : s[i] = x
  BY <1>2, <1>3, Orderings
<1>5. /\ u \in Seq(deck \ Seen) /\ DOMAIN u = 1..Len(u) /\ Len(u) \in Nat
      /\ \A i \in 1..Len(u) : u[i] \in deck \ Seen
      /\ \A i, j \in 1..Len(u) : u[i] = u[j] => i = j
      /\ \A x \in deck \ Seen : \E i \in 1..Len(u) : u[i] = x
  BY <1>1, <1>2, Orderings
<1>6. Limit \in Nat \ {0} /\ MaxNewPerBatch \in Nat \ {0}
  BY PolicyAssumption
<1>7. PICK r \in Seq(Cards) : r = Reviews(s)
  BY <1>1
<1>8. /\ Len(r) = IF Len(s) < Limit THEN Len(s) ELSE Limit
      /\ \A i \in 1..Len(r) : i \in 1..Len(s) /\ r[i] = s[i]
  BY <1>4, <1>6, <1>7, UpToFacts DEF Reviews
<1>9. PICK room \in Nat : room = Limit - Len(r)
  <2>1. Len(r) \in Nat /\ Len(r) <= Limit
    BY <1>1, <1>7
  <2> QED BY <2>1, <1>6
<1>10. PICK few \in Nat : few = FewerNew(room) /\ (few = 0 <=> room = 0) /\ few <= room
  <2>1. CASE room < MaxNewPerBatch
    BY <2>1, <1>6, <1>9 DEF FewerNew
  <2>2. CASE ~(room < MaxNewPerBatch)
    <3>1. FewerNew(room) = MaxNewPerBatch
      BY <2>2 DEF FewerNew
    <3>2. MaxNewPerBatch # 0 /\ room # 0 /\ MaxNewPerBatch <= room /\ MaxNewPerBatch \in Nat
      BY <2>2, <1>6, <1>9
    <3> QED BY <3>1, <3>2
  <2> QED BY <2>1, <2>2
<1>11. n = UpTo(u, few)
  BY <1>1, <1>7, <1>9, <1>10
<1>12. /\ Len(n) = IF Len(u) < few THEN Len(u) ELSE few
       /\ \A i \in 1..Len(n) : i \in 1..Len(u) /\ n[i] = u[i]
  BY <1>5, <1>11, UpToFacts
<1>13. /\ Len(r) \in Nat /\ Len(n) \in Nat /\ b = r \o n /\ b \in Seq(Cards)
       /\ Len(b) = Len(r) + Len(n) /\ DOMAIN b = 1..Len(b)
       /\ \A i \in 1..Len(r) : b[i] = r[i]
       /\ \A i \in 1..Len(n) : b[Len(r) + i] = n[i]
  <2>1. b = r \o n /\ r \in Seq(Cards) /\ n \in Seq(Cards)
    BY <1>1, <1>7
  <2>2. Len(r) \in Nat /\ Len(n) \in Nat /\ b \in Seq(Cards)
    BY <2>1
  <2>3. Len(b) = Len(r) + Len(n)
    BY <2>1, <2>2
  <2>4. \A i \in 1..Len(b) : b[i] = IF i <= Len(r) THEN r[i] ELSE n[i - Len(r)]
    BY <2>1, <2>2, <2>3
  <2>5. \A i \in 1..Len(r) : b[i] = r[i]
    BY <2>2, <2>3, <2>4
  <2>6. \A i \in 1..Len(n) : b[Len(r) + i] = n[i]
    <3> TAKE i \in 1..Len(n)
    <3>1. Len(r) + i \in 1..Len(b) /\ ~(Len(r) + i <= Len(r)) /\ Len(r) + i - Len(r) = i
      BY <2>2, <2>3
    <3> QED BY <3>1, <2>4
  <2> QED BY <2>1, <2>2, <2>3, <2>5, <2>6
<1>14. Len(b) <= Limit /\ Len(r) + room = Limit
  BY <1>1, <1>6, <1>7, <1>9, <1>10, <1>12, <1>13
<1>15. \A k \in 1..Len(b) : \/ k \in 1..Len(r) /\ b[k] = s[k] /\ k \in 1..Len(s)
                            \/ \E i \in 1..Len(n) : k = Len(r) + i /\ b[k] = u[i] /\ i \in 1..Len(u)
  <2> TAKE k \in 1..Len(b)
  <2>1. CASE k <= Len(r)
    BY <2>1, <1>8, <1>13
  <2>2. CASE k > Len(r)
    <3>1. PICK i \in 1..Len(n) : i = k - Len(r)
      BY <2>2, <1>13
    <3>2. k = Len(r) + i
      BY <3>1, <1>13
    <3> QED BY <3>1, <3>2, <1>12, <1>13
  <2> QED BY <2>1, <2>2, <1>13
<1>16. \A i \in D : i \in Seen /\ i \notin deck \ Seen
  BY DEF Due
<1>17. IsInjective(b)
  <2> SUFFICES ASSUME NEW k \in 1..Len(b), NEW l \in 1..Len(b), b[k] = b[l] PROVE k = l
    BY <1>13 DEF IsInjective
  <2>1. CASE k \in 1..Len(r) /\ b[k] = s[k] /\ k \in 1..Len(s)
    <3>1. b[l] \notin deck \ Seen
      BY <2>1, <1>4, <1>16
    <3>2. l \in 1..Len(r) /\ b[l] = s[l] /\ l \in 1..Len(s)
      BY <3>1, <1>5, <1>15
    <3> QED BY <2>1, <3>2, <1>4
  <2>2. CASE \E i \in 1..Len(n) : k = Len(r) + i /\ b[k] = u[i] /\ i \in 1..Len(u)
    <3>1. PICK i \in 1..Len(n) : k = Len(r) + i /\ b[k] = u[i] /\ i \in 1..Len(u)
      BY <2>2
    <3>2. b[l] \notin D
      BY <3>1, <1>5, <1>16
    <3>3. PICK j \in 1..Len(n) : l = Len(r) + j /\ b[l] = u[j] /\ j \in 1..Len(u)
      BY <3>2, <1>4, <1>15
    <3> QED BY <3>1, <3>3, <1>5
  <2> QED BY <2>1, <2>2, <1>15
<1>18. \A i \in ToSet(b) : \E k \in 1..Len(b) : i = b[k]
  BY <1>13 DEF ToSet
<1>19. \A i \in ToSet(b) : Due(i) \/ i \in deck \ Seen
  <2> TAKE i \in ToSet(b)
  <2>1. PICK k \in 1..Len(b) : i = b[k]
    BY <1>18
  <2>2. CASE k \in 1..Len(r) /\ b[k] = s[k] /\ k \in 1..Len(s)
    BY <2>1, <2>2, <1>4
  <2>3. CASE \E j \in 1..Len(n) : k = Len(r) + j /\ b[k] = u[j] /\ j \in 1..Len(u)
    BY <2>1, <2>3, <1>5
  <2> QED BY <2>2, <2>3, <1>15
<1>20. ASSUME Len(r) = Limit PROVE Len(b) = Limit /\ \A j \in ToSet(b) : \E k \in 1..Limit : k \in 1..Len(s) /\ j = s[k]
  <2>1. room = 0
    BY <1>20, <1>9, <1>6
  <2>2. Len(n) = 0
    BY <2>1, <1>10, <1>12, <1>5
  <2>3. Len(b) = Limit
    BY <2>2, <1>13, <1>20, <1>6
  <2> QED BY <2>2, <2>3, <1>15, <1>18, <1>20
<1>21. ASSUME NEW i \in Cards \ ToSet(b), Due(i)
       PROVE  Len(b) = Limit /\ \A j \in ToSet(b) : Due(j) /\ row[j].wait <= row[i].wait
  <2>1. PICK k \in 1..Len(s) : s[k] = i
    BY <1>21, <1>4
  <2>2. k \notin 1..Len(r)
    <3> SUFFICES ASSUME k \in 1..Len(r) PROVE FALSE
      OBVIOUS
    <3>1. b[k] = i /\ k \in DOMAIN b
      BY <2>1, <1>8, <1>13
    <3> QED BY <3>1, <1>21 DEF ToSet
  <2>3. Len(r) = Limit /\ k > Limit
    <3>1. CASE Len(s) < Limit
      BY <3>1, <2>2, <1>8
    <3>2. CASE ~(Len(s) < Limit)
      BY <3>2, <2>2, <1>4, <1>6, <1>8
    <3> QED BY <3>1, <3>2
  <2>4. ASSUME NEW j \in ToSet(b) PROVE Due(j) /\ row[j].wait <= row[i].wait
    <3>1. PICK l \in 1..Limit : l \in 1..Len(s) /\ j = s[l]
      BY <2>3, <1>20
    <3>2. l < k
      BY <2>3, <3>1, <1>4, <1>6
    <3> QED BY <3>1, <3>2, <2>1, <1>3, <1>4
  <2> QED BY <2>3, <2>4, <1>20
<1>22. ASSUME NEW i \in (deck \ Seen) \ ToSet(b)
       PROVE  \/ Len(b) = Limit /\ \A j \in ToSet(b) : Due(j)
              \/ \E j \in ToSet(b) : j \in deck \ Seen
  <2>1. CASE room = 0
    <3>1. Len(r) = Limit
      BY <2>1, <1>14, <1>6, <1>13
    <3> QED BY <3>1, <1>4, <1>20
  <2>2. CASE room # 0
    <3>1. 1 \in 1..Len(u)
      BY <1>5
    <3>2. 1 \in 1..Len(n)
      BY <2>2, <3>1, <1>5, <1>10, <1>12
    <3>3. b[Len(r) + 1] = u[1] /\ u[1] \in deck \ Seen
      BY <3>1, <3>2, <1>5, <1>12, <1>13
    <3>4. Len(r) + 1 \in DOMAIN b
      BY <3>2, <1>13
    <3> QED BY <3>3, <3>4 DEF ToSet
  <2> QED BY <2>1, <2>2
<1> QED BY <1>13, <1>14, <1>17, <1>19, <1>21, <1>22

-----------------------------------------------------------------------------
(* What is shown, and when to come back.                                   *)

\* The times of a row are numbers within their bounds.
LEMMA RowFacts ==
  ASSUME RoundsTypeOK
  PROVE  \E m \in Nat :
           /\ m = Day * MaximumInterval /\ m > 0
           /\ Seen \subseteq Cards /\ Nothing \notin Int
           /\ \A i \in Seen : /\ row[i] \in Rows
                              /\ row[i].wait \in -Len(Deck)..m /\ row[i].age \in 0..Day
<1>1. Day \in Nat /\ Day > 1 /\ MaximumInterval \in Nat /\ MaximumInterval > 0 /\ Nothing \notin Int
  BY PolicyAssumption
<1>2. Day * MaximumInterval \in Nat /\ Day * MaximumInterval > 0
  BY <1>1
<1>3. PICK m \in Nat : m = Day * MaximumInterval /\ m > 0
  BY <1>2
<1>4. ASSUME NEW i \in Seen
      PROVE  row[i] \in Rows /\ row[i].wait \in -Len(Deck)..m /\ row[i].age \in 0..Day
  <2>1. row[i] \in Rows
    BY DEF Seen, RoundsTypeOK
  <2> QED BY <2>1, <1>3 DEF Rows
<1>5. Seen \subseteq Cards
  BY DEF Seen
<1> QED BY <1>1, <1>3, <1>4, <1>5

\* handleBatch shows the cards of the batch that the deck has, at most Limit.
LEMMA ShownFacts ==
  ASSUME RoundsTypeOK, NEW b \in Batches
  PROVE  /\ Shown(b) \in Seq(Cards) /\ Len(Shown(b)) <= Limit
         /\ Shown(b) = <<>> <=> ToSet(b) \cap deck = {}
<1>1. b \in Seq(Cards) /\ Len(b) <= Limit /\ IsInjective(b) /\ Len(b) \in Nat /\ Limit \in Nat
  BY BatchFacts, PolicyAssumption
<1>2. PICK T : T = ToSet(b) \cap deck
  OBVIOUS
<1>3. T \subseteq ToSet(b) /\ T \subseteq Cards
  BY <1>2 DEF RoundsTypeOK
<1>4. IsFiniteSet(T) /\ InOrderOf(T, b) \in SetToSeqs(T)
  BY <1>1, <1>3, OrderExists
<1>5. PICK u \in SetToSeqs(T) : u = Shown(b)
  BY <1>2, <1>4 DEF Shown
<1>6. /\ u \in Seq(T) /\ Len(u) = Cardinality(T)
      /\ \A x \in T : \E i \in 1..Len(u) : u[i] = x
      /\ \A i \in 1..Len(u) : u[i] \in T
  BY <1>4, Orderings
<1>7. u \in Seq(Cards)
  BY <1>3, <1>6
<1>8. Cardinality(T) <= Len(b)
  <2>1. b \in [1..Len(b) -> ToSet(b)] /\ \A x \in ToSet(b) : \E i \in 1..Len(b) : b[i] = x
    BY <1>1 DEF ToSet
  <2>2. b \in Surjection(1..Len(b), ToSet(b))
    BY <2>1 DEF Surjection
  <2>3. IsFiniteSet(1..Len(b)) /\ Cardinality(1..Len(b)) = Len(b)
    <3>1. Len(b) \in Nat /\ 1 \in Int /\ Len(b) \in Int
      BY <1>1
    <3>2. IsFiniteSet(1..Len(b)) /\ Cardinality(1..Len(b)) = IF 1 > Len(b) THEN 0 ELSE Len(b) - 1 + 1
      BY <3>1, FS_Interval
    <3> QED BY <3>1, <3>2
  <2>4. IsFiniteSet(ToSet(b)) /\ Cardinality(ToSet(b)) <= Len(b)
    BY <2>2, <2>3, FS_Surjection
  <2>5. Cardinality(T) <= Cardinality(ToSet(b))
    BY <1>3, <2>4, FS_Subset
  <2>6. Cardinality(T) \in Nat /\ Cardinality(ToSet(b)) \in Nat
    BY <1>4, <2>4, FS_CardinalityType
  <2> QED BY <1>1, <2>4, <2>5, <2>6
<1>9. Len(u) <= Limit
  <2>1. Cardinality(T) \in Nat
    BY <1>4, FS_CardinalityType
  <2> QED BY <1>1, <1>6, <1>8, <2>1
<1>10. u = <<>> <=> T = {}
  <2>1. CASE u = <<>>
    <3>1. Len(u) = 0
      BY <2>1
    <3> QED BY <1>6, <2>1, <3>1
  <2>2. CASE u # <<>>
    <3>1. 1 \in 1..Len(u)
      BY <1>6, <2>2
    <3> QED BY <1>6, <2>2, <3>1
  <2> QED BY <2>1, <2>2
<1> QED BY <1>2, <1>5, <1>7, <1>9, <1>10

\* A full batch of due rows, none of which the deck has, is the clogged case.
LEMMA FullOfStrays ==
  ASSUME RoundsTypeOK, NEW b \in Batches, Len(b) = Limit,
         \A j \in ToSet(b) : Due(j) /\ j \notin deck
  PROVE  Clogged
<1>1. b \in Seq(Cards) /\ IsInjective(b) /\ Limit \in Nat /\ DOMAIN b = 1..Limit
  BY BatchFacts, PolicyAssumption
<1> DEFINE X == {i \in Strays : Due(i)}
<1>2. \A k \in 1..Limit : b[k] \in X
  <2> TAKE k \in 1..Limit
  <2>1. b[k] \in ToSet(b)
    BY <1>1 DEF ToSet
  <2>2. Due(b[k]) /\ b[k] \notin deck
    BY <2>1
  <2> QED BY <2>2 DEF Due, Strays
<1>3. b \in Injection(1..Limit, X)
  BY <1>1, <1>2 DEF Injection
<1>4. IsFiniteSet(X)
  <2>1. X \subseteq Cards
    BY DEF Strays, Seen
  <2> QED BY <2>1, CardsAreFinite, FS_Subset
<1>5. Cardinality(1..Limit) = Limit
  BY <1>1, FS_Interval
<1>6. Cardinality(1..Limit) <= Cardinality(X)
  BY <1>3, <1>4, FS_Injection
<1>7. Cardinality(X) \in Nat
  BY <1>4, FS_CardinalityType
<1> QED BY <1>1, <1>5, <1>6, <1>7 DEF Clogged

\* Nothing is shown: nothing in the deck is new or due, or due rows of dropped words
\* fill the batch.
LEMMA EmptyIsDone ==
  ASSUME RoundsTypeOK, NEW b \in Batches, Shown(b) = <<>>, ~Clogged, NEW i \in deck
  PROVE  i \in Seen /\ ~Due(i)
<1>1. ToSet(b) \cap deck = {}
  BY ShownFacts
<1>2. i \notin ToSet(b) /\ i \in Cards
  BY <1>1 DEF RoundsTypeOK
<1>3. ~(Len(b) = Limit /\ \A j \in ToSet(b) : Due(j))
  BY <1>1, FullOfStrays
<1>4. i \in Seen
  <2> SUFFICES ASSUME i \notin Seen PROVE FALSE
    OBVIOUS
  <2>1. i \in (deck \ Seen) \ ToSet(b)
    BY <1>2
  <2>2. \E j \in ToSet(b) : j \in deck \ Seen
    BY <2>1, <1>3, BatchFacts
  <2> QED BY <2>2, <1>1
<1>5. ~Due(i)
  <2> SUFFICES ASSUME Due(i) PROVE FALSE
    OBVIOUS
  <2>1. Len(b) = Limit /\ \A j \in ToSet(b) : Due(j)
    BY <1>2, BatchFacts
  <2> QED BY <2>1, <1>3
<1> QED BY <1>4, <1>5

\* Without dropped words a batch is not clogged: Limit is not 0.
LEMMA NoStraysNoClog == ASSUME Strays = {} PROVE ~Clogged
<1>1. {i \in Strays : Due(i)} = {}
  OBVIOUS
<1>2. Cardinality({}) = 0
  BY FS_EmptySet
<1>3. Limit \in Nat /\ Limit > 0
  BY PolicyAssumption
<1> QED BY <1>1, <1>2, <1>3 DEF Clogged

\* The time an empty page names separates the empty batches from the others.
LEMMA PromiseKept ==
  ASSUME RoundsTypeOK, PromiseInv, page.cards = <<>>, page.back # Nothing, Strays = {}, NEW b \in Batches
  PROVE  Shown(b) = <<>> <=> page.back > 0
<1>1. PICK m \in Nat :
        /\ m = Day * MaximumInterval
        /\ Seen \subseteq Cards
        /\ \A i \in Seen : row[i].wait \in -Len(Deck)..m
  BY RowFacts
<1>2. page.back \in 0..m
  BY <1>1 DEF RoundsTypeOK
<1>3. deck \subseteq Seen /\ Seen \subseteq deck
  BY DEF PromiseInv, Strays
<1>4. \A i \in ToSet(b) : Due(i) /\ i \in deck
  <2> TAKE i \in ToSet(b)
  <2>1. Due(i)
    BY <1>3, BatchFacts
  <2> QED BY <2>1, <1>3 DEF Due
<1>5. ToSet(b) \cap deck = ToSet(b)
  BY <1>4
<1>6. CASE page.back > 0
  <2>1. \A i \in Seen : row[i].wait >= page.back
    BY <1>6 DEF PromiseInv
  <2>2. \A i \in Seen : ~(row[i].wait <= 0)
    BY <1>1, <1>2, <1>6, <2>1, CardsAreFinite
  <2>3. ToSet(b) = {}
    BY <1>4, <2>2 DEF Due
  <2> QED BY <2>3, <1>5, <1>6, ShownFacts
<1>7. CASE ~(page.back > 0)
  <2>1. page.back <= 0
    BY <1>2, <1>7
  <2>2. PICK i \in Seen : row[i].wait <= 0
    BY <2>1 DEF PromiseInv
  <2>3. Due(i) /\ i \in deck
    BY <2>2, <1>3 DEF Due
  <2>4. ~Clogged
    BY NoStraysNoClog
  <2> QED BY <2>3, <2>4, <1>7, EmptyIsDone
<1> QED BY <1>6, <1>7

\* EarliestDue is the least wait of the rows that are not due.
LEMMA EarliestFacts ==
  ASSUME RoundsTypeOK
  PROVE  /\ EarliestDue \in 0..Day * MaximumInterval \cup {Nothing}
         /\ EarliestDue # Nothing =>
              /\ EarliestDue > 0
              /\ \E i \in Seen : row[i].wait = EarliestDue
              /\ \A i \in Seen : ~Due(i) => row[i].wait >= EarliestDue
<1>1. PICK m \in Nat :
        /\ m = Day * MaximumInterval /\ Nothing \notin Int
        /\ \A i \in Seen : row[i].wait \in -Len(Deck)..m
  BY RowFacts
<1>2. \A i \in Seen : ~Due(i) => row[i].wait \in 1..m /\ row[i].wait \in Waits
  <2> SUFFICES ASSUME NEW i \in Seen, ~Due(i) PROVE row[i].wait \in 1..m /\ row[i].wait \in Waits
    OBVIOUS
  <2>1. ~(row[i].wait <= 0)
    BY DEF Due
  <2>2. row[i].wait \in 1..m
    BY <1>1, <2>1, CardsAreFinite
  <2> QED BY <2>2 DEF Waits
<1>3. Waits \subseteq Nat
  BY <1>2 DEF Waits
<1>4. CASE Waits = {}
  BY <1>4 DEF EarliestDue
<1>5. CASE Waits # {}
  <2>1. \E w \in Waits : \A v \in Waits : w <= v
    BY <1>3, <1>5, LeastNumber
  <2>2. PICK w \in Waits : w = EarliestDue /\ \A v \in Waits : w <= v
    BY <1>5, <2>1 DEF EarliestDue
  <2>3. PICK i \in Seen : ~Due(i) /\ row[i].wait = w
    BY DEF Waits
  <2>4. w \in 1..m
    BY <2>3, <1>2
  <2>5. \A j \in Seen : ~Due(j) => row[j].wait >= w
    <3> SUFFICES ASSUME NEW j \in Seen, ~Due(j) PROVE row[j].wait >= w
      OBVIOUS
    <3>1. row[j].wait \in 1..m /\ w <= row[j].wait
      BY <1>2, <2>2
    <3> QED BY <3>1, <2>4
  <2> QED BY <2>2, <2>3, <2>4, <2>5, <1>1
<1> QED BY <1>4, <1>5

\* Rows as Tick leaves them before it ranks the due ones.
Timed == [state : {"review", "relearning"}, age : 0..Day, wait : Int]

\* Ordered only changes the waits of due rows, and leaves those due: there are no
\* more ranks than words.
LEMMA OrderedFacts ==
  ASSUME NEW rows \in [Cards -> Timed \cup {Nothing}]
  PROVE  /\ Ordered(rows) \in [Cards -> Timed \cup {Nothing}]
         /\ \A i \in Cards :
              /\ rows[i] = Nothing <=> Ordered(rows)[i] = Nothing
              /\ rows[i] # Nothing =>
                   /\ Ordered(rows)[i].state = rows[i].state /\ Ordered(rows)[i].age = rows[i].age
                   /\ rows[i].wait > 0 => Ordered(rows)[i].wait = rows[i].wait
                   /\ rows[i].wait <= 0 => Ordered(rows)[i].wait \in -Len(Deck)..0
<1> DEFINE A == {i \in Cards : rows[i] # Nothing /\ rows[i].wait <= 0}
           late == {rows[i].wait : i \in A}
           rank(w) == -Cardinality({v \in late : v > w})
<1>1. Nothing \notin Timed
  BY PolicyAssumption DEF Timed
<1>2. \A i \in Cards : rows[i] # Nothing => rows[i] \in Timed
  OBVIOUS
<1>3. IsFiniteSet(late) /\ Cardinality(late) <= Len(Deck)
  <2>1. IsFiniteSet(A) /\ Cardinality(A) <= Len(Deck)
    BY CardsAreFinite, FS_Subset
  <2>2. PICK f : f = [i \in A |-> rows[i].wait]
    OBVIOUS
  <2>3. f \in [A -> late] /\ \A w \in late : \E i \in A : f[i] = w
    BY <2>2
  <2>4. f \in Surjection(A, late)
    BY <2>3 DEF Surjection
  <2>5. IsFiniteSet(late) /\ Cardinality(late) <= Cardinality(A)
    BY <2>1, <2>4, FS_Surjection
  <2>6. Cardinality(late) \in Nat /\ Cardinality(A) \in Nat
    BY <2>1, <2>5, FS_CardinalityType
  <2> QED BY <2>1, <2>5, <2>6, CardsAreFinite
<1>4. \A w : rank(w) \in -Len(Deck)..0
  <2> TAKE w
  <2> DEFINE L == {v \in late : v > w}
  <2>1. IsFiniteSet(L) /\ Cardinality(L) <= Cardinality(late)
    BY <1>3, FS_Subset
  <2>2. Cardinality(L) \in Nat /\ Cardinality(late) \in Nat
    BY <1>3, <2>1, FS_CardinalityType
  <2> HIDE DEF L, late
  <2>3. -Cardinality(L) \in -Len(Deck)..0
    BY <1>3, <2>1, <2>2, CardsAreFinite
  <2> QED BY <2>3 DEF L
<1>5. Ordered(rows) = [i \in Cards |-> IF i \in A THEN [rows[i] EXCEPT !.wait = rank(rows[i].wait)] ELSE rows[i]]
  BY DEF Ordered
<1> HIDE DEF late, rank
<1>6. ASSUME NEW i \in Cards, rows[i] # Nothing, rows[i].wait <= 0
      PROVE  /\ Ordered(rows)[i] \in Timed /\ Ordered(rows)[i].wait \in -Len(Deck)..0
             /\ Ordered(rows)[i].state = rows[i].state /\ Ordered(rows)[i].age = rows[i].age
  <2>1. i \in A /\ rows[i] \in Timed
    BY <1>2, <1>6
  <2>2. PICK w \in -Len(Deck)..0 : w = rank(rows[i].wait)
    BY <1>4
  <2>3. Ordered(rows)[i] = [rows[i] EXCEPT !.wait = w]
    BY <1>5, <2>1, <2>2
  <2>4. w \in Int
    BY <2>2
  <2> QED BY <2>1, <2>3, <2>4 DEF Timed
<1>7. ASSUME NEW i \in Cards, ~(rows[i] # Nothing /\ rows[i].wait <= 0)
      PROVE  Ordered(rows)[i] = rows[i]
  BY <1>5, <1>7
<1>8. ASSUME NEW i \in Cards
      PROVE  /\ Ordered(rows)[i] \in Timed \cup {Nothing}
             /\ rows[i] = Nothing <=> Ordered(rows)[i] = Nothing
             /\ rows[i] # Nothing =>
                  /\ Ordered(rows)[i].state = rows[i].state /\ Ordered(rows)[i].age = rows[i].age
                  /\ rows[i].wait > 0 => Ordered(rows)[i].wait = rows[i].wait
                  /\ rows[i].wait <= 0 => Ordered(rows)[i].wait \in -Len(Deck)..0
  <2>1. CASE rows[i] # Nothing /\ rows[i].wait <= 0
    <3>1. ~(rows[i].wait > 0)
      <4>1. rows[i].wait \in Int
        BY <2>1, <1>2 DEF Timed
      <4> QED BY <4>1, <2>1
    <3> QED BY <2>1, <3>1, <1>1, <1>6
  <2>2. CASE ~(rows[i] # Nothing /\ rows[i].wait <= 0)
    BY <2>2, <1>7
  <2> QED BY <2>1, <2>2
<1>9. Ordered(rows) \in [Cards -> Timed \cup {Nothing}]
  BY <1>5, <1>8
<1> QED BY <1>8, <1>9

-----------------------------------------------------------------------------
(* The steps of a round.                                                   *)

\* A new learner has no row and no page.
LEMMA RoundsInitHolds == RoundsInit => RoundsIInv
<1> SUFFICES ASSUME RoundsInit PROVE RoundsIInv
  OBVIOUS
<1>1. deck = Cards /\ row = [i \in Cards |-> Nothing] /\ page = [cards |-> <<>>, back |-> Nothing]
  BY DEF RoundsInit
<1>2. page.cards = <<>> /\ page.back = Nothing
  BY <1>1
<1>3. <<>> \in Seq(Cards) /\ Len(<<>>) = 0
  OBVIOUS
<1>4. page \in [cards : Seq(Cards), back : 0..Day * MaximumInterval \cup {Nothing}]
  BY <1>1, <1>3
<1>5. Limit \in Nat
  BY PolicyAssumption
<1>6. RoundsTypeOK
  BY <1>1, <1>2, <1>3, <1>4, <1>5 DEF RoundsTypeOK
<1>7. Seen = {}
  BY <1>1 DEF Seen
<1> QED BY <1>2, <1>6, <1>7 DEF RoundsIInv, RestInv, PromiseInv

\* A batch is asked for: if nothing is shown, the page names the least wait, and nothing
\* is due.
LEMMA BatchStep ==
  ASSUME RoundsIInv, HandleBatch
  PROVE  RoundsIInv'
<1>1. RoundsTypeOK /\ RestInv /\ PromiseInv /\ deck' = deck /\ row' = row
  BY DEF RoundsIInv, HandleBatch
<1>2. PICK b \in Batches :
        page' = [cards |-> Shown(b), back |-> IF Shown(b) = <<>> THEN EarliestDue ELSE Nothing]
  BY DEF HandleBatch
<1>3. page'.cards = Shown(b) /\ page'.back = IF Shown(b) = <<>> THEN EarliestDue ELSE Nothing
  BY <1>2
<1>4. Shown(b) \in Seq(Cards) /\ Len(Shown(b)) <= Limit
  BY <1>1, ShownFacts
<1>5. (IF Shown(b) = <<>> THEN EarliestDue ELSE Nothing) \in 0..Day * MaximumInterval \cup {Nothing}
  BY <1>1, EarliestFacts
<1>6. page' \in [cards : Seq(Cards), back : 0..Day * MaximumInterval \cup {Nothing}]
  BY <1>2, <1>4, <1>5
<1>7. RoundsTypeOK'
  BY <1>1, <1>3, <1>4, <1>6 DEF RoundsTypeOK
<1>8. Seen' = Seen /\ Strays' = Strays
  BY <1>1 DEF Seen, Strays
<1>9. RestInv'
  BY <1>1, <1>8 DEF RestInv
<1>10. ASSUME page'.cards = <<>>, page'.back # Nothing, Strays = {}
       PROVE  /\ deck \subseteq Seen /\ page'.back > 0 /\ ~(page'.back <= 0)
              /\ \A i \in Seen : row[i].wait >= page'.back
              /\ \E i \in Seen : row[i].wait = page'.back
  <2>1. Shown(b) = <<>> /\ page'.back = EarliestDue
    BY <1>3, <1>10
  <2>2. \A i \in deck : i \in Seen /\ ~Due(i)
    BY <1>1, <1>10, <2>1, EmptyIsDone, NoStraysNoClog
  <2>3. Seen \subseteq deck
    BY <1>10 DEF Strays
  <2>4. /\ EarliestDue > 0 /\ \E i \in Seen : row[i].wait = EarliestDue
        /\ \A i \in Seen : ~Due(i) => row[i].wait >= EarliestDue
    BY <1>1, <1>10, <2>1, EarliestFacts
  <2>5. EarliestDue \in Nat
    <3>1. PICK m \in Nat : m = Day * MaximumInterval
      BY <1>1, RowFacts
    <3> QED BY <3>1, <1>1, <1>10, <2>1, EarliestFacts
  <2>6. ~(EarliestDue <= 0)
    BY <2>4, <2>5
  <2> QED BY <2>1, <2>2, <2>3, <2>4, <2>6
<1>11. PromiseInv'
  <2>1. page'.cards # <<>> => page'.back = Nothing
    BY <1>3
  <2> QED BY <2>1, <1>1, <1>8, <1>10 DEF PromiseInv
<1> QED BY <1>7, <1>9, <1>11 DEF RoundsIInv

\* A graded row waits ten minutes, or from one day to the cap, whatever the stability.
LEMMA ReviewFacts ==
  ASSUME NEW r \in Ratings, NEW c \in Review(r)
  PROVE  /\ c \in Rows /\ c # Nothing /\ c.age = 0
         /\ c.state = "review" => c.wait >= Day
<1>1. Day \in Nat /\ Day > 1 /\ MaximumInterval \in Nat /\ MaximumInterval > 0 /\ MaxStability \in Nat
  BY PolicyAssumption
<1>2. PICK s \in Stabilities : c = Graduated(s, r)
  BY DEF Review, Remembered
<1>3. s \in Nat
  BY <1>1 DEF Stabilities
<1>4. PICK d \in 1..MaximumInterval : d = IntervalDays(s)
  BY <1>1, <1>3 DEF IntervalDays
<1>5. PICK m \in Nat : m = Day * MaximumInterval
  BY <1>1
<1>6. PICK w \in Nat : w = Day * d
  <2>1. d \in Nat
    BY <1>1, <1>4
  <2> QED BY <2>1, <1>1
<1>7. Day <= w /\ w <= m
  <2>1. d \in Nat /\ d >= 1 /\ d <= MaximumInterval
    BY <1>1, <1>4
  <2>2. Day * 1 <= Day * d /\ Day * d <= Day * MaximumInterval
    BY <2>1, <1>1
  <2>3. Day * 1 = Day
    BY <1>1
  <2> QED BY <2>2, <2>3, <1>5, <1>6
<1>8. Len(Deck) \in Nat
  BY CardsAreFinite
<1>9. 0 \in 0..Day /\ 1 \in -Len(Deck)..m /\ w \in -Len(Deck)..m
  BY <1>1, <1>7, <1>8
<1>10. CASE r = "again"
  <2>1. c = [state |-> "relearning", age |-> 0, wait |-> 1]
    BY <1>2, <1>10 DEF Graduated
  <2>2. c \in Rows /\ c.age = 0 /\ c.state # "review"
    BY <2>1, <1>5, <1>9 DEF Rows
  <2>3. c # Nothing
    BY <2>1, <1>1, PolicyAssumption
  <2> QED BY <2>2, <2>3
<1>11. CASE r # "again"
  <2>1. c = [state |-> "review", age |-> 0, wait |-> w]
    BY <1>2, <1>4, <1>6, <1>11 DEF Graduated
  <2>2. c \in Rows /\ c.age = 0 /\ c.wait = w
    BY <2>1, <1>5, <1>9 DEF Rows
  <2>3. c # Nothing
    BY <2>1, <1>1, PolicyAssumption
  <2> QED BY <2>2, <2>3, <1>1, <1>7
<1> QED BY <1>10, <1>11

\* A card is answered: its row starts a new wait, and the page had named no time.
LEMMA AnswerStep ==
  ASSUME RoundsIInv, NEW r \in Ratings, Answer(r)
  PROVE  RoundsIInv'
<1>1. RoundsTypeOK /\ RestInv /\ PromiseInv /\ deck' = deck /\ page.cards # <<>>
  BY DEF RoundsIInv, Answer
<1>2. PICK cs \in Seq(Cards) : cs = page.cards
  BY <1>1 DEF RoundsTypeOK
<1>3. /\ Head(cs) \in Cards /\ Tail(cs) \in Seq(Cards) /\ Len(cs) \in Nat
      /\ Len(Tail(cs)) = Len(cs) - 1 /\ Len(cs) <= Limit /\ Limit \in Nat
  BY <1>1, <1>2, PolicyAssumption DEF RoundsTypeOK
<1>4. PICK i \in Cards, c \in Review(r) : row' = [row EXCEPT ![i] = c]
  BY <1>2, <1>3 DEF Answer
<1>5. c \in Rows /\ c # Nothing /\ c.age = 0 /\ (c.state = "review" => c.wait >= Day)
  BY ReviewFacts
<1>6. row \in [Cards -> Rows \cup {Nothing}] /\ page.back = Nothing
  BY <1>1 DEF RoundsTypeOK, PromiseInv
<1>7. /\ row' \in [Cards -> Rows \cup {Nothing}]
      /\ row'[i] = c /\ \A j \in Cards : j # i => row'[j] = row[j]
  BY <1>4, <1>5, <1>6
<1>8. page' = [cards |-> Tail(cs), back |-> Nothing]
  <2>1. page' = [page EXCEPT !.cards = Tail(cs)]
    BY <1>2 DEF Answer
  <2>2. page \in [cards : Seq(Cards), back : 0..Day * MaximumInterval \cup {Nothing}]
    BY <1>1 DEF RoundsTypeOK
  <2> QED BY <2>1, <2>2, <1>6
<1>9. page'.cards = Tail(cs) /\ page'.back = Nothing
  BY <1>8
<1>10. Len(page'.cards) <= Limit
  BY <1>3, <1>9
<1>11. page' \in [cards : Seq(Cards), back : 0..Day * MaximumInterval \cup {Nothing}]
  BY <1>3, <1>8
<1>12. RoundsTypeOK'
  BY <1>1, <1>7, <1>10, <1>11 DEF RoundsTypeOK
<1>13. RestInv'
  <2> SUFFICES ASSUME NEW j \in Cards, row'[j] # Nothing, row'[j].state = "review", row'[j].age < Day
               PROVE  row'[j].wait + row'[j].age >= Day
    BY DEF RestInv, Seen
  <2>1. CASE j = i
    <3>1. c.wait \in Int
      <4>1. PICK m \in Nat : m = Day * MaximumInterval
        BY <1>1, RowFacts
      <4> QED BY <4>1, <1>5 DEF Rows
    <3>2. Day \in Nat
      BY PolicyAssumption
    <3> QED BY <2>1, <3>1, <3>2, <1>5, <1>7
  <2>2. CASE j # i
    BY <2>2, <1>1, <1>7 DEF RestInv, Seen
  <2> QED BY <2>1, <2>2
<1>14. PromiseInv'
  BY <1>9 DEF PromiseInv
<1> QED BY <1>12, <1>13, <1>14 DEF RoundsIInv

\* A word is dropped: a page that named a time named it for fewer words.
LEMMA DropStep ==
  ASSUME RoundsIInv, NEW i \in Cards, Drop(i)
  PROVE  RoundsIInv'
<1>1. deck' = deck \ {i} /\ row' = row /\ page' = page
  BY DEF Drop
<1>2. Seen' = Seen /\ Strays \subseteq Strays'
  BY <1>1 DEF Seen, Strays
<1>3. RoundsTypeOK'
  BY <1>1 DEF RoundsIInv, RoundsTypeOK
<1>4. RestInv'
  BY <1>1, <1>2 DEF RoundsIInv, RestInv
<1>5. PromiseInv'
  <2>1. Strays' = {} => Strays = {}
    BY <1>2
  <2>2. deck' \subseteq deck
    BY <1>1
  <2> QED BY <2>1, <2>2, <1>1, <1>2 DEF RoundsIInv, PromiseInv
<1> QED BY <1>3, <1>4, <1>5 DEF RoundsIInv

\* Ten minutes pass: all waits and the time that was named go down together, until due.
LEMMA TickStep ==
  ASSUME RoundsIInv, Tick
  PROVE  RoundsIInv'
<1>1. RoundsTypeOK /\ RestInv /\ PromiseInv /\ deck' = deck
  BY DEF RoundsIInv, Tick
<1>2. PICK m \in Nat :
        /\ m = Day * MaximumInterval /\ m > 0 /\ Seen \subseteq Cards /\ Nothing \notin Int
        /\ \A i \in Seen : row[i] \in Rows /\ row[i].wait \in -Len(Deck)..m /\ row[i].age \in 0..Day
  BY <1>1, RowFacts
<1>3. Day \in Nat /\ Day > 1 /\ Len(Deck) \in Nat
  BY PolicyAssumption, CardsAreFinite
<1>4. PICK rows :
        /\ rows = [i \in Cards |-> IF row[i] = Nothing THEN Nothing
                     ELSE [row[i] EXCEPT !.wait = @ - 1, !.age = IF @ < Day THEN @ + 1 ELSE Day]]
        /\ row' = Ordered(rows)
  BY DEF Tick
<1>5. ASSUME NEW i \in Cards, row[i] # Nothing
      PROVE  /\ rows[i] \in Timed /\ rows[i] # Nothing
             /\ rows[i].state = row[i].state /\ rows[i].wait = row[i].wait - 1
             /\ rows[i].age = IF row[i].age < Day THEN row[i].age + 1 ELSE Day
  <2>1. row[i] \in Rows
    BY <1>1, <1>5 DEF RoundsTypeOK
  <2>2. i \in Seen
    BY <1>5 DEF Seen
  <2>3. row[i].wait \in Int /\ row[i].age \in 0..Day
    BY <1>2, <2>2
  <2>4. PICK w \in Int : w = row[i].wait - 1
    BY <2>3
  <2>5. PICK a \in 0..Day : a = IF row[i].age < Day THEN row[i].age + 1 ELSE Day
    BY <2>3, <1>3
  <2>6. rows[i] = [row[i] EXCEPT !.wait = w, !.age = a]
    BY <1>4, <1>5, <2>4, <2>5
  <2>7. rows[i] \in Timed /\ rows[i].state = row[i].state /\ rows[i].wait = w /\ rows[i].age = a
    BY <2>1, <2>6 DEF Rows, Timed
  <2>8. Nothing \notin Timed
    BY PolicyAssumption DEF Timed
  <2> QED BY <2>4, <2>5, <2>7, <2>8
<1>6. ASSUME NEW i \in Cards, row[i] = Nothing PROVE rows[i] = Nothing
  BY <1>4, <1>6
<1>7. rows \in [Cards -> Timed \cup {Nothing}]
  BY <1>4, <1>5, <1>6
<1>8. /\ row' \in [Cards -> Timed \cup {Nothing}]
      /\ \A i \in Cards :
           /\ rows[i] = Nothing <=> row'[i] = Nothing
           /\ rows[i] # Nothing =>
                /\ row'[i].state = rows[i].state /\ row'[i].age = rows[i].age
                /\ rows[i].wait > 0 => row'[i].wait = rows[i].wait
                /\ rows[i].wait <= 0 => row'[i].wait \in -Len(Deck)..0
  BY <1>4, <1>7, OrderedFacts
<1>9. Seen' = Seen /\ Strays' = Strays
  <2>1. \A i \in Cards : row'[i] = Nothing <=> row[i] = Nothing
    BY <1>5, <1>6, <1>8
  <2> QED BY <2>1, <1>1 DEF Seen, Strays
<1>10. ASSUME NEW i \in Seen
       PROVE  /\ i \in Cards /\ row'[i] \in Timed /\ row'[i].state = row[i].state
              /\ row'[i].age = IF row[i].age < Day THEN row[i].age + 1 ELSE Day
              /\ row[i].wait > 1 => row'[i].wait = row[i].wait - 1
              /\ row[i].wait <= 1 => row'[i].wait \in -Len(Deck)..0
              /\ row[i].wait \in -Len(Deck)..m /\ row[i].age \in 0..Day
  <2>1. i \in Cards /\ row[i] # Nothing
    BY DEF Seen
  <2>2. rows[i] # Nothing /\ row'[i] # Nothing /\ row'[i] \in Timed
    BY <2>1, <1>5, <1>8
  <2>3. row[i].wait \in -Len(Deck)..m /\ row[i].age \in 0..Day
    BY <1>2
  <2>4. rows[i].wait = row[i].wait - 1
    BY <2>1, <1>5
  <2>5. (row[i].wait > 1 => rows[i].wait > 0) /\ (row[i].wait <= 1 => rows[i].wait <= 0)
    BY <2>3, <2>4, <1>3
  <2> QED BY <2>1, <2>2, <2>3, <2>4, <2>5, <1>5, <1>8
<1>11. row' \in [Cards -> Rows \cup {Nothing}]
  <2>1. ASSUME NEW i \in Cards, row'[i] # Nothing PROVE row'[i] \in Rows
    <3>1. i \in Seen
      BY <2>1, <1>9 DEF Seen
    <3>2. row'[i].wait \in -Len(Deck)..m
      <4>1. CASE row[i].wait > 1
        BY <4>1, <3>1, <1>3, <1>10
      <4>2. CASE row[i].wait <= 1
        <5>1. row'[i].wait \in -Len(Deck)..0
          BY <4>2, <3>1, <1>10
        <5> QED BY <5>1, <1>2, <1>3
      <4>3. row[i].wait \in -Len(Deck)..m
        BY <3>1, <1>10
      <4> QED BY <4>1, <4>2, <4>3, <1>3
    <3>3. row'[i] \in Timed
      BY <3>1, <1>10
    <3> QED BY <3>2, <3>3, <1>2 DEF Rows, Timed
  <2> QED BY <2>1, <1>8
<1>12. page \in [cards : Seq(Cards), back : 0..m \cup {Nothing}] /\ Len(page.cards) <= Limit
  BY <1>1, <1>2 DEF RoundsTypeOK
<1>13. PICK nb \in 0..m \cup {Nothing} :
         nb = IF page.back = Nothing \/ page.back <= 0 THEN page.back ELSE page.back - 1
  <2>1. page.back \in 0..m \cup {Nothing}
    BY <1>12
  <2>2. CASE page.back = Nothing \/ page.back <= 0
    BY <2>1, <2>2
  <2>3. CASE ~(page.back = Nothing \/ page.back <= 0)
    <3>1. page.back \in 0..m /\ ~(page.back <= 0)
      BY <2>1, <2>3
    <3>2. page.back - 1 \in 0..m
      BY <3>1
    <3> QED BY <3>2, <2>3
  <2> QED BY <2>2, <2>3
<1>14. page' = [page EXCEPT !.back = nb]
  BY <1>13 DEF Tick
<1>15. /\ page' \in [cards : Seq(Cards), back : 0..m \cup {Nothing}]
       /\ page'.cards = page.cards /\ page'.back = nb
  BY <1>12, <1>14
<1>16. RoundsTypeOK'
  BY <1>1, <1>2, <1>11, <1>12, <1>15 DEF RoundsTypeOK
<1>17. RestInv'
  <2> SUFFICES ASSUME NEW i \in Seen, row'[i].state = "review", row'[i].age < Day
               PROVE  row'[i].wait + row'[i].age >= Day
    BY <1>9 DEF RestInv
  <2>1. row[i].age < Day /\ row'[i].age = row[i].age + 1
    BY <1>3, <1>10
  <2>2. row[i].wait + row[i].age >= Day
    BY <2>1, <1>1, <1>10 DEF RestInv
  <2>3. row[i].wait > 1 /\ row[i].wait \in Int /\ row[i].age \in Int
    BY <2>1, <2>2, <1>3, <1>10
  <2>4. row'[i].wait = row[i].wait - 1
    BY <2>3, <1>10
  <2> QED BY <2>1, <2>2, <2>3, <2>4, <1>3
<1>18. ASSUME page.cards = <<>>, nb # Nothing, Strays = {}
       PROVE  /\ deck \subseteq Seen
              /\ nb > 0 => /\ \A i \in Seen : row'[i].wait >= nb
                           /\ \E i \in Seen : row'[i].wait = nb
              /\ nb <= 0 => \E i \in Seen : row'[i].wait <= 0
  <2>1. page.back # Nothing /\ page.back \in 0..m
    BY <1>12, <1>13, <1>18
  <2>2. /\ deck \subseteq Seen
        /\ page.back > 0 => /\ \A i \in Seen : row[i].wait >= page.back
                            /\ \E i \in Seen : row[i].wait = page.back
        /\ page.back <= 0 => \E i \in Seen : row[i].wait <= 0
    BY <2>1, <1>1, <1>18 DEF PromiseInv
  <2>3. CASE page.back <= 0
    <3>1. nb = page.back /\ ~(nb > 0)
      BY <2>1, <2>3, <1>13
    <3>2. PICK i \in Seen : row[i].wait <= 0
      BY <2>2, <2>3
    <3>3. row[i].wait <= 1
      BY <3>2, <1>3, <1>10
    <3>4. row'[i].wait \in -Len(Deck)..0
      BY <3>3, <1>10
    <3>5. row'[i].wait <= 0
      BY <3>4
    <3> QED BY <2>2, <3>1, <3>5
  <2>4. CASE page.back = 1
    <3>1. nb = 0
      BY <2>1, <2>4, <1>13
    <3>2. PICK i \in Seen : row[i].wait = 1
      BY <2>2, <2>4
    <3>3. row'[i].wait \in -Len(Deck)..0
      BY <3>2, <1>10
    <3>4. row'[i].wait <= 0
      BY <3>3
    <3> QED BY <2>2, <3>1, <3>4
  <2>5. CASE page.back > 1
    <3>1. nb = page.back - 1 /\ page.back > 0 /\ ~(nb <= 0)
      BY <2>1, <2>5, <1>13
    <3>2. ASSUME NEW i \in Seen PROVE row'[i].wait = row[i].wait - 1 /\ row[i].wait >= page.back /\ row[i].wait \in Int
      <4>1. row[i].wait >= page.back
        BY <2>2, <3>1
      <4>2. row[i].wait > 1 /\ row[i].wait \in Int
        BY <4>1, <2>1, <2>5, <1>3, <1>10
      <4> QED BY <4>1, <4>2, <1>10
    <3>3. \A i \in Seen : row'[i].wait >= nb
      BY <2>1, <3>1, <3>2
    <3>4. \E i \in Seen : row'[i].wait = nb
      BY <2>2, <3>1, <3>2
    <3> QED BY <2>2, <3>1, <3>3, <3>4
  <2> QED BY <2>1, <2>3, <2>4, <2>5
<1>19. PromiseInv'
  <2>1. page'.cards # <<>> => page'.back = Nothing
    BY <1>1, <1>13, <1>15 DEF PromiseInv
  <2> QED BY <2>1, <1>1, <1>9, <1>15, <1>18 DEF PromiseInv
<1> QED BY <1>16, <1>17, <1>19 DEF RoundsIInv

\* No step breaks the invariant.
LEMMA RoundsNextHolds == RoundsIInv /\ [RoundsNext]_roundsVars => RoundsIInv'
<1> SUFFICES ASSUME RoundsIInv, [RoundsNext]_roundsVars PROVE RoundsIInv'
  OBVIOUS
<1>1. CASE UNCHANGED roundsVars
  <2>1. deck' = deck /\ row' = row /\ page' = page
    BY <1>1 DEF roundsVars
  <2> QED BY <2>1 DEF RoundsIInv, RoundsTypeOK, RestInv, PromiseInv, Seen, Strays
<1>2. CASE HandleBatch
  BY <1>2, BatchStep
<1>3. ASSUME NEW r \in Ratings, Answer(r) PROVE RoundsIInv'
  BY <1>3, AnswerStep
<1>4. CASE Tick
  BY <1>4, TickStep
<1>5. ASSUME NEW i \in Cards, Drop(i) PROVE RoundsIInv'
  BY <1>5, DropStep
<1> QED BY <1>1, <1>2, <1>3, <1>4, <1>5 DEF RoundsNext, Learn

-----------------------------------------------------------------------------
(* The theorems about rounds.                                              *)

\* The inductive invariant.
THEOREM RoundsInvariance == RoundsSpec => []RoundsIInv
BY RoundsInitHolds, RoundsNextHolds, PTL DEF RoundsSpec

\* For any deck, any batch limits, any length of a day, any cap on the intervals and any
\* releases that drop words: a card is left out of a batch only for cards that came due
\* no later, and what was answered well does not come back on the same day
\* (studybus.go:66, schedule.go).
THEOREM NothingPassedOverHolds == RoundsSpec => []NothingPassedOver
<1>1. ASSUME RoundsIInv PROVE NothingPassedOver
  <2>1. RoundsTypeOK
    BY <1>1 DEF RoundsIInv
  <2>2. ASSUME NEW i \in Seen, row[i].state = "review", row[i].age < Day PROVE ~Due(i)
    <3>1. row[i].wait \in -Len(Deck)..(Day * MaximumInterval) /\ row[i].age \in 0..Day
      BY <2>1, RowFacts
    <3>2. row[i].wait + row[i].age >= Day
      BY <1>1, <2>2 DEF RoundsIInv, RestInv
    <3>3. ~(row[i].wait <= 0)
      <4>1. PICK m \in Nat : m = Day * MaximumInterval
        BY <2>1, RowFacts
      <4>2. Day \in Nat /\ Len(Deck) \in Nat
        BY PolicyAssumption, CardsAreFinite
      <4> QED BY <4>1, <4>2, <3>1, <3>2, <2>2
    <3> QED BY <3>3 DEF Due
  <2> QED BY <2>1, <2>2, BatchFacts DEF NothingPassedOver
<1> QED BY <1>1, RoundsInvariance, PTL

\* For as many: an empty batch means that nothing is to do, and the time it names is kept
\* - there is nothing to do before it, and something at it (studyapp.go:493) - unless
\* due rows of dropped words fill the batch.
THEOREM EmptyMeansDoneHolds == RoundsSpec => []EmptyMeansDone
<1>1. ASSUME RoundsIInv PROVE EmptyMeansDone
  <2>1. RoundsTypeOK /\ PromiseInv
    BY <1>1 DEF RoundsIInv
  <2> QED BY <2>1, EmptyIsDone, PromiseKept DEF EmptyMeansDone
<1> QED BY <1>1, RoundsInvariance, PTL
=============================================================================
