-------------------------- MODULE CandidatesProofs --------------------------
(***************************************************************************)
(* Proofs about Candidates, for any teams, settings and services: whatever *)
(* teams do between two rings, nobody is overlooked or passed over for a   *)
(* farther team, and the ranking puts the better team first.               *)
(***************************************************************************)
EXTENDS Candidates, FiniteSetTheorems, SequenceTheorems, TLAPS

-----------------------------------------------------------------------------
(* Orders.                                                                 *)

\* before is a strict order in which any two elements of S can be compared.
StrictOrder(before, S) ==
    /\ \A x \in S : <<x, x>> \notin before
    /\ \A x, y \in S : x # y => <<x, y>> \in before \/ <<y, x>> \in before
    /\ \A x, y, z \in S : <<x, y>> \in before /\ <<y, z>> \in before => <<x, z>> \in before

\* sooner compares by something that may be equal for different elements.
WeakOrder(sooner, S) ==
    /\ \A x, y \in S : <<x, y>> \in sooner => <<y, x>> \notin sooner
    /\ \A x, y, z \in S : <<x, z>> \in sooner => <<x, y>> \in sooner \/ <<y, z>> \in sooner

\* p names each element of S, each at one place.
Lists(p, S) ==
    /\ Cardinality(S) \in Nat
    /\ p \in [1..Cardinality(S) -> S]
    /\ \A x \in S : \E i \in 1..Cardinality(S) : p[i] = x

\* A sequence that names each element at most once names them all.
LEMMA SeqsAre ==
    ASSUME NEW S, IsFiniteSet(S), NEW p \in SetToSeqs(S)
    PROVE  Lists(p, S)
<1> DEFINE n == Cardinality(S)
<1>1. n \in Nat
  BY FS_CardinalityType
<1>2. p \in [1..n -> S] /\ \A i, j \in 1..n : i # j => p[i] # p[j]
  BY DEF SetToSeqs
<1>3. p \in Injection(1..n, S)
  BY <1>2 DEF Injection, IsInjective
<1>4. IsFiniteSet(1..n) /\ Cardinality(1..n) = n
  BY <1>1, FS_Interval
<1>5. p \in Surjection(1..n, S)
  BY <1>3, <1>4, FS_Injection
<1> QED
  BY <1>1, <1>2, <1>5 DEF Surjection, Lists

\* The elements of a finite set can be put in any strict order: the place of an element
\* is the number of those before it.
LEMMA OrderedIs ==
    ASSUME NEW S, IsFiniteSet(S), NEW before, StrictOrder(before, S)
    PROVE  /\ Lists(Ordered(S, before), S)
           /\ \A i, j \in 1..Cardinality(S) :
                 i < j => <<Ordered(S, before)[i], Ordered(S, before)[j]>> \in before
<1> DEFINE n == Cardinality(S)
           Below(x) == {y \in S : <<y, x>> \in before}
           rank == [x \in S |-> Cardinality(Below(x)) + 1]
<1>1. n \in Nat
  BY FS_CardinalityType
<1>2. ASSUME NEW x \in S
      PROVE  /\ IsFiniteSet(Below(x)) /\ Cardinality(Below(x)) \in Nat
             /\ rank[x] \in 1..n
  <2>1. Below(x) \in SUBSET S /\ x \notin Below(x)
    BY DEF StrictOrder
  <2>2. IsFiniteSet(Below(x)) /\ Cardinality(Below(x)) \in Nat
    BY <2>1, FS_Subset, FS_CardinalityType
  <2>3. Below(x) \subseteq S \ {x}
    BY <2>1
  <2>4. IsFiniteSet(S \ {x}) /\ Cardinality(S \ {x}) = n - 1
    BY FS_RemoveElement
  <2>5. Cardinality(Below(x)) <= Cardinality(S \ {x})
    BY <2>3, <2>4, FS_Subset
  <2> QED
    BY <1>1, <2>2, <2>4, <2>5
<1>3. ASSUME NEW x \in S, NEW y \in S, <<x, y>> \in before
      PROVE  rank[x] < rank[y]
  <2>1. Below(x) \cup {x} \subseteq Below(y) /\ x \notin Below(x)
    BY <1>3 DEF StrictOrder
  <2>2. Cardinality(Below(x) \cup {x}) = Cardinality(Below(x)) + 1
    BY <1>2, <2>1, FS_AddElement
  <2>3. Cardinality(Below(x) \cup {x}) <= Cardinality(Below(y))
    BY <1>2, <2>1, FS_Subset
  <2> QED
    BY <1>2, <2>2, <2>3
<1>4. \A x \in S : rank[x] \in 1..n
  BY <1>2
<1>5. \A x, y \in S : <<x, y>> \in before => rank[x] < rank[y]
  BY <1>3
<1>6. rank \in [S -> 1..n]
  BY <1>4
<1> HIDE DEF rank
<1>7. \A x, y \in S : rank[x] = rank[y] => x = y
  <2>1. ASSUME NEW x \in S, NEW y \in S, x # y
        PROVE  rank[x] # rank[y]
    <3>1. <<x, y>> \in before \/ <<y, x>> \in before
      BY <2>1 DEF StrictOrder
    <3>2. rank[x] < rank[y] \/ rank[y] < rank[x]
      BY <1>5, <3>1
    <3> QED
      BY <1>1, <1>4, <3>2
  <2> QED
    BY <2>1
<1>8. rank \in Injection(S, 1..n)
  BY <1>6, <1>7 DEF Injection, IsInjective
<1>9. IsFiniteSet(1..n) /\ Cardinality(1..n) = n
  BY <1>1, FS_Interval
<1>10. rank \in Surjection(S, 1..n)
  BY <1>8, <1>9, FS_Injection
<1>11. \A i \in 1..n : \E x \in S : rank[x] = i
  BY <1>10 DEF Surjection
<1> DEFINE p == [i \in 1..n |-> CHOOSE x \in S : rank[x] = i]
<1>12. \A i \in 1..n : p[i] \in S /\ rank[p[i]] = i
  BY <1>11
<1>13. p \in [1..n -> S]
  BY <1>12
<1> HIDE DEF p
<1>14. \A i, j \in 1..n : i # j => p[i] # p[j]
  BY <1>12
<1>15. \A i, j \in 1..n : i < j => <<p[i], p[j]>> \in before
  <2> TAKE i, j \in 1..n
  <2> HAVE i < j
  <2>1. p[i] \in S /\ p[j] \in S /\ p[i] # p[j] /\ rank[p[i]] < rank[p[j]]
    BY <1>1, <1>12, <1>14
  <2>2. ~(rank[p[j]] < rank[p[i]])
    BY <1>1, <1>4, <2>1
  <2> QED
    BY <1>5, <2>1, <2>2 DEF StrictOrder
<1>16. p \in SetToSeqs(S)
  BY <1>13, <1>14 DEF SetToSeqs
<1>17. \A q \in SetToSeqs(S) : DOMAIN q = 1..n
  BY DEF SetToSeqs
<1>18. \E q \in SetToSeqs(S) : \A i, j \in DOMAIN q : i < j => <<q[i], q[j]>> \in before
  BY <1>15, <1>16, <1>17
<1> DEFINE o == Ordered(S, before)
<1>19. o \in SetToSeqs(S) /\ \A i, j \in DOMAIN o : i < j => <<o[i], o[j]>> \in before
  BY <1>18 DEF Ordered
<1> HIDE DEF o
<1>20. Lists(o, S)
  BY <1>19, SeqsAre
<1> QED
  BY <1>17, <1>19, <1>20 DEF o

\* r is s in the order p of its places: all are there, none after what it is sooner than.
Sorts(r, p, n, s, sooner) ==
    /\ r = [i \in 1..n |-> s[p[i]]]
    /\ \A k \in 1..n : \E i \in 1..n : p[i] = k
    /\ \A i, j \in 1..n : i < j => <<p[j], p[i]>> \notin sooner

\* A sort keeps what is in a sequence, and nothing comes after what it is sooner than.
LEMMA SortedIs ==
    ASSUME NEW n \in Nat, NEW s, DOMAIN s = 1..n, NEW sooner, WeakOrder(sooner, 1..n)
    PROVE  \E p \in [1..n -> 1..n] : Sorts(SortedBy(s, sooner), p, n, s, sooner)
<1> DEFINE P == 1..n
           before == {q \in P \X P :
                        q \in sooner \/ (<<q[2], q[1]>> \notin sooner /\ q[1] < q[2])}
           p == Ordered(P, before)
<1>1. \A i, j \in P : <<i, j>> \in before
                        <=> <<i, j>> \in sooner \/ (<<j, i>> \notin sooner /\ i < j)
  OBVIOUS
<1>2. IsFiniteSet(P) /\ Cardinality(P) = n
  BY FS_Interval
<1> HIDE DEF before
<1>3. StrictOrder(before, P)
  <2>1. \A i \in P : <<i, i>> \notin before
    BY <1>1 DEF WeakOrder
  <2>2. \A i, j \in P : i # j => <<i, j>> \in before \/ <<j, i>> \in before
    BY <1>1
  <2>3. ASSUME NEW i \in P, NEW j \in P, NEW k \in P, <<i, j>> \in before, <<j, k>> \in before
        PROVE  <<i, k>> \in before
    <3>1. <<j, i>> \notin sooner /\ <<k, j>> \notin sooner
      BY <1>1, <2>3 DEF WeakOrder
    <3>2. <<k, i>> \notin sooner
      BY <3>1 DEF WeakOrder
    <3>3. CASE <<i, k>> \in sooner
      BY <1>1, <3>3
    <3>4. CASE <<i, k>> \notin sooner
      <4>1. <<i, j>> \notin sooner /\ <<j, k>> \notin sooner
        BY <3>1, <3>4 DEF WeakOrder
      <4>2. i < j /\ j < k
        BY <1>1, <2>3, <4>1
      <4> QED
        BY <1>1, <3>2, <4>2
    <3> QED
      BY <3>3, <3>4
  <2> QED
    BY <2>1, <2>2, <2>3 DEF StrictOrder
<1>4. Lists(p, P) /\ \A i, j \in P : i < j => <<p[i], p[j]>> \in before
  BY <1>2, <1>3, OrderedIs
<1>5. SortedBy(s, sooner) = [i \in DOMAIN p |-> s[p[i]]]
  BY DEF SortedBy, Picks, before
<1> HIDE DEF p
<1>6. p \in [1..n -> 1..n] /\ \A k \in 1..n : \E i \in 1..n : p[i] = k
  BY <1>2, <1>4 DEF Lists
<1>7. \A i, j \in 1..n : i < j => <<p[j], p[i]>> \notin sooner
  BY <1>1, <1>4, <1>6 DEF WeakOrder
<1>8. SortedBy(s, sooner) = [i \in 1..n |-> s[p[i]]]
  BY <1>5, <1>6
<1> QED
  BY <1>6, <1>7, <1>8 DEF Sorts

\* A finite set of numbers has a least and a greatest one.
LEMMA MinMaxIs ==
    ASSUME NEW S, S \subseteq Int, IsFiniteSet(S), S # {}
    PROVE  /\ Min(S) \in S /\ Max(S) \in S
           /\ \A x \in S : Min(S) <= x /\ x <= Max(S)
<1> DEFINE before == {q \in S \X S : q[1] < q[2]}
           p == Ordered(S, before)
           n == Cardinality(S)
<1>1. \A x, y \in S : <<x, y>> \in before <=> x < y
  OBVIOUS
<1> HIDE DEF before
<1>2. StrictOrder(before, S)
  BY <1>1 DEF StrictOrder
<1>3. Lists(p, S) /\ \A i, j \in 1..n : i < j => <<p[i], p[j]>> \in before
  BY <1>2, OrderedIs
<1> HIDE DEF p, n
<1>4. /\ n \in Nat /\ \A i \in 1..n : p[i] \in S
      /\ \A x \in S : \E i \in 1..n : p[i] = x
  BY <1>3 DEF Lists, n
<1>5. \A i, j \in 1..n : i < j => p[i] < p[j]
  BY <1>1, <1>3, <1>4
<1>6. 1 \in 1..n /\ n \in 1..n
  <2>1. PICK x \in S : TRUE
    OBVIOUS
  <2>2. PICK i \in 1..n : p[i] = x
    BY <1>4
  <2> QED
    BY <1>4, <2>2
<1>7. /\ \E x \in S : \A y \in S : x <= y
      /\ \E x \in S : \A y \in S : x >= y
  <2>1. ASSUME NEW i \in 1..n
        PROVE  p[1] <= p[i] /\ p[n] >= p[i]
    <3>1. p[1] \in Int /\ p[i] \in Int /\ p[n] \in Int
      BY <1>4, <1>6
    <3>2. (i = 1 \/ 1 < i) /\ (i = n \/ i < n)
      BY <1>4
    <3>3. p[1] = p[i] \/ p[1] < p[i]
      BY <1>5, <1>6, <3>2
    <3>4. p[n] = p[i] \/ p[i] < p[n]
      BY <1>5, <1>6, <3>2
    <3> QED
      BY <3>1, <3>3, <3>4
  <2> QED
    BY <1>4, <1>6, <2>1
<1> QED
  BY <1>7 DEF Min, Max

\* Math.max of two numbers is as large as each of them.
LEMMA LargerIs ==
    ASSUME NEW a \in Int, NEW b \in Int
    PROVE  Max({a, b}) \in Int /\ Max({a, b}) >= a /\ Max({a, b}) >= b
<1>1. \E x \in {a, b} : \A y \in {a, b} : x >= y
  OBVIOUS
<1> QED
  BY <1>1 DEF Max

-----------------------------------------------------------------------------
(* Numbers.                                                                *)

\* A part of a score grows with what it counts.
LEMMA Grows ==
    ASSUME NEW x \in Int, NEW y \in Int, NEW k \in Int, k >= 0
    PROVE  /\ (k > 0 => x <= y) => x * k <= y * k
           /\ k > 0 /\ x < y => x * k < y * k
<1>1. CASE k = 0
  BY <1>1
<1>2. CASE k > 0
  <2>1. x <= y => x * k <= y * k
    BY <1>2
  <2>2. x < y => x * k < y * k
    BY <1>2
  <2> QED
    BY <1>2, <2>1, <2>2
<1> QED
  BY <1>1, <1>2

\* What is positive stays so when it is multiplied.
LEMMA Positive ==
    ASSUME NEW x \in Nat, NEW y \in Nat
    PROVE  x * y \in Nat /\ (x > 0 /\ y > 0 => x * y > 0)
BY SMT

\* A product of integers is an integer.
LEMMA Products ==
    ASSUME NEW a \in Int, NEW b \in Int, NEW c \in Int, NEW d \in Int, NEW e \in Int
    PROVE  a * b * c * d * e \in Int
<1> DEFINE ab == a * b
           abc == ab * c
           abcd == abc * d
<1>1. ab \in Int
  OBVIOUS
<1> HIDE DEF ab
<1>2. abc \in Int
  BY <1>1
<1> HIDE DEF abc
<1>3. abcd \in Int
  BY <1>2
<1> HIDE DEF abcd
<1>4. abcd * e \in Int
  BY <1>3
<1> QED
  BY <1>4 DEF ab, abc, abcd

\* Fractions a/x with positive denominators are ordered as their products are.
LEMMA Fractions ==
    ASSUME NEW a \in Int, NEW b \in Int, NEW c \in Int,
           NEW x \in Nat \ {0}, NEW y \in Nat \ {0}, NEW z \in Nat \ {0},
           a * z < c * x
    PROVE  a * y < b * x \/ b * z < c * y
<1> SUFFICES ASSUME b * x <= a * y, c * y <= b * z
             PROVE  FALSE
  <2>1. a * y \in Int /\ b * x \in Int /\ b * z \in Int /\ c * y \in Int
    OBVIOUS
  <2> QED
    BY <2>1
<1> DEFINE ay == a * y  bx == b * x  cy == c * y  bz == b * z  az == a * z  cx == c * x
<1>1. ay \in Int /\ bx \in Int /\ cy \in Int /\ bz \in Int /\ az \in Int /\ cx \in Int
  OBVIOUS
<1>2. bx * z <= ay * z /\ cy * x <= bz * x
  BY <1>1, Grows
<1>3. az * y < cx * y
  BY <1>1, Grows
<1>4. bx * z = bz * x /\ ay * z = az * y /\ cy * x = cx * y
  OBVIOUS
<1> HIDE DEF ay, bx, cy, bz, az, cx
<1>5. cx * y \in Int /\ az * y \in Int /\ bz * x \in Int
  BY <1>1
<1> QED
  BY <1>2, <1>3, <1>4, <1>5

-----------------------------------------------------------------------------
(* What the search reads and keeps.                                        *)

Rows == [free : BOOLEAN, at : Nat, cases : Nat]
Cands == [team : Teams, at : Nat, cases : Nat]
Paths == [dist : Nat, ideal : Nat]

TypeOK ==
    /\ settings \in Settings
    /\ team \in [Teams -> Rows] /\ steady \in SUBSET Teams
    /\ pc \in {"scan", "measure", "done"}
    /\ pool \in Seq(Cands)
    /\ \A t \in DOMAIN route : route[t] \in Paths
    /\ \A t \in DOMAIN real : t \in DOMAIN route /\ real[t] \in Nat
    /\ \A at \in DOMAIN known : known[at] \in Nat

\* A missing capacity counts as five.
LEMMA CapIs ==
    ASSUME NEW t \in Teams
    PROVE  Cap(t) \in Nat \ {0}
<1>1. Capacity[t] \in Nat
  BY CandidatesAssumption
<1> QED
  BY <1>1 DEF Cap

LEMMA LoadIs ==
    ASSUME NEW c, c.team \in Teams, c.cases \in Nat
    PROVE  Load(c) \in Int
<1>1. Cap(c.team) \in Nat
  BY CapIs
<1>2. \E x \in {c.cases, Cap(c.team)} : \A y \in {c.cases, Cap(c.team)} : x <= y
  BY <1>1
<1> QED
  BY <1>1, <1>2 DEF Load, Min

\* Whatever the settings say of skills, a mismatch is a number.
LEMMA MismatchIs ==
    ASSUME TypeOK, NEW t
    PROVE  getSkillMismatch(t) \in Int
<1>1. SettingsOK(settings) /\ Numbers(DefaultMapping)
  BY CandidatesAssumption DEF TypeOK
<1>2. settings.mapping # {} => (CHOOSE row \in settings.mapping : TRUE) \in settings.mapping
  OBVIOUS
<1>3. Numbers(parseSkillMapping)
  BY <1>1, <1>2 DEF parseSkillMapping, SettingsOK
<1> QED
  BY <1>3 DEF getSkillMismatch, Numbers

LEMMA OrDefaultIs ==
    ASSUME NEW given, NEW default, Numbers(given), Numbers(default)
    PROVE  \A k \in DOMAIN default : OrDefault(given, default)[k] \in Int
BY DEF OrDefault, Numbers

\* The weights are numbers, whichever rows of the settings they come from.
LEMMA WeightsAre ==
    ASSUME TypeOK
    PROVE  /\ Weights4.dist \in Int /\ Weights4.duration \in Int
           /\ Weights4.skill \in Int /\ Weights4.cases \in Int
<1>1. SettingsOK(settings)
  BY CandidatesAssumption DEF TypeOK
<1>2. /\ Numbers(DefaultFour) /\ DOMAIN DefaultFour = {"dist", "duration", "skill", "cases"}
      /\ Numbers(DefaultWeights) /\ DOMAIN DefaultWeights = {"dist", "cases", "skill"}
  BY DEF Numbers, DefaultFour, DefaultWeights
<1>3. /\ resolveWeights["dist"] \in Int /\ resolveWeights["skill"] \in Int
      /\ resolveWeights["cases"] \in Int
  <2> DEFINE fits == {Severity, "DEFAULT"} \cap DOMAIN settings.matrix
             row == IF Severity \in fits THEN Severity ELSE "DEFAULT"
  <2>1. CASE fits = {}
    <3>1. resolveWeights = OrDefault(settings.keys, DefaultWeights)
      BY <2>1 DEF resolveWeights
    <3> QED
      BY <1>1, <1>2, <3>1, OrDefaultIs DEF SettingsOK
  <2>2. CASE fits # {}
    <3>1. row \in DOMAIN settings.matrix
      BY <2>2
    <3>2. resolveWeights = settings.matrix[row]
      BY <2>2 DEF resolveWeights
    <3>3. settings.matrix[row] \in [dist : Int, cases : Int, skill : Int]
      BY <1>1, <3>1 DEF SettingsOK
    <3> HIDE DEF row
    <3> QED
      BY <3>2, <3>3
  <2> QED
    BY <2>1, <2>2
<1>4. CASE TrafficEnabled
  <2>1. Weights4 = OrDefault(settings.four, DefaultFour)
    BY <1>4 DEF Weights4
  <2>2. \A k \in {"dist", "duration", "skill", "cases"} : Weights4[k] \in Int
    BY <1>1, <1>2, <2>1, OrDefaultIs DEF SettingsOK
  <2> QED
    BY <2>2
<1>5. CASE ~TrafficEnabled
  BY <1>3, <1>5 DEF Weights4
<1> QED
  BY <1>4, <1>5

\* There is a radius, and each radius is positive.
LEMMA StepsAre ==
    ASSUME TypeOK
    PROVE  /\ Len(parseRadiusSteps) \in Nat \ {0}
           /\ \A k \in 1..Len(parseRadiusSteps) : parseRadiusSteps[k] \in Nat \ {0}
           /\ DOMAIN parseRadiusSteps = 1..Len(parseRadiusSteps)
<1> DEFINE valid == {i \in DOMAIN settings.steps : settings.steps[i] > 0}
           n == Cardinality(valid)
           before == {q \in valid \X valid : q[1] < q[2]}
           p == Ordered(valid, before)
<1>1. settings.steps \in Seq(Int)
  BY CandidatesAssumption DEF TypeOK, SettingsOK
<1>2. CASE valid = {}
  <2>1. parseRadiusSteps = <<2, 5, 10, 20, 25>>
    BY <1>2 DEF parseRadiusSteps, DefaultSteps
  <2>2. /\ Len(<<2, 5, 10, 20, 25>>) = 5 /\ DOMAIN <<2, 5, 10, 20, 25>> = 1..5
        /\ \A k \in 1..5 : <<2, 5, 10, 20, 25>>[k] \in Nat \ {0}
    OBVIOUS
  <2> QED
    BY <2>1, <2>2
<1>3. CASE valid # {}
  <2>1. valid \subseteq 1..Len(settings.steps) /\ Len(settings.steps) \in Nat
    BY <1>1
  <2>2. IsFiniteSet(valid)
    BY <2>1, FS_Interval, FS_Subset
  <2>3. \A x, y \in valid : <<x, y>> \in before <=> x < y
    OBVIOUS
  <2>4. \A x \in valid : x \in Int
    BY <2>1
  <2>5. \A x \in valid : settings.steps[x] \in Nat \ {0}
    BY <1>1
  <2> HIDE DEF before, valid
  <2>6. StrictOrder(before, valid)
    BY <2>3, <2>4 DEF StrictOrder
  <2>7. n \in Nat /\ p \in [1..n -> valid] /\ \A x \in valid : \E i \in 1..n : p[i] = x
    BY <2>2, <2>6, OrderedIs DEF Lists
  <2>8. n # 0
    BY <1>3, <2>7
  <2>9. parseRadiusSteps = [k \in DOMAIN p |-> settings.steps[p[k]]]
    BY <1>3 DEF parseRadiusSteps, Picks, valid, before
  <2> HIDE DEF p, n
  <2>10. parseRadiusSteps = [k \in 1..n |-> settings.steps[p[k]]]
    BY <2>7, <2>9
  <2>11. \A k \in 1..n : settings.steps[p[k]] \in Nat \ {0}
    BY <2>5, <2>7
  <2>12. Len(parseRadiusSteps) = n
    BY <2>7, <2>10
  <2> QED
    BY <2>7, <2>8, <2>10, <2>11, <2>12
<1> QED
  BY <1>2, <1>3

-----------------------------------------------------------------------------
(* The ranking.                                                            *)

\* Every candidate kept has its travel time.
AllMeasured == \A i \in DOMAIN pool : pool[i].team \in DOMAIN real

\* An entry is a candidate with its route and travel time.
LEMMA EntriesAre ==
    ASSUME TypeOK, AllMeasured
    PROVE  /\ Len(pool) \in Nat /\ DOMAIN pool = 1..Len(pool) /\ DOMAIN Entries = 1..Len(pool)
           /\ \A i \in 1..Len(pool) :
                /\ Entries[i].team = pool[i].team /\ Entries[i].team \in Teams
                /\ Entries[i].cases \in Nat /\ Entries[i].at = pool[i].at
                /\ Entries[i].dist \in Nat /\ Entries[i].real \in Nat
<1>1. Len(pool) \in Nat /\ DOMAIN pool = 1..Len(pool)
  BY DEF TypeOK
<1>2. ASSUME NEW i \in 1..Len(pool)
      PROVE  pool[i].team \in Teams /\ pool[i].cases \in Nat
  <2>1. pool[i] \in Cands
    BY <1>1 DEF TypeOK
  <2> DEFINE c == pool[i]
  <2>2. c \in Cands
    BY <2>1
  <2> HIDE DEF c
  <2>3. c.team \in Teams /\ c.cases \in Nat
    BY <2>2 DEF Cands
  <2> QED
    BY <2>3 DEF c
<1>3. ASSUME NEW i \in 1..Len(pool)
      PROVE  route[pool[i].team].dist \in Nat /\ real[pool[i].team] \in Nat
  <2> DEFINE t == pool[i].team
  <2>1. t \in DOMAIN real
    BY <1>1 DEF AllMeasured
  <2> HIDE DEF t
  <2>2. t \in DOMAIN route /\ real[t] \in Nat
    BY <2>1 DEF TypeOK
  <2>3. route[t] \in Paths
    BY <2>2 DEF TypeOK
  <2>4. route[t].dist \in Nat
    BY <2>3 DEF Paths
  <2> QED
    BY <2>2, <2>4 DEF t
<1>4. ASSUME NEW i \in 1..Len(pool)
      PROVE  /\ Entries[i].team = pool[i].team /\ Entries[i].team \in Teams
             /\ Entries[i].cases \in Nat /\ Entries[i].at = pool[i].at
             /\ Entries[i].dist \in Nat /\ Entries[i].real \in Nat
  <2>1. Entries[i] = Entry(pool[i])
    BY <1>1 DEF Entries
  <2>2. Entries[i].team = pool[i].team /\ Entries[i].cases = pool[i].cases
        /\ Entries[i].at = pool[i].at
    BY <2>1 DEF Entry
  <2>3. Entries[i].dist = route[pool[i].team].dist /\ Entries[i].real = real[pool[i].team]
    BY <2>1 DEF Entry
  <2> QED
    BY <1>2, <1>3, <2>2, <2>3
<1>5. DOMAIN Entries = DOMAIN pool
  BY DEF Entries
<1> QED
  BY <1>1, <1>4, <1>5

\* The values of a function on 1..n are finitely many.
LEMMA FiniteImage ==
    ASSUME NEW n \in Nat, NEW f, DOMAIN f = 1..n
    PROVE  IsFiniteSet({f[i] : i \in 1..n})
<1> DEFINE T == {f[i] : i \in 1..n}
           g == [i \in 1..n |-> f[i]]
<1>1. g \in Surjection(1..n, T)
  BY DEF Surjection
<1>2. IsFiniteSet(1..n)
  BY FS_Interval
<1> QED
  BY <1>1, <1>2, FS_Surjection

\* The units are what Math.max makes of range and threshold.
LEMMA UnitsAre ==
    ASSUME TypeOK, AllMeasured, pool # <<>>
    PROVE  /\ Min(Dists) \in Nat /\ Min(Times) \in Nat
           /\ DistUnit \in Int /\ DistUnit >= settings.delta
           /\ TimeUnit \in Nat \ {0}
<1> DEFINE n == Len(pool)
           dist == [i \in 1..n |-> Entries[i].dist]
           time == [i \in 1..n |-> Entries[i].real]
<1>1. /\ n \in Nat /\ DOMAIN pool = 1..n
      /\ \A i \in 1..n : Entries[i].dist \in Nat /\ Entries[i].real \in Nat
  BY EntriesAre
<1>2. n # 0
  BY EmptySeq DEF TypeOK
<1>3. Dists = {dist[i] : i \in 1..n} /\ Times = {time[i] : i \in 1..n}
  BY <1>1 DEF Dists, Times
<1>4. IsFiniteSet(Dists) /\ IsFiniteSet(Times)
  <2>1. DOMAIN dist = 1..n /\ DOMAIN time = 1..n
    OBVIOUS
  <2> HIDE DEF dist, time
  <2> QED
    BY <1>1, <1>3, <2>1, FiniteImage
<1>5. Dists \subseteq Nat /\ Times \subseteq Nat /\ Dists # {} /\ Times # {}
  BY <1>1, <1>2 DEF Dists, Times
<1>6. Dists \subseteq Int /\ Times \subseteq Int
  BY <1>5
<1>7. Min(Dists) \in Dists /\ Max(Dists) \in Dists /\ Min(Times) \in Times /\ Max(Times) \in Times
  BY <1>4, <1>5, <1>6, MinMaxIs
<1>8. Span(Dists) \in Int /\ Span(Times) \in Int
  <2>1. /\ Min(Dists) \in Int /\ Max(Dists) \in Int
        /\ Min(Times) \in Int /\ Max(Times) \in Int
    BY <1>6, <1>7
  <2> QED
    BY <2>1 DEF Span
<1>9. settings.delta \in Int
  BY CandidatesAssumption DEF TypeOK, SettingsOK
<1>10. DistUnit \in Int /\ DistUnit >= settings.delta
  BY <1>8, <1>9, LargerIs DEF DistUnit, Denominator
<1>11. TimeUnit \in Int /\ TimeUnit >= 5
  <2> DEFINE span == Span(Times)
             least == 5
  <2>1. span \in Int /\ least \in Int
    BY <1>8
  <2>2. TimeUnit = Max({span, least})
    BY DEF TimeUnit, Denominator
  <2> HIDE DEF span, least
  <2>3. TimeUnit \in Int /\ TimeUnit >= least
    BY <2>1, <2>2, LargerIs
  <2> QED
    BY <2>3 DEF least
<1>12. Min(Dists) \in Nat /\ Min(Times) \in Nat
  BY <1>5, <1>7
<1>13. TimeUnit \in Nat \ {0}
  BY <1>11
<1> QED
  BY <1>10, <1>12, <1>13

\* What the score of an entry needs.
Scorable(e) == /\ e.team \in Teams /\ e.cases \in Nat
               /\ e.dist \in Nat /\ e.real \in Nat

\* Scores are integers and capacities positive, so the comparison is a weak order.
LEMMA ScoreIs ==
    ASSUME TypeOK, AllMeasured, pool # <<>>, NEW e, Scorable(e)
    PROVE  Score(e) \in Int /\ Cap(e.team) \in Nat \ {0}
<1>1. Cap(e.team) \in Nat \ {0}
  BY CapIs DEF Scorable
<1>2. Load(e) \in Int /\ getSkillMismatch(e.team) \in Int
  BY LoadIs, MismatchIs DEF Scorable
<1>3. Min(Dists) \in Nat /\ Min(Times) \in Nat /\ DistUnit \in Int /\ TimeUnit \in Int
  BY UnitsAre
<1>4. Nearer(e.dist, Min(Dists), Max(Dists)) \in Int /\ e.real - Min(Times) \in Int
  BY <1>3 DEF Nearer, Scorable
<1>5. Score(e) = Nearer(e.dist, Min(Dists), Max(Dists)) * Weights4.dist * 10 * TimeUnit * Cap(e.team)
                 + (e.real - Min(Times)) * Weights4.duration * 10 * DistUnit * Cap(e.team)
                 + Load(e) * Weights4.cases * 10 * DistUnit * TimeUnit
                 + getSkillMismatch(e.team) * Weights4.skill * DistUnit * TimeUnit * Cap(e.team)
  BY DEF Score
<1>6. /\ Weights4.dist \in Int /\ Weights4.duration \in Int
      /\ Weights4.skill \in Int /\ Weights4.cases \in Int
  BY WeightsAre
<1> DEFINE k1 == Nearer(e.dist, Min(Dists), Max(Dists))
           k2 == e.real - Min(Times)
           k3 == Load(e)
           k4 == getSkillMismatch(e.team)
           w == Weights4
           cap == Cap(e.team)
<1>7. /\ k1 \in Int /\ k2 \in Int /\ k3 \in Int /\ k4 \in Int /\ cap \in Int
      /\ w.dist \in Int /\ w.duration \in Int /\ w.skill \in Int /\ w.cases \in Int
  BY <1>1, <1>2, <1>4, <1>6
<1>8. Score(e) = k1 * w.dist * 10 * TimeUnit * cap + k2 * w.duration * 10 * DistUnit * cap
                 + k3 * w.cases * 10 * DistUnit * TimeUnit
                 + k4 * w.skill * DistUnit * TimeUnit * cap
  BY <1>5
<1> HIDE DEF k1, k2, k3, k4, w, cap
<1>9. k1 * w.dist * 10 * TimeUnit * cap \in Int
  BY <1>3, <1>7, Products, 10 \in Int
<1>10. k2 * w.duration * 10 * DistUnit * cap \in Int
  BY <1>3, <1>7, Products, 10 \in Int
<1>11. k3 * w.cases * 10 * DistUnit * TimeUnit \in Int
  BY <1>3, <1>7, Products, 10 \in Int
<1>12. k4 * w.skill * DistUnit * TimeUnit * cap \in Int
  BY <1>3, <1>7, Products
<1> QED
  BY <1>1, <1>8, <1>9, <1>10, <1>11, <1>12

\* The ranking is a stable sort of the entries by their scores.
LEMMA RankedIs ==
    ASSUME TypeOK, AllMeasured, pool # <<>>
    PROVE  /\ DOMAIN Ranked = 1..Len(pool)
           /\ \A i \in 1..Len(pool) : \E k \in 1..Len(pool) : Ranked[i] = Entries[k]
           /\ \A k \in 1..Len(pool) : \E i \in 1..Len(pool) : Ranked[i] = Entries[k]
           /\ ~ScoresAreNaN => \A i, j \in 1..Len(pool) : i < j => ~Sooner(Ranked[j], Ranked[i])
<1> DEFINE n == Len(pool)
           sooner == InOrder
<1>1. n \in Nat /\ DOMAIN Entries = 1..n /\ \A i \in 1..n : Scorable(Entries[i])
  BY EntriesAre DEF Scorable
<1>2. \A i, j \in 1..n : <<i, j>> \in sooner <=> Sooner(Entries[i], Entries[j])
  <2> TAKE i, j \in 1..n
  <2> DEFINE pair == <<i, j>>
  <2>1. pair \in (DOMAIN Entries) \X (DOMAIN Entries) /\ pair[1] = i /\ pair[2] = j
    BY <1>1
  <2>2. pair \in InOrder <=> Sooner(Entries[pair[1]], Entries[pair[2]])
    <3> HIDE DEF pair
    <3> QED
      BY <2>1 DEF InOrder, Sooner
  <2> QED
    BY <2>1, <2>2
<1>3. \A i \in 1..n : Score(Entries[i]) \in Int /\ Cap(Entries[i].team) \in Nat \ {0}
  BY <1>1, ScoreIs
<1>4. Ranked = IF ScoresAreNaN THEN Entries ELSE SortedBy(Entries, sooner)
  BY DEF Ranked
<1> HIDE DEF sooner
<1>5. WeakOrder(sooner, 1..n)
  <2>1. ASSUME NEW i \in 1..n, NEW j \in 1..n, <<i, j>> \in sooner
        PROVE  <<j, i>> \notin sooner
    <3>1. Score(Entries[i]) * Cap(Entries[j].team) \in Int
          /\ Score(Entries[j]) * Cap(Entries[i].team) \in Int
      BY <1>3
    <3> QED
      BY <1>2, <2>1, <3>1 DEF Sooner
  <2>2. ASSUME NEW i \in 1..n, NEW j \in 1..n, NEW k \in 1..n, <<i, k>> \in sooner
        PROVE  <<i, j>> \in sooner \/ <<j, k>> \in sooner
    <3> DEFINE a == Score(Entries[i])  x == Cap(Entries[i].team)
               b == Score(Entries[j])  y == Cap(Entries[j].team)
               c == Score(Entries[k])  z == Cap(Entries[k].team)
    <3>1. /\ a \in Int /\ b \in Int /\ c \in Int
          /\ x \in Nat \ {0} /\ y \in Nat \ {0} /\ z \in Nat \ {0}
      BY <1>3
    <3>2. a * z < c * x
      BY <1>2, <2>2 DEF Sooner
    <3>3. /\ a * y < b * x => <<i, j>> \in sooner
          /\ b * z < c * y => <<j, k>> \in sooner
      BY <1>2 DEF Sooner
    <3> HIDE DEF a, b, c, x, y, z
    <3> QED
      BY <3>1, <3>2, <3>3, Fractions
  <2> QED
    BY <2>1, <2>2 DEF WeakOrder
<1>6. CASE ScoresAreNaN
  <2>1. Ranked = Entries
    BY <1>4, <1>6
  <2> QED
    BY <1>1, <1>6, <2>1
<1>7. CASE ~ScoresAreNaN
  <2> DEFINE es == Entries
  <2>1. n \in Nat /\ DOMAIN es = 1..n /\ WeakOrder(sooner, 1..n)
    BY <1>1, <1>5
  <2> HIDE DEF n, es
  <2>0. PICK p \in [1..n -> 1..n] : Sorts(SortedBy(es, sooner), p, n, es, sooner)
    BY <2>1, SortedIs
  <2>2. /\ SortedBy(es, sooner) = [i \in 1..n |-> es[p[i]]]
        /\ \A k \in 1..n : \E i \in 1..n : p[i] = k
        /\ \A i, j \in 1..n : i < j => <<p[j], p[i]>> \notin sooner
    BY <2>0 DEF Sorts
  <2>3. Ranked = [i \in 1..n |-> Entries[p[i]]]
    BY <1>4, <1>7, <2>2 DEF es
  <2>4. \A i \in 1..n : Ranked[i] = Entries[p[i]] /\ p[i] \in 1..n
    BY <2>3
  <2>5. \A i, j \in 1..n : i < j => ~Sooner(Ranked[j], Ranked[i])
    BY <1>2, <2>2, <2>4
  <2> QED
    BY <2>2, <2>3, <2>4, <2>5 DEF n
<1> QED
  BY <1>6, <1>7

\* The two sides of Sooner, criterion by criterion.
LEMMA Criteria ==
    ASSUME NEW k1 \in Int, NEW k2 \in Int, NEW k3 \in Int, NEW k4 \in Int,
           NEW w1 \in Int, NEW w2 \in Int, NEW w3 \in Int, NEW w4 \in Int,
           NEW d \in Int, NEW t \in Int, NEW x \in Int, NEW y \in Int
    PROVE  (k1 * w1 * 10 * t * x + k2 * w2 * 10 * d * x + k3 * w3 * 10 * d * t + k4 * w4 * d * t * x) * y
           = k1 * (w1 * (10 * t * x * y)) + k2 * (w2 * (10 * d * x * y))
             + (k3 * y) * (w3 * (10 * d * t)) + k4 * (w4 * (d * t * x * y))
OBVIOUS

\* A product of positive numbers and a weight is positive where the weight is.
LEMMA Weighed ==
    ASSUME NEW w \in Nat, NEW m \in Nat \ {0}
    PROVE  w * m \in Nat /\ (w * m > 0 => w > 0) /\ (w > 0 => w * m > 0)
<1>1. CASE w = 0
  BY <1>1
<1>2. CASE w > 0
  BY <1>2, Positive
<1> QED
  BY <1>1, <1>2

\* Settings are sound: scores are numbers, units positive and weights not negative.
LEMMA SoundIs ==
    ASSUME TypeOK, AllMeasured, pool # <<>>, SoundSettings
    PROVE  /\ ~ScoresAreNaN /\ DistUnit \in Nat \ {0} /\ TimeUnit \in Nat \ {0}
           /\ Weights4.dist \in Nat /\ Weights4.duration \in Nat
           /\ Weights4.skill \in Nat /\ Weights4.cases \in Nat
           /\ settings.delta \in Nat \ {0} /\ DistUnit >= settings.delta
<1>1. settings.delta \in Int
  BY CandidatesAssumption DEF TypeOK, SettingsOK
<1>2. settings.delta > 0
  BY DEF SoundSettings
<1>3. /\ DistUnit \in Int /\ DistUnit >= settings.delta
      /\ TimeUnit \in Nat \ {0}
  BY UnitsAre
<1>4. /\ Weights4.dist >= 0 /\ Weights4.duration >= 0
      /\ Weights4.skill >= 0 /\ Weights4.cases >= 0
  BY DEF SoundSettings
<1>5. /\ Weights4.dist \in Nat /\ Weights4.duration \in Nat
      /\ Weights4.skill \in Nat /\ Weights4.cases \in Nat
  BY <1>4, WeightsAre
<1>6. DistUnit \in Nat \ {0} /\ settings.delta \in Nat \ {0}
  BY <1>1, <1>2, <1>3
<1>7. ~ScoresAreNaN
  <2>1. NaN < 0
    BY DEF NaN
  <2>2. NaN \notin {settings.delta, Weights4.dist, Weights4.duration,
                    Weights4.skill, Weights4.cases}
    BY <1>5, <1>6, <2>1
  <2> QED
    BY <1>6, <2>2 DEF ScoresAreNaN
<1> QED
  BY <1>3, <1>5, <1>6, <1>7

\* Both sides of the comparison of two entries are the sums that Criteria takes apart.
Sum(e, y) ==
      (e.dist - Min(Dists)) * (Weights4.dist * (10 * TimeUnit * Cap(e.team) * y))
    + (e.real - Min(Times)) * (Weights4.duration * (10 * DistUnit * Cap(e.team) * y))
    + (Load(e) * y) * (Weights4.cases * (10 * DistUnit * TimeUnit))
    + getSkillMismatch(e.team) * (Weights4.skill * (DistUnit * TimeUnit * Cap(e.team) * y))

LEMMA SumIs ==
    ASSUME TypeOK, AllMeasured, pool # <<>>, NEW e, Scorable(e), NEW y \in Int
    PROVE  Score(e) * y = Sum(e, y)
<1>1. Cap(e.team) \in Int
  BY CapIs DEF Scorable
<1>2. Load(e) \in Int /\ getSkillMismatch(e.team) \in Int
  BY LoadIs, MismatchIs DEF Scorable
<1>3. Min(Dists) \in Nat /\ Min(Times) \in Nat /\ DistUnit \in Int /\ TimeUnit \in Int
  BY UnitsAre
<1>4. e.dist - Min(Dists) \in Int /\ e.real - Min(Times) \in Int
  BY <1>3 DEF Scorable
<1>5. /\ Weights4.dist \in Int /\ Weights4.duration \in Int
      /\ Weights4.skill \in Int /\ Weights4.cases \in Int
  BY WeightsAre
<1> DEFINE k1 == e.dist - Min(Dists)
           k2 == e.real - Min(Times)
           k3 == Load(e)
           k4 == getSkillMismatch(e.team)
           w1 == Weights4.dist
           w2 == Weights4.duration
           w3 == Weights4.cases
           w4 == Weights4.skill
           d == DistUnit
           t == TimeUnit
           x == Cap(e.team)
<1>6. Score(e) = k1 * w1 * 10 * t * x + k2 * w2 * 10 * d * x + k3 * w3 * 10 * d * t
                 + k4 * w4 * d * t * x
  BY DEF Score, Nearer
<1>7. Sum(e, y) = k1 * (w1 * (10 * t * x * y)) + k2 * (w2 * (10 * d * x * y))
                  + (k3 * y) * (w3 * (10 * d * t)) + k4 * (w4 * (d * t * x * y))
  BY DEF Sum
<1>8. /\ k1 \in Int /\ k2 \in Int /\ k3 \in Int /\ k4 \in Int
      /\ w1 \in Int /\ w2 \in Int /\ w3 \in Int /\ w4 \in Int
      /\ d \in Int /\ t \in Int /\ x \in Int
  BY <1>1, <1>2, <1>3, <1>4, <1>5
<1> HIDE DEF k1, k2, k3, k4, w1, w2, w3, w4, d, t, x
<1> QED
  BY <1>6, <1>7, <1>8, Criteria

\* What multiplies the criteria of two entries in the comparison, the same for both.
LEMMA FactorsAre ==
    ASSUME NEW d \in Nat \ {0}, NEW t \in Nat \ {0}, NEW x \in Nat \ {0}, NEW y \in Nat \ {0}
    PROVE  /\ 10 * t * x * y \in Nat \ {0} /\ 10 * d * x * y \in Nat \ {0}
           /\ 10 * d * t \in Nat \ {0} /\ d * t * x * y \in Nat \ {0}
           /\ 10 * t * x * y = 10 * t * y * x /\ 10 * d * x * y = 10 * d * y * x
           /\ d * t * x * y = d * t * y * x
<1>1. \A a, b \in Nat \ {0} : a * b \in Nat \ {0}
  BY Positive
<1>2. 10 * t \in Nat \ {0} /\ 10 * d \in Nat \ {0} /\ d * t \in Nat \ {0}
  BY <1>1
<1>3. 10 * t * x \in Nat \ {0} /\ 10 * d * x \in Nat \ {0}
      /\ d * t * x \in Nat \ {0} /\ 10 * d * t \in Nat \ {0}
  BY <1>1, <1>2
<1>4. 10 * t * x * y \in Nat \ {0} /\ 10 * d * x * y \in Nat \ {0}
      /\ d * t * x * y \in Nat \ {0}
  BY <1>1, <1>3
<1>5. 10 * t * x * y = 10 * t * y * x /\ 10 * d * x * y = 10 * d * y * x
      /\ d * t * x * y = d * t * y * x
  OBVIOUS
<1> QED
  BY <1>3, <1>4, <1>5

\* A sum of four criteria is smaller if none of them is larger, one is smaller, and
\* the factors are positive where they count.
LEMMA SumsAreOrdered ==
    ASSUME NEW a1 \in Int, NEW a2 \in Int, NEW a3 \in Int, NEW a4 \in Int,
           NEW b1 \in Int, NEW b2 \in Int, NEW b3 \in Int, NEW b4 \in Int,
           NEW k1 \in Nat, NEW k2 \in Nat, NEW k3 \in Nat, NEW k4 \in Nat,
           k1 > 0 => a1 <= b1, k2 > 0 => a2 <= b2, k3 > 0 => a3 <= b3, k4 > 0 => a4 <= b4,
           \/ k1 > 0 /\ a1 < b1
           \/ k2 > 0 /\ a2 < b2
           \/ k3 > 0 /\ a3 < b3
           \/ k4 > 0 /\ a4 < b4
    PROVE  a1 * k1 + a2 * k2 + a3 * k3 + a4 * k4 < b1 * k1 + b2 * k2 + b3 * k3 + b4 * k4
<1>1. /\ a1 * k1 <= b1 * k1 /\ (k1 > 0 /\ a1 < b1 => a1 * k1 < b1 * k1)
      /\ a2 * k2 <= b2 * k2 /\ (k2 > 0 /\ a2 < b2 => a2 * k2 < b2 * k2)
      /\ a3 * k3 <= b3 * k3 /\ (k3 > 0 /\ a3 < b3 => a3 * k3 < b3 * k3)
      /\ a4 * k4 <= b4 * k4 /\ (k4 > 0 /\ a4 < b4 => a4 * k4 < b4 * k4)
  BY Grows
<1> DEFINE p1 == a1 * k1  p2 == a2 * k2  p3 == a3 * k3  p4 == a4 * k4
           q1 == b1 * k1  q2 == b2 * k2  q3 == b3 * k3  q4 == b4 * k4
<1>2. /\ p1 \in Int /\ p2 \in Int /\ p3 \in Int /\ p4 \in Int
      /\ q1 \in Int /\ q2 \in Int /\ q3 \in Int /\ q4 \in Int
  OBVIOUS
<1>3. /\ p1 <= q1 /\ p2 <= q2 /\ p3 <= q3 /\ p4 <= q4
      /\ p1 < q1 \/ p2 < q2 \/ p3 < q3 \/ p4 < q4
  BY <1>1
<1> HIDE DEF p1, p2, p3, p4, q1, q2, q3, q4
<1>4. p1 + p2 + p3 + p4 < q1 + q2 + q3 + q4
  BY <1>2, <1>3
<1> QED
  BY <1>4 DEF p1, p2, p3, p4, q1, q2, q3, q4

\* A team that is nowhere worse and somewhere better comes sooner, whatever the other
\* candidates do to the units.
LEMMA BetterIsSooner ==
    ASSUME TypeOK, AllMeasured, pool # <<>>, SoundSettings,
           NEW a, Scorable(a), NEW b, Scorable(b), Dominates(a, b)
    PROVE  Sooner(a, b)
<1> DEFINE d == DistUnit
           t == TimeUnit
           x == Cap(a.team)
           y == Cap(b.team)
           w1 == Weights4.dist
           w2 == Weights4.duration
           w3 == Weights4.cases
           w4 == Weights4.skill
           ma == getSkillMismatch(a.team)
           mb == getSkillMismatch(b.team)
           la == Load(a)
           lb == Load(b)
           lo == Min(Dists)
           least == Min(Times)
           da == a.dist
           db == b.dist
           ra == a.real
           rb == b.real
<1>1. /\ d \in Nat \ {0} /\ t \in Nat \ {0}
      /\ w1 \in Nat /\ w2 \in Nat /\ w3 \in Nat /\ w4 \in Nat
  BY SoundIs
<1>2. x \in Nat \ {0} /\ y \in Nat \ {0}
  BY CapIs DEF Scorable
<1>3. ma \in Int /\ mb \in Int /\ la \in Int /\ lb \in Int /\ lo \in Int /\ least \in Int
  BY MismatchIs, LoadIs, UnitsAre DEF Scorable
<1>4. da \in Int /\ db \in Int /\ ra \in Int /\ rb \in Int
  BY DEF Scorable
<1>5. /\ w1 > 0 => ~(db < da)
      /\ w2 > 0 => ~(rb < ra)
      /\ w3 > 0 => ~(la * y > lb * x)
      /\ w4 > 0 => ~(mb < ma)
  BY DEF Dominates
<1>6. \/ w1 > 0 /\ da < db
      \/ w2 > 0 /\ ra < rb
      \/ w3 > 0 /\ lb * x > la * y
      \/ w4 > 0 /\ ma < mb
  BY DEF Dominates
<1> DEFINE a1 == da - lo
           b1 == db - lo
           a2 == ra - least
           b2 == rb - least
           a3 == la * y
           b3 == lb * x
           k1 == w1 * (10 * t * x * y)
           k2 == w2 * (10 * d * x * y)
           k3 == w3 * (10 * d * t)
           k4 == w4 * (d * t * x * y)
<1>7. Score(a) * y = a1 * k1 + a2 * k2 + a3 * k3 + ma * k4
  BY <1>2, SumIs DEF Sum
<1>8. Score(b) * x = b1 * k1 + b2 * k2 + b3 * k3 + mb * k4
  <2>1. Score(b) * x = Sum(b, x)
    BY <1>2, SumIs
  <2>2. Sum(b, x) = b1 * (w1 * (10 * t * y * x)) + b2 * (w2 * (10 * d * y * x))
                    + b3 * k3 + mb * (w4 * (d * t * y * x))
    BY DEF Sum
  <2> HIDE DEF b1, b2, b3, mb, w1, w2, w3, w4, d, t, x, y
  <2>3. /\ 10 * t * x * y = 10 * t * y * x /\ 10 * d * x * y = 10 * d * y * x
        /\ d * t * x * y = d * t * y * x
    BY <1>1, <1>2, FactorsAre
  <2> QED
    BY <2>1, <2>2, <2>3
<1>9. Sooner(a, b) <=> Score(a) * y < Score(b) * x
  BY DEF Sooner
<1>10. a3 \in Int /\ b3 \in Int
  <2> HIDE DEF la, lb, x, y
  <2> QED
    BY <1>2, <1>3
<1>11. a1 \in Int /\ b1 \in Int /\ a2 \in Int /\ b2 \in Int
  <2> HIDE DEF lo, least, da, db, ra, rb
  <2> QED
    BY <1>3, <1>4
<1>12. /\ k1 \in Nat /\ k2 \in Nat /\ k3 \in Nat /\ k4 \in Nat
       /\ (k1 > 0 <=> w1 > 0) /\ (k2 > 0 <=> w2 > 0)
       /\ (k3 > 0 <=> w3 > 0) /\ (k4 > 0 <=> w4 > 0)
  <2> DEFINE m1 == 10 * t * x * y
             m2 == 10 * d * x * y
             m3 == 10 * d * t
             m4 == d * t * x * y
  <2>1. m1 \in Nat \ {0} /\ m2 \in Nat \ {0} /\ m3 \in Nat \ {0} /\ m4 \in Nat \ {0}
    <3> HIDE DEF d, t, x, y
    <3> QED
      BY <1>1, <1>2, FactorsAre
  <2>2. k1 = w1 * m1 /\ k2 = w2 * m2 /\ k3 = w3 * m3 /\ k4 = w4 * m4
    OBVIOUS
  <2> HIDE DEF m1, m2, m3, m4, w1, w2, w3, w4, k1, k2, k3, k4
  <2> QED
    BY <1>1, <2>1, <2>2, Weighed
<1>13. /\ w1 > 0 => a1 <= b1
       /\ w2 > 0 => a2 <= b2
       /\ w3 > 0 => a3 <= b3
       /\ w4 > 0 => ma <= mb
  <2> HIDE DEF w1, w2, w3, w4, la, lb, ma, mb, lo, least, x, y, da, db, ra, rb
  <2> QED
    BY <1>3, <1>4, <1>5, <1>10
<1>14. \/ w1 > 0 /\ a1 < b1
       \/ w2 > 0 /\ a2 < b2
       \/ w3 > 0 /\ a3 < b3
       \/ w4 > 0 /\ ma < mb
  <2> HIDE DEF w1, w2, w3, w4, la, lb, ma, mb, lo, least, x, y, da, db, ra, rb
  <2> QED
    BY <1>3, <1>4, <1>6, <1>10
<1> HIDE DEF a1, b1, a2, b2, a3, b3, k1, k2, k3, k4, ma, mb, w1, w2, w3, w4, x, y
<1>15. /\ k1 > 0 => a1 <= b1
       /\ k2 > 0 => a2 <= b2
       /\ k3 > 0 => a3 <= b3
       /\ k4 > 0 => ma <= mb
  BY <1>12, <1>13
<1>16. \/ k1 > 0 /\ a1 < b1
       \/ k2 > 0 /\ a2 < b2
       \/ k3 > 0 /\ a3 < b3
       \/ k4 > 0 /\ ma < mb
  BY <1>12, <1>14
<1>17. a1 * k1 + a2 * k2 + a3 * k3 + ma * k4 < b1 * k1 + b2 * k2 + b3 * k3 + mb * k4
  BY <1>3, <1>10, <1>11, <1>12, <1>15, <1>16, SumsAreOrdered
<1> QED
  BY <1>7, <1>8, <1>9, <1>17

\* A gap within half the threshold counts for less than the skills.
LEMMA SkilledIsSooner ==
    ASSUME TypeOK, AllMeasured, pool # <<>>, SoundSettings,
           NEW a, Scorable(a), NEW b, Scorable(b),
           Weights4.dist < 2 * Weights4.skill,
           a.dist > b.dist, 2 * (a.dist - b.dist) <= settings.delta,
           a.real = b.real, Load(a) = 0, Load(b) = 0,
           getSkillMismatch(a.team) = 0, getSkillMismatch(b.team) = 10
    PROVE  Sooner(a, b)
<1> DEFINE d == DistUnit
           t == TimeUnit
           x == Cap(a.team)
           y == Cap(b.team)
           w1 == Weights4.dist
           w4 == Weights4.skill
           a1 == a.dist - Min(Dists)
           b1 == b.dist - Min(Dists)
           a2 == a.real - Min(Times)
           k2 == Weights4.duration * (10 * d * x * y)
           k3 == Weights4.cases * (10 * d * t)
           m == t * x * y
<1>1. /\ d \in Nat \ {0} /\ t \in Nat \ {0} /\ w1 \in Nat /\ w4 \in Nat
      /\ settings.delta \in Nat \ {0} /\ d >= settings.delta
      /\ Weights4.duration \in Int /\ Weights4.cases \in Int
  BY SoundIs
<1>2. x \in Nat \ {0} /\ y \in Nat \ {0}
  BY CapIs DEF Scorable
<1>3. a.dist \in Nat /\ b.dist \in Nat /\ Min(Dists) \in Nat /\ a.real \in Nat
  BY UnitsAre DEF Scorable
<1> DEFINE gap == a.dist - b.dist
<1>4. gap \in Nat \ {0} /\ 2 * gap <= d /\ w1 < 2 * w4
  <2> DEFINE da == a.dist
             db == b.dist
             delta == settings.delta
  <2>1. /\ da \in Nat /\ db \in Nat /\ da > db /\ 2 * (da - db) <= delta
        /\ delta \in Nat /\ d >= delta /\ d \in Nat
    BY <1>1, <1>3
  <2> HIDE DEF da, db, delta, d
  <2>2. da - db \in Nat \ {0} /\ 2 * (da - db) <= d
    BY <2>1
  <2> QED
    BY <2>2 DEF da, db
<1>5. Score(a) * y = a1 * (w1 * (10 * t * x * y)) + a2 * k2 + (0 * y) * k3
                     + 0 * (w4 * (d * t * x * y))
  BY <1>2, SumIs DEF Sum
<1>6. Score(b) * x = b1 * (w1 * (10 * t * y * x)) + a2 * (Weights4.duration * (10 * d * y * x))
                     + (0 * x) * k3 + 10 * (w4 * (d * t * y * x))
  BY <1>2, SumIs DEF Sum
<1>7. /\ 10 * t * x * y = 10 * t * y * x /\ 10 * d * x * y = 10 * d * y * x
      /\ d * t * x * y = d * t * y * x
  <2> HIDE DEF d, t, x, y
  <2> QED
    BY <1>1, <1>2, FactorsAre
<1>8. gap * w1 < d * w4
  <2> HIDE DEF gap, w1, w4, d
  <2>1. (2 * gap) * w1 <= d * w1
    BY <1>1, <1>4, Grows
  <2>2. w1 * d < (2 * w4) * d
    BY <1>1, <1>4, Grows
  <2> DEFINE gw == gap * w1
             dw == d * w4
             e == d * w1
  <2>3. gw \in Int /\ dw \in Int /\ e \in Int
    BY <1>1, <1>4
  <2>4. (2 * gap) * w1 = 2 * gw /\ w1 * d = e /\ (2 * w4) * d = 2 * dw
    BY <1>1, <1>4
  <2> HIDE DEF gw, dw, e
  <2>5. 2 * gw <= e /\ e < 2 * dw
    BY <2>1, <2>2, <2>4 DEF e
  <2> QED
    BY <2>3, <2>5 DEF gw, dw
<1>9. a1 = b1 + gap /\ a1 \in Int /\ b1 \in Int
  BY <1>3
<1>10. a2 \in Int
  BY <1>3, UnitsAre
<1>11. Sooner(a, b) <=> Score(a) * y < Score(b) * x
  BY DEF Sooner
<1> DEFINE ka == Weights4.duration
           kc == Weights4.cases
<1>12. ka \in Int /\ kc \in Int
  BY <1>1
<1> HIDE DEF d, t, x, y, w1, w4, a1, b1, a2, gap
<1>13. k2 \in Int /\ k3 \in Int
  <2> HIDE DEF ka, kc
  <2> QED
    BY <1>1, <1>2, <1>12
<1> HIDE DEF k2, k3
<1>14. m \in Nat \ {0}
  BY <1>1, <1>2, Positive
<1> DEFINE p == gap * w1
           q == d * w4
<1>15. p \in Int /\ q \in Int
  BY <1>1, <1>4
<1>16. p * (10 * m) < q * (10 * m)
  <2>1. 10 * m \in Nat \ {0}
    BY <1>14
  <2> HIDE DEF m, p, q
  <2> QED
    BY <1>8, <1>15, <2>1, Grows DEF p, q
<1>17. Score(a) * y = b1 * (w1 * (10 * t * x * y)) + a2 * k2 + p * (10 * m)
  <2>1. a1 * (w1 * (10 * t * x * y)) = b1 * (w1 * (10 * t * x * y)) + p * (10 * m)
    BY <1>1, <1>2, <1>4, <1>9
  <2>2. (0 * y) * k3 = 0 /\ 0 * (w4 * (d * t * x * y)) = 0
    BY <1>1, <1>2, <1>13
  <2> QED
    BY <1>1, <1>2, <1>4, <1>5, <1>9, <1>10, <1>13, <2>1, <2>2
<1>18. Score(b) * x = b1 * (w1 * (10 * t * x * y)) + a2 * k2 + q * (10 * m)
  <2>1. 10 * (w4 * (d * t * y * x)) = q * (10 * m)
    BY <1>1, <1>2
  <2>2. (0 * x) * k3 = 0
    BY <1>2, <1>13
  <2>3. a2 * (Weights4.duration * (10 * d * y * x)) = a2 * k2
    BY <1>7 DEF k2
  <2> QED
    BY <1>1, <1>2, <1>6, <1>7, <1>9, <1>10, <1>13, <2>1, <2>2, <2>3
<1> DEFINE r == b1 * (w1 * (10 * t * x * y)) + a2 * k2
           g == p * (10 * m)
           h == q * (10 * m)
<1>19. r \in Int /\ g \in Int /\ h \in Int
  BY <1>1, <1>2, <1>9, <1>10, <1>13, <1>14, <1>15
<1>20. Score(a) * y = r + g /\ Score(b) * x = r + h /\ g < h
  BY <1>16, <1>17, <1>18
<1> HIDE DEF r, g, h
<1> QED
  BY <1>11, <1>19, <1>20

-----------------------------------------------------------------------------
(* The pool.                                                               *)

\* The pool after a ring: what was there, and every free team within the ring.
LEMMA PoolWithIs ==
    ASSUME TypeOK, NEW radius, NEW new \in SetToSeqs(InRing(radius) \ Pooled)
    PROVE  LET all == PoolWith(new) IN
           /\ all \in Seq(Cands)
           /\ \A i \in DOMAIN pool : i \in DOMAIN all /\ all[i] = pool[i]
           /\ \A i \in DOMAIN all : \/ i \in DOMAIN pool
                                    \/ \E t \in InRing(radius) : all[i] = Candidate(t)
           /\ \A t \in InRing(radius) : \E i \in DOMAIN all : all[i].team = t
<1> DEFINE S == InRing(radius) \ Pooled
           m == Cardinality(S)
           tail == [i \in 1..m |-> Candidate(new[i])]
           all == PoolWith(new)
           n == Len(pool)
<1>1. S \subseteq Teams /\ InRing(radius) \subseteq Teams
  BY DEF InRing
<1>2. IsFiniteSet(S)
  BY <1>1, CandidatesAssumption, FS_Subset
<1>3. m \in Nat /\ new \in [1..m -> S] /\ \A t \in S : \E i \in 1..m : new[i] = t
  <2> HIDE DEF S
  <2> QED
    BY <1>2, SeqsAre DEF S, Lists
<1>4. \A t \in Teams : Candidate(t) \in Cands /\ Candidate(t).team = t
  <2> TAKE t \in Teams
  <2>1. team[t] \in Rows
    BY DEF TypeOK
  <2>2. team[t].at \in Nat /\ team[t].cases \in Nat
    BY <2>1 DEF Rows
  <2> QED
    BY <2>2 DEF Candidate, Cands
<1>5. \A i \in 1..m : new[i] \in S /\ new[i] \in Teams /\ new[i] \in InRing(radius)
  BY <1>1, <1>3
<1>6. all = pool \o tail
  <2>1. DOMAIN new = 1..m
    BY <1>3
  <2> QED
    BY <2>1 DEF PoolWith
<1> HIDE DEF S, m, all
<1>7. tail \in Seq(Cands) /\ Len(tail) = m /\ \A i \in 1..m : tail[i] = Candidate(new[i])
  <2>1. tail \in [1..m -> Cands]
    BY <1>4, <1>5
  <2> QED
    BY <1>3, <2>1
<1>8. pool \in Seq(Cands) /\ n \in Nat /\ DOMAIN pool = 1..n
  BY DEF TypeOK
<1> HIDE DEF tail, n
<1>9. /\ all \in Seq(Cands) /\ DOMAIN all = 1..(n + m)
      /\ \A i \in 1..n : all[i] = pool[i]
      /\ \A i \in 1..m : all[n + i] = tail[i]
  <2>1. /\ pool \o tail \in Seq(Cands) /\ Len(pool \o tail) = Len(pool) + Len(tail)
        /\ \A i \in 1..(Len(pool) + Len(tail)) :
              (pool \o tail)[i] = IF i <= Len(pool) THEN pool[i] ELSE tail[i - Len(pool)]
    BY <1>7, <1>8, ConcatProperties
  <2>2. /\ all \in Seq(Cands) /\ Len(all) = n + m
        /\ \A i \in 1..(n + m) : all[i] = IF i <= n THEN pool[i] ELSE tail[i - n]
    BY <1>6, <1>7, <2>1 DEF n
  <2>3. \A i \in 1..n : i \in 1..(n + m) /\ i <= n
    BY <1>3, <1>8
  <2>4. \A i \in 1..m : n + i \in 1..(n + m) /\ ~(n + i <= n) /\ (n + i) - n = i
    BY <1>3, <1>8
  <2> QED
    BY <2>2, <2>3, <2>4
<1>10. \A i \in 1..n : i \in 1..(n + m)
  BY <1>3, <1>8
<1>11. ASSUME NEW i \in 1..(n + m), i \notin 1..n
       PROVE  \E t \in InRing(radius) : all[i] = Candidate(t)
  <2>1. i - n \in 1..m /\ n + (i - n) = i
    BY <1>3, <1>8, <1>11
  <2>2. all[i] = Candidate(new[i - n]) /\ new[i - n] \in InRing(radius)
    BY <1>5, <1>7, <1>9, <2>1
  <2> QED
    BY <2>2
<1>12. ASSUME NEW t \in InRing(radius)
       PROVE  \E i \in 1..(n + m) : all[i].team = t
  <2>1. CASE t \in Pooled
    <3>1. PICK i \in 1..n : pool[i].team = t
      BY <1>8, <2>1 DEF Pooled
    <3> QED
      BY <1>9, <1>10, <3>1
  <2>2. CASE t \notin Pooled
    <3>1. PICK i \in 1..m : new[i] = t
      BY <1>3, <2>2 DEF S
    <3>2. n + i \in 1..(n + m) /\ all[n + i] = Candidate(t)
      BY <1>3, <1>7, <1>8, <1>9, <3>1
    <3> QED
      BY <1>1, <1>4, <3>2
  <2> QED
    BY <2>1, <2>2
<1> QED
  BY <1>8, <1>9, <1>10, <1>11, <1>12 DEF all

\* What is kept of the candidates: the nearest, and every candidate nearer than one kept.
LEMMA NearestIs ==
    ASSUME NEW found \in Seq(Cands), found # <<>>
    PROVE  /\ Nearest(found) \in Seq(Cands) /\ Nearest(found) # <<>>
           /\ \A i \in DOMAIN Nearest(found) : \E k \in DOMAIN found : Nearest(found)[i] = found[k]
           /\ \A i \in DOMAIN Nearest(found), k \in DOMAIN found :
                 found[k].at < Nearest(found)[i].at
                    => \E j \in DOMAIN Nearest(found) : Nearest(found)[j] = found[k]
<1> DEFINE n == Len(found)
           nearer == {q \in (1..n) \X (1..n) : found[q[1]].at < found[q[2]].at}
           s == SortedBy(found, nearer)
           m == Min({MaxCandidates, n})
<1>1. n \in Nat \ {0} /\ DOMAIN found = 1..n
  BY EmptySeq
<1>2. \A i \in 1..n : found[i] \in Cands /\ found[i].at \in Nat
  <2> TAKE i \in 1..n
  <2> DEFINE c == found[i]
  <2>1. c \in Cands
    BY <1>1
  <2> HIDE DEF c
  <2>2. c.at \in Nat
    BY <2>1 DEF Cands
  <2> QED
    BY <2>1, <2>2 DEF c
<1>3. \A i, j \in 1..n : <<i, j>> \in nearer <=> found[i].at < found[j].at
  OBVIOUS
<1>4. Nearest(found) = SubSeq(s, 1, m)
  BY <1>1 DEF Nearest
<1>5. m \in 1..n
  <2> DEFINE a == MaxCandidates
  <2>1. a \in Nat \ {0} /\ n \in Nat \ {0}
    BY <1>1, CandidatesAssumption
  <2>2. m = Min({a, n})
    OBVIOUS
  <2> HIDE DEF a, n, m
  <2>3. \E x \in {a, n} : \A y \in {a, n} : x <= y
    <3>1. a <= n \/ n <= a
      BY <2>1
    <3> QED
      BY <2>1, <3>1
  <2>4. m \in {a, n} /\ m <= n
    BY <2>2, <2>3 DEF Min
  <2> QED
    BY <2>1, <2>4
<1> DEFINE at == [i \in 1..n |-> found[i].at]
<1>5a. \A i \in 1..n : at[i] \in Nat /\ at[i] = found[i].at
  BY <1>2
<1>5b. \A i, j \in 1..n : <<i, j>> \in nearer <=> at[i] < at[j]
  BY <1>3, <1>5a
<1> HIDE DEF at
<1> HIDE DEF n, nearer, s, m
<1>6. WeakOrder(nearer, 1..n)
  <2>1. \A i, j \in 1..n : <<i, j>> \in nearer => <<j, i>> \notin nearer
    BY <1>5a, <1>5b
  <2>2. \A i, j, k \in 1..n :
           <<i, k>> \in nearer => <<i, j>> \in nearer \/ <<j, k>> \in nearer
    <3> TAKE i, j, k \in 1..n
    <3>1. at[i] \in Nat /\ at[j] \in Nat /\ at[k] \in Nat
      BY <1>5a
    <3>2. at[i] < at[k] => at[i] < at[j] \/ at[j] < at[k]
      BY <3>1
    <3> QED
      BY <1>5b, <3>2
  <2> QED
    BY <2>1, <2>2 DEF WeakOrder
<1>7. PICK p \in [1..n -> 1..n] : Sorts(s, p, n, found, nearer)
  BY <1>1, <1>6, SortedIs DEF s
<1>8. /\ s = [i \in 1..n |-> found[p[i]]]
      /\ \A k \in 1..n : \E i \in 1..n : p[i] = k
      /\ \A i, j \in 1..n : i < j => <<p[j], p[i]>> \notin nearer
  BY <1>7 DEF Sorts
<1>9. s \in [1..n -> Cands]
  BY <1>2, <1>8
<1>10. s \in Seq(Cands) /\ Len(s) = n
  BY <1>1, <1>9
<1> DEFINE kept == SubSeq(s, 1, m)
<1>11. /\ kept \in Seq(Cands) /\ DOMAIN kept = 1..m
       /\ \A i \in 1..m : kept[i] = s[i]
  BY <1>1, <1>5, <1>10
<1> HIDE DEF kept
<1>12. kept # <<>>
  <2>1. 1 \in DOMAIN kept
    BY <1>1, <1>5, <1>11
  <2> QED
    BY <2>1
<1>13. \A i \in 1..m : i \in 1..n /\ p[i] \in 1..n /\ kept[i] = found[p[i]]
  <2> TAKE i \in 1..m
  <2>1. i \in 1..n
    BY <1>1, <1>5
  <2>2. p[i] \in 1..n /\ s[i] = found[p[i]]
    BY <1>8, <2>1
  <2> QED
    BY <1>11, <2>1, <2>2
<1>14. ASSUME NEW i \in 1..m, NEW k \in 1..n, found[k].at < kept[i].at
       PROVE  \E j \in 1..m : kept[j] = found[k]
  <2>1. PICK j \in 1..n : p[j] = k
    BY <1>8
  <2>2. found[k].at < found[p[i]].at /\ i \in 1..n /\ p[i] \in 1..n
    BY <1>13, <1>14
  <2>3. <<p[j], p[i]>> \in nearer
    BY <1>3, <2>1, <2>2
  <2>4. ~(i < j) /\ i # j
    <3>1. ~(i < j)
      BY <1>8, <2>1, <2>2, <2>3
    <3>2. i # j
      BY <1>5a, <1>5b, <2>1, <2>2, <2>3
    <3> QED
      BY <3>1, <3>2
  <2>5. j \in 1..m
    BY <1>1, <1>5, <2>1, <2>2, <2>4
  <2> QED
    BY <1>13, <2>1, <2>5
<1>15. Nearest(found) = kept
  BY <1>4 DEF kept
<1> QED
  BY <1>1, <1>11, <1>12, <1>13, <1>14, <1>15

-----------------------------------------------------------------------------
(* The invariant.                                                          *)

Rings == 1..Len(parseRadiusSteps)

\* A ring before the k-th reaches as far as at.
Within(at, k) == \E r \in Rings : r < k /\ at <= parseRadiusSteps[r]

\* A candidate to whom nothing happened is where it was when it was found.
PoolIsTrue ==
    \A i \in DOMAIN pool : pool[i].team \in steady => pool[i].at = team[pool[i].team].at

\* While rings are asked: the pool holds nothing from beyond them, and all that stayed
\* free within them.
ScanIsComplete ==
    pc = "scan" =>
        /\ ring \in Rings
        /\ \A i \in DOMAIN pool : Within(pool[i].at, ring)
        /\ \A t \in steady : team[t].free /\ Within(team[t].at, ring) => t \in Pooled

\* Then: nobody nearer than a candidate kept has been left out.
NoneNearer ==
    pc # "scan" =>
        \A t \in steady : \A i \in DOMAIN pool :
            team[t].free /\ team[t].at < pool[i].at => t \in Pooled

Answers ==
    /\ pc # "done" => answer = Nobody
    /\ pc = "measure" => pool # <<>>
    /\ pc = "done" =>
         IF answer = Nobody
         THEN \A t \in steady : ~(team[t].free /\ Within(team[t].at, Len(parseRadiusSteps) + 1))
         ELSE answer = Ranked /\ AllMeasured /\ pool # <<>>

Inv == TypeOK /\ PoolIsTrue /\ ScanIsComplete /\ NoneNearer /\ Answers

\* The radii depend on the settings alone.
LEMMA StepsKept ==
    ASSUME settings' = settings
    PROVE  parseRadiusSteps' = parseRadiusSteps /\ Rings' = Rings
<1>1. parseRadiusSteps' = parseRadiusSteps
  BY DEF parseRadiusSteps
<1> QED
  BY <1>1 DEF Rings

\* The ranking depends on nothing but the settings and what was measured.
LEMMA RankedKept ==
    ASSUME UNCHANGED <<settings, pool, route, real>>
    PROVE  Ranked' = Ranked /\ (AllMeasured' <=> AllMeasured)
<1>1. TrafficEnabled' <=> TrafficEnabled
  BY DEF TrafficEnabled
<1>2. resolveWeights' = resolveWeights
  BY DEF resolveWeights
<1>3. Weights4' = Weights4
  BY <1>1, <1>2 DEF Weights4
<1>4. Entries' = Entries
  BY DEF Entries, Entry
<1>5. Dists' = Dists /\ Times' = Times
  BY <1>4 DEF Dists, Times
<1>6. DistUnit' = DistUnit /\ TimeUnit' = TimeUnit
  BY <1>5 DEF DistUnit, TimeUnit
<1>7. parseSkillMapping' = parseSkillMapping
  BY DEF parseSkillMapping
<1>8. ScoresAreNaN' <=> ScoresAreNaN
  BY <1>3, <1>6 DEF ScoresAreNaN
<1>9. InOrder' = InOrder
  BY <1>3, <1>4, <1>5, <1>6, <1>7 DEF InOrder, Sooner, Score, Nearer, getSkillMismatch
<1>10. Ranked' = Ranked
  BY <1>4, <1>8, <1>9 DEF Ranked
<1> QED
  BY <1>10 DEF AllMeasured

LEMMA InvInit ==
    ASSUME Init
    PROVE  Inv
<1>1. team \in [Teams -> Rows]
  <2>1. Places \subseteq Nat /\ {0} \subseteq Nat
    BY CandidatesAssumption
  <2>2. \A r \in [free : BOOLEAN, at : Places, cases : {0}] : r \in Rows
    BY <2>1 DEF Rows
  <2>3. team \in [Teams -> [free : BOOLEAN, at : Places, cases : {0}]]
    BY DEF Init
  <2> QED
    BY <2>2, <2>3
<1>2. TypeOK
  BY <1>1 DEF Init, TypeOK
<1>3. DOMAIN pool = {} /\ pc = "scan" /\ ring = 1 /\ answer = Nobody
  BY DEF Init
<1>4. 1 \in Rings
  BY <1>2, StepsAre DEF Rings
<1>5. \A at : ~Within(at, 1)
  BY <1>2, StepsAre DEF Within, Rings
<1> QED
  BY <1>2, <1>3, <1>4, <1>5 DEF Inv, PoolIsTrue, ScanIsComplete, NoneNearer, Answers

\* Asking one more ring keeps the search complete, and the cut to the nearest leaves
\* nobody out who is nearer than one who is kept.
LEMMA InvScans ==
    ASSUME Inv, Scans
    PROVE  Inv'
<1> DEFINE radius == parseRadiusSteps[ring]
           empty == InRing(radius) = {}
<1> USE DEF Inv
<1>1. /\ pc = "scan" /\ ring' = ring + 1
      /\ UNCHANGED <<settings, team, route, real, known, answer, steady, changes>>
  BY DEF Scans
<1>2. PICK new \in SetToSeqs(InRing(radius) \ Pooled) :
        LET candidates == PoolWith(new)
            good == ~empty /\ \E i \in DOMAIN candidates : Acceptable(candidates[i], radius)
            then == IF good THEN "measure" ELSE NextRing(candidates, empty)
        IN  /\ pc' = then
            /\ pool' = IF then = "measure" THEN Nearest(candidates) ELSE candidates
  BY DEF Scans
<1> DEFINE all == PoolWith(new)
           last == Len(parseRadiusSteps)
<1>3. /\ last \in Nat \ {0} /\ ring \in 1..last
      /\ \A k \in 1..last : parseRadiusSteps[k] \in Nat \ {0}
  BY <1>1, StepsAre DEF ScanIsComplete, Rings
<1>4. /\ all \in Seq(Cands)
      /\ \A i \in DOMAIN pool : i \in DOMAIN all /\ all[i] = pool[i]
      /\ \A i \in DOMAIN all : \/ i \in DOMAIN pool
                               \/ \E t \in InRing(radius) : all[i] = Candidate(t)
      /\ \A t \in InRing(radius) : \E i \in DOMAIN all : all[i].team = t
  <2> HIDE DEF radius
  <2> QED
    BY PoolWithIs
<1>5. \/ pc' = "measure" /\ pool' = Nearest(all) /\ all # <<>>
      \/ pc' = "scan" /\ pool' = all /\ ring < last
      \/ pc' = "done" /\ pool' = all /\ ~(ring < last) /\ all = <<>>
  <2> DEFINE good == ~empty /\ \E i \in DOMAIN all : Acceptable(all[i], radius)
             then == IF good THEN "measure" ELSE NextRing(all, empty)
  <2>1. pc' = then /\ pool' = IF then = "measure" THEN Nearest(all) ELSE all
    BY <1>2
  <2>2. CASE good
    <3>1. all # <<>>
      BY <2>2
    <3>2. then = "measure"
      BY <2>2
    <3> QED
      BY <2>1, <3>1, <3>2
  <2>3. CASE ~good
    <3>1. then = IF ring < last THEN "scan" ELSE IF all = <<>> THEN "done" ELSE "measure"
      BY <2>3 DEF NextRing
    <3> HIDE DEF then, all, last
    <3> QED
      BY <2>1, <3>1
  <2> QED
    BY <2>2, <2>3
<1> HIDE DEF all, last
<1>6. \A at : Within(at, ring + 1) <=> Within(at, ring) \/ at <= radius
  <2> TAKE at
  <2>1. \A r \in 1..last : r < ring + 1 <=> r < ring \/ r = ring
    BY <1>3
  <2>2. Within(at, ring + 1) <=> \E r \in 1..last : r < ring + 1 /\ at <= parseRadiusSteps[r]
    BY DEF Within, Rings, last
  <2>3. Within(at, ring) <=> \E r \in 1..last : r < ring /\ at <= parseRadiusSteps[r]
    BY DEF Within, Rings, last
  <2> QED
    BY <1>3, <2>1, <2>2, <2>3
<1>7. parseRadiusSteps' = parseRadiusSteps /\ Rings' = Rings /\ last' = last
  BY <1>1, StepsKept DEF last
<1>8. \A i \in DOMAIN all : all[i].team \in steady => all[i].at = team[all[i].team].at
  <2> TAKE i \in DOMAIN all
  <2>1. CASE i \in DOMAIN pool
    BY <1>4, <2>1 DEF PoolIsTrue
  <2>2. CASE \E t \in InRing(radius) : all[i] = Candidate(t)
    BY <2>2 DEF Candidate
  <2> QED
    BY <1>4, <2>1, <2>2
<1>9. \A i \in DOMAIN all : Within(all[i].at, ring + 1)
  <2> TAKE i \in DOMAIN all
  <2>1. CASE i \in DOMAIN pool
    BY <1>1, <1>4, <1>6, <2>1 DEF ScanIsComplete
  <2>2. CASE \E t \in InRing(radius) : all[i] = Candidate(t)
    <3>1. PICK t \in InRing(radius) : all[i] = Candidate(t)
      BY <2>2
    <3>2. all[i].at <= radius
      BY <3>1 DEF Candidate, InRing
    <3> QED
      BY <1>6, <3>2
  <2> QED
    BY <1>4, <2>1, <2>2
<1>10. ASSUME NEW t \in steady, team[t].free, Within(team[t].at, ring + 1)
       PROVE  \E i \in DOMAIN all : all[i].team = t
  <2>1. CASE Within(team[t].at, ring)
    <3>1. t \in Pooled
      BY <1>1, <1>10, <2>1 DEF ScanIsComplete
    <3>2. PICK i \in DOMAIN pool : pool[i].team = t
      BY <3>1 DEF Pooled
    <3> QED
      BY <1>4, <3>2
  <2>2. CASE team[t].at <= radius
    <3>1. t \in InRing(radius)
      BY <1>10, <2>2 DEF InRing, TypeOK
    <3> QED
      BY <1>4, <3>1
  <2> QED
    BY <1>6, <1>10, <2>1, <2>2
<1>11. /\ answer' = Nobody /\ steady' = steady /\ team' = team
       /\ Pooled' = {pool'[i].team : i \in DOMAIN pool'}
       /\ \A at, k : Within(at, k)' <=> Within(at, k)
  BY <1>1, <1>7 DEF Answers, Pooled, Within
<1>12. CASE pc' = "scan" /\ pool' = all /\ ring < last
  <2>1. TypeOK'
    BY <1>1, <1>4, <1>12 DEF TypeOK
  <2>2. PoolIsTrue'
    BY <1>8, <1>11, <1>12 DEF PoolIsTrue
  <2>3. ring' \in Rings'
    BY <1>1, <1>3, <1>7, <1>12 DEF Rings, last
  <2>4. ScanIsComplete'
    BY <1>1, <1>9, <1>10, <1>11, <1>12, <2>3 DEF ScanIsComplete
  <2>5. NoneNearer' /\ Answers'
    BY <1>11, <1>12 DEF NoneNearer, Answers
  <2> QED
    BY <2>1, <2>2, <2>4, <2>5
<1>13. CASE pc' = "measure" /\ pool' = Nearest(all) /\ all # <<>>
  <2>1. /\ pool' \in Seq(Cands) /\ pool' # <<>>
        /\ \A i \in DOMAIN pool' : \E k \in DOMAIN all : pool'[i] = all[k]
        /\ \A i \in DOMAIN pool', k \in DOMAIN all :
              all[k].at < pool'[i].at => \E j \in DOMAIN pool' : pool'[j] = all[k]
    BY <1>4, <1>13, NearestIs
  <2>2. TypeOK'
    BY <1>1, <1>13, <2>1 DEF TypeOK
  <2>3. PoolIsTrue'
    <3>1. \A i \in DOMAIN pool' :
             pool'[i].team \in steady => pool'[i].at = team[pool'[i].team].at
      BY <1>8, <2>1
    <3> QED
      BY <1>11, <3>1 DEF PoolIsTrue
  <2>4. ASSUME NEW t \in steady, NEW i \in DOMAIN pool', team[t].free, team[t].at < pool'[i].at
        PROVE  \E j \in DOMAIN pool' : pool'[j].team = t
    <3>1. PICK k \in DOMAIN all : pool'[i] = all[k]
      BY <2>1
    <3>2. Within(team[t].at, ring + 1)
      <4>1. PICK r \in Rings : r < ring + 1 /\ all[k].at <= parseRadiusSteps[r]
        BY <1>9 DEF Within
      <4>2. parseRadiusSteps[r] \in Nat
        BY <1>3, <4>1 DEF Rings, last
      <4>3. all[k].at \in Nat
        <5> DEFINE c == all[k]
        <5>1. c \in Cands
          BY <1>4, <3>1
        <5> HIDE DEF c
        <5>2. c.at \in Nat
          BY <5>1 DEF Cands
        <5> QED
          BY <5>2 DEF c
      <4>4. team[t].at \in Nat
        <5>1. team[t] \in Rows
          BY DEF TypeOK
        <5> QED
          BY <5>1 DEF Rows
      <4>5. team[t].at <= parseRadiusSteps[r]
        <5> DEFINE x == team[t].at
                   y == all[k].at
                   z == parseRadiusSteps[r]
        <5>1. x \in Nat /\ y \in Nat /\ z \in Nat /\ x < y /\ y <= z
          BY <2>4, <3>1, <4>1, <4>2, <4>3, <4>4
        <5> HIDE DEF x, y, z
        <5>2. x <= z
          BY <5>1
        <5> QED
          BY <5>2 DEF x, z
      <4> QED
        BY <4>1, <4>5 DEF Within
    <3>3. PICK m \in DOMAIN all : all[m].team = t
      BY <1>10, <2>4, <3>2
    <3>4. all[m].at = team[t].at
      BY <1>8, <3>3
    <3>5. PICK j \in DOMAIN pool' : pool'[j] = all[m]
      BY <2>1, <2>4, <3>4
    <3> QED
      BY <3>3, <3>5
  <2>5. NoneNearer'
    BY <1>11, <2>4 DEF NoneNearer
  <2>6. ScanIsComplete' /\ Answers'
    BY <1>11, <1>13, <2>1 DEF ScanIsComplete, Answers
  <2> QED
    BY <2>2, <2>3, <2>5, <2>6
<1>14. CASE pc' = "done" /\ pool' = all /\ ~(ring < last) /\ all = <<>>
  <2>1. TypeOK'
    BY <1>1, <1>4, <1>14 DEF TypeOK
  <2>2. DOMAIN pool' = {} /\ DOMAIN all = {}
    BY <1>14
  <2>3. PoolIsTrue' /\ NoneNearer' /\ ScanIsComplete'
    BY <1>14, <2>2 DEF PoolIsTrue, NoneNearer, ScanIsComplete
  <2>4. ring = last
    BY <1>3, <1>14
  <2>5. \A t \in steady : ~(team[t].free /\ Within(team[t].at, last + 1))
    BY <1>10, <2>2, <2>4
  <2>6. Answers'
    BY <1>7, <1>11, <1>14, <2>5 DEF Answers, last
  <2> QED
    BY <2>1, <2>3, <2>6
<1> QED
  BY <1>5, <1>12, <1>13, <1>14

\* A step that leaves teams, pool and answer alone keeps all but the types.
LEMMA InvKept ==
    ASSUME Inv, UNCHANGED <<settings, team, pc, ring, pool, answer, steady>>,
           pc # "done" \/ UNCHANGED <<route, real>>
    PROVE  PoolIsTrue' /\ ScanIsComplete' /\ NoneNearer' /\ Answers'
<1>1. parseRadiusSteps' = parseRadiusSteps /\ Rings' = Rings /\ Pooled' = Pooled
  BY StepsKept DEF Pooled
<1>2. \A at, k : Within(at, k)' <=> Within(at, k)
  BY <1>1 DEF Within
<1>3. PoolIsTrue' /\ NoneNearer'
  BY <1>1 DEF Inv, PoolIsTrue, NoneNearer
<1>4. ScanIsComplete'
  BY <1>1, <1>2 DEF Inv, ScanIsComplete
<1>5. Answers'
  <2>1. CASE pc # "done"
    BY <2>1 DEF Inv, Answers
  <2>2. CASE UNCHANGED <<route, real>>
    <3>1. Ranked' = Ranked /\ (AllMeasured' <=> AllMeasured)
      BY <2>2, RankedKept
    <3> QED
      BY <1>1, <1>2, <3>1 DEF Inv, Answers
  <2> QED
    BY <2>1, <2>2
<1> QED
  BY <1>3, <1>4, <1>5

\* A candidate of the pool, its fields and its team's route.
LEMMA MeasuredIs ==
    ASSUME TypeOK, NEW c \in Measured
    PROVE  /\ c.team \in Teams /\ c.at \in Nat
           /\ c.team \in DOMAIN route => route[c.team].ideal \in Nat
<1>1. c \in Cands
  BY DEF TypeOK, Measured
<1>2. c.team \in Teams /\ c.at \in Nat
  BY <1>1 DEF Cands
<1>3. c.team \in DOMAIN route => route[c.team].ideal \in Nat
  BY DEF TypeOK, Paths
<1> QED
  BY <1>2, <1>3

\* A route is a distance and a time, whether a service answers or not.
LEMMA InvRoutes ==
    ASSUME Inv, NEW c \in Measured, ProviderAnswers(c) \/ ProviderFails(c)
    PROVE  Inv'
<1>1. c.at \in Nat
  BY MeasuredIs DEF Inv
<1>2. PICK km \in Nat, minutes \in Nat : Routes(c, km, minutes)
  <2>1. CASE ProviderAnswers(c)
    <3>1. PICK more \in Detours, minutes \in Minutes : Routes(c, c.at + more, minutes)
      BY <2>1 DEF ProviderAnswers
    <3>2. c.at + more \in Nat /\ minutes \in Nat
      BY <1>1, CandidatesAssumption
    <3> QED
      BY <3>1, <3>2
  <2>2. CASE ProviderFails(c)
    <3>1. c.at \in Nat /\ Straight(c.at) \in Nat
      BY <1>1 DEF Straight
    <3> QED
      BY <2>2, <3>1 DEF ProviderFails
  <2> QED
    BY <2>1, <2>2
<1>3. /\ pc = "measure"
      /\ UNCHANGED <<settings, team, pc, ring, pool, real, known, answer, steady>>
  BY <1>2 DEF Routes
<1>4. PoolIsTrue' /\ ScanIsComplete' /\ NoneNearer' /\ Answers'
  BY <1>3, InvKept
<1>5. \A t \in DOMAIN route' : route'[t] \in Paths
  <2> DEFINE path == [dist |-> km, ideal |-> minutes]
  <2>1. path \in Paths
    BY DEF Paths
  <2> HIDE DEF path
  <2>2. route' = With(route, c.team, path)
    BY <1>2 DEF Routes, path
  <2> QED
    BY <2>1, <2>2 DEF Inv, TypeOK, With
<1>6. DOMAIN route \subseteq DOMAIN route'
  BY <1>2 DEF Routes, With
<1>7. TypeOK'
  BY <1>3, <1>5, <1>6 DEF Inv, TypeOK
<1> QED
  BY <1>4, <1>7 DEF Inv

\* Only a team with a route gets a travel time.
LEMMA InvTravels ==
    ASSUME Inv, NEW c \in Measured,
           NoTraffic(c) \/ TomTomFails(c) \/ TomTomAnswers(c) \/ TakesKnownTime(c)
    PROVE  Inv'
<1>1. /\ c.at \in Nat
      /\ c.team \in DOMAIN route => route[c.team].ideal \in Nat
  BY MeasuredIs DEF Inv
<1>2. PICK minutes \in Nat : /\ Travels(c, minutes)
                             /\ \/ UNCHANGED known
                                \/ known' = With(known, c.at, minutes)
  <2>1. CASE NoTraffic(c) \/ TomTomFails(c)
    <3>1. Travels(c, route[c.team].ideal) /\ UNCHANGED known
      BY <2>1 DEF NoTraffic, TomTomFails
    <3>2. c.team \in DOMAIN route
      BY <3>1 DEF Travels
    <3> QED
      BY <1>1, <3>1, <3>2
  <2>2. CASE TomTomAnswers(c)
    <3>1. PICK minutes \in Minutes : Travels(c, minutes) /\ known' = With(known, c.at, minutes)
      BY <2>2 DEF TomTomAnswers
    <3>2. minutes \in Nat
      BY CandidatesAssumption
    <3> QED
      BY <3>1, <3>2
  <2>3. CASE TakesKnownTime(c)
    <3>1. known[c.at] \in Nat
      BY <2>3 DEF TakesKnownTime, Inv, TypeOK
    <3> QED
      BY <2>3, <3>1 DEF TakesKnownTime
  <2> QED
    BY <2>1, <2>2, <2>3
<1>3. /\ pc = "measure" /\ c.team \in DOMAIN route
      /\ UNCHANGED <<settings, team, pc, ring, pool, route, answer, steady>>
  BY <1>2 DEF Travels
<1>4. PoolIsTrue' /\ ScanIsComplete' /\ NoneNearer' /\ Answers'
  BY <1>3, InvKept
<1>5. \A t \in DOMAIN real' : t \in DOMAIN route' /\ real'[t] \in Nat
  BY <1>2, <1>3 DEF Travels, With, Inv, TypeOK
<1>6. \A at \in DOMAIN known' : known'[at] \in Nat
  BY <1>2 DEF With, Inv, TypeOK
<1>7. TypeOK'
  BY <1>3, <1>5, <1>6 DEF Inv, TypeOK
<1> QED
  BY <1>4, <1>7 DEF Inv

\* What is ranked is the measured pool, which is not empty.
LEMMA InvRanks ==
    ASSUME Inv, Ranks
    PROVE  Inv'
<1>1. /\ pc = "measure" /\ pc' = "done" /\ DOMAIN real = Kept /\ answer' = Ranked
      /\ UNCHANGED <<settings, team, ring, pool, route, real, known, steady, changes>>
  BY DEF Ranks
<1>2. TypeOK /\ pool # <<>>
  BY <1>1 DEF Inv, Answers
<1>3. AllMeasured
  BY <1>1 DEF AllMeasured, Kept, Measured
<1>4. Ranked' = Ranked /\ (AllMeasured' <=> AllMeasured)
  BY <1>1, RankedKept
<1>5. answer' # Nobody
  <2>1. DOMAIN Ranked = 1..Len(pool)
    BY <1>2, <1>3, RankedIs
  <2>2. Len(pool) \in Nat \ {0}
    BY <1>2, EmptySeq DEF TypeOK
  <2>3. 1 \in DOMAIN Ranked
    BY <2>1, <2>2
  <2> QED
    BY <1>1, <2>3 DEF Nobody
<1>6. TypeOK'
  BY <1>1, <1>2 DEF TypeOK
<1>7. PoolIsTrue' /\ ScanIsComplete'
  BY <1>1 DEF Inv, PoolIsTrue, ScanIsComplete
<1>8. NoneNearer'
  <2>1. Pooled' = Pooled
    BY <1>1 DEF Pooled
  <2> QED
    BY <1>1, <2>1 DEF Inv, NoneNearer
<1>9. Answers'
  BY <1>1, <1>2, <1>3, <1>4, <1>5 DEF Answers
<1> QED
  BY <1>6, <1>7, <1>8, <1>9 DEF Inv

\* Whatever happens to a team, it is no longer one to whom nothing happened.
LEMMA InvChanges ==
    ASSUME Inv, NEW t \in Teams, TakesCase(t) \/ ComesBack(t) \/ Moves(t)
    PROVE  Inv'
<1>1. team[t] \in Rows
  BY DEF Inv, TypeOK
<1>2. PICK row \in Rows : Changes(t, row)
  <2>1. CASE TakesCase(t)
    <3>1. [team[t] EXCEPT !.free = FALSE, !.cases = @ + 1] \in Rows
      <4> DEFINE r == team[t]
      <4>1. r \in Rows
        BY <1>1
      <4> HIDE DEF r
      <4>2. r.cases \in Nat
        BY <4>1 DEF Rows
      <4>3. r.cases + 1 \in Nat
        BY <4>2
      <4>4. [r EXCEPT !.free = FALSE, !.cases = r.cases + 1] \in Rows
        BY <4>1, <4>3 DEF Rows
      <4>5. [r EXCEPT !.free = FALSE, !.cases = @ + 1]
              = [r EXCEPT !.free = FALSE, !.cases = r.cases + 1]
        BY <4>1 DEF Rows
      <4> QED
        BY <4>4, <4>5 DEF r
    <3> QED
      BY <2>1, <3>1 DEF TakesCase
  <2>2. CASE ComesBack(t)
    <3>1. [team[t] EXCEPT !.free = TRUE] \in Rows
      BY <1>1 DEF Rows
    <3> QED
      BY <2>2, <3>1 DEF ComesBack
  <2>3. CASE Moves(t)
    <3>1. PICK at \in Places : Changes(t, [team[t] EXCEPT !.at = at])
      BY <2>3 DEF Moves
    <3>2. at \in Nat
      BY CandidatesAssumption
    <3>3. [team[t] EXCEPT !.at = at] \in Rows
      <4> DEFINE r == team[t]
      <4>1. r \in Rows
        BY <1>1
      <4> HIDE DEF r
      <4>2. [r EXCEPT !.at = at] \in Rows
        BY <3>2, <4>1 DEF Rows
      <4> QED
        BY <4>2 DEF r
    <3> QED
      BY <3>1, <3>3
  <2> QED
    BY <2>1, <2>2, <2>3
<1>3. /\ pc = "scan" /\ team' = [team EXCEPT ![t] = row] /\ steady' = steady \ {t}
      /\ UNCHANGED <<settings, pc, ring, pool, route, real, known, answer>>
  BY <1>2 DEF Changes
<1>4. TypeOK'
  <2>1. team' \in [Teams -> Rows] /\ steady' \in SUBSET Teams
    BY <1>3 DEF Inv, TypeOK
  <2> QED
    BY <1>3, <2>1 DEF Inv, TypeOK
<1>5. \A s \in steady' : s \in steady /\ team'[s] = team[s]
  BY <1>3 DEF Inv, TypeOK
<1>6. PoolIsTrue'
  BY <1>3, <1>5 DEF Inv, PoolIsTrue
<1>7. ScanIsComplete'
  <2>1. parseRadiusSteps' = parseRadiusSteps /\ Rings' = Rings /\ Pooled' = Pooled
    BY <1>3, StepsKept DEF Pooled
  <2>2. \A at, k : Within(at, k)' <=> Within(at, k)
    BY <2>1 DEF Within
  <2>3. ring \in Rings /\ \A i \in DOMAIN pool : Within(pool[i].at, ring)
    BY <1>3 DEF Inv, ScanIsComplete
  <2>4. \A s \in steady' : team'[s].free /\ Within(team'[s].at, ring) => s \in Pooled
    BY <1>3, <1>5 DEF Inv, ScanIsComplete
  <2> QED
    BY <1>3, <2>1, <2>2, <2>3, <2>4 DEF ScanIsComplete
<1>8. NoneNearer' /\ Answers'
  BY <1>3 DEF Inv, NoneNearer, Answers
<1> QED
  BY <1>4, <1>6, <1>7, <1>8 DEF Inv

LEMMA InvNext ==
    ASSUME Inv, [Next]_vars
    PROVE  Inv'
<1>1. CASE Scans
  BY <1>1, InvScans
<1>2. CASE \E c \in Measured : ProviderAnswers(c) \/ ProviderFails(c)
  BY <1>2, InvRoutes
<1>3. CASE \E c \in Measured :
             NoTraffic(c) \/ TomTomFails(c) \/ TomTomAnswers(c) \/ TakesKnownTime(c)
  BY <1>3, InvTravels
<1>4. CASE Ranks
  BY <1>4, InvRanks
<1>5. CASE \E t \in Teams : TakesCase(t) \/ ComesBack(t) \/ Moves(t)
  BY <1>5, InvChanges
<1>6. CASE UNCHANGED vars
  <2>1. PoolIsTrue' /\ ScanIsComplete' /\ NoneNearer' /\ Answers'
    BY <1>6, InvKept DEF vars
  <2>2. TypeOK'
    BY <1>6 DEF vars, Inv, TypeOK
  <2> QED
    BY <2>1, <2>2 DEF Inv
<1> QED
  BY <1>1, <1>2, <1>3, <1>4, <1>5, <1>6 DEF Next

\* The invariant of the search: types, what the pool holds and leaves out, and what the
\* answer is made of.
THEOREM CandidatesInvariant == Spec => []Inv
<1>1. Init => Inv
  BY InvInit
<1>2. Inv /\ [Next]_vars => Inv'
  BY InvNext
<1> QED
  BY <1>1, <1>2, PTL DEF Spec

-----------------------------------------------------------------------------
(* What the answer promises.                                               *)

\* assignTeam returns null only if no team that was free all the time was in reach.
THEOREM NobodyOverlooked == Spec => []NoneMeansNone
<1>1. Inv => NoneMeansNone
  <2> SUFFICES ASSUME Inv, pc = "done", answer = Nobody, NEW t \in steady, team[t].free
               PROVE  team[t].at > Largest
    BY DEF NoneMeansNone
  <2> DEFINE n == Len(parseRadiusSteps)
             at == team[t].at
  <2>1. /\ n \in Nat \ {0} /\ DOMAIN parseRadiusSteps = 1..n
        /\ \A k \in 1..n : parseRadiusSteps[k] \in Nat \ {0}
    BY StepsAre DEF Inv
  <2>2. at \in Nat
    <3>1. team[t] \in Rows
      BY DEF Inv, TypeOK
    <3> QED
      BY <3>1 DEF Rows
  <2>3. ~Within(at, n + 1)
    BY DEF Inv, Answers
  <2> HIDE DEF at, n
  <2>4. \A k \in 1..n : k < n + 1 /\ ~(at <= parseRadiusSteps[k])
    BY <2>1, <2>3 DEF Within, Rings, n
  <2> DEFINE S == {parseRadiusSteps[k] : k \in 1..n}
  <2>5. Range(parseRadiusSteps) = S
    BY <2>1 DEF Range
  <2>6. IsFiniteSet(S)
    BY <2>1, FiniteImage
  <2>7. S \subseteq Int /\ S # {}
    BY <2>1
  <2> HIDE DEF S
  <2>8. Max(S) \in S
    BY <2>6, <2>7, MinMaxIs
  <2>9. PICK k \in 1..n : Max(S) = parseRadiusSteps[k]
    BY <2>8 DEF S
  <2>10. at > Max(S)
    BY <2>1, <2>2, <2>4, <2>9
  <2> QED
    BY <2>5, <2>10 DEF Largest, at
<1> QED
  BY <1>1, CandidatesInvariant, PTL

\* What an answer with teams is: the ranking of the measured pool.
LEMMA AnswerIs ==
    ASSUME Inv, Answered
    PROVE  /\ TypeOK /\ AllMeasured /\ pool # <<>> /\ answer = Ranked
           /\ DOMAIN answer = 1..Len(pool) /\ DOMAIN pool = 1..Len(pool)
           /\ \A i \in 1..Len(pool) : /\ Scorable(answer[i])
                                      /\ \E k \in 1..Len(pool) : answer[i].at = pool[k].at
           /\ \A k \in 1..Len(pool) : \E i \in 1..Len(pool) : answer[i].team = pool[k].team
           /\ ~ScoresAreNaN =>
                 \A i, j \in 1..Len(pool) : i < j => ~Sooner(answer[j], answer[i])
<1>1. TypeOK /\ AllMeasured /\ pool # <<>> /\ answer = Ranked
  BY DEF Inv, Answers, Answered
<1>2. /\ DOMAIN answer = 1..Len(pool) /\ DOMAIN pool = 1..Len(pool)
      /\ \A i \in 1..Len(pool) : \E k \in 1..Len(pool) : answer[i] = Entries[k]
      /\ \A k \in 1..Len(pool) : \E i \in 1..Len(pool) : answer[i] = Entries[k]
      /\ ~ScoresAreNaN =>
            \A i, j \in 1..Len(pool) : i < j => ~Sooner(answer[j], answer[i])
  BY <1>1, RankedIs, EntriesAre
<1>3. \A k \in 1..Len(pool) : /\ Scorable(Entries[k]) /\ Entries[k].at = pool[k].at
                              /\ Entries[k].team = pool[k].team
  BY <1>1, EntriesAre DEF Scorable
<1>4. ASSUME NEW i \in 1..Len(pool)
      PROVE  Scorable(answer[i]) /\ \E k \in 1..Len(pool) : answer[i].at = pool[k].at
  <2>1. PICK k \in 1..Len(pool) : answer[i] = Entries[k]
    BY <1>2
  <2>2. Scorable(Entries[k]) /\ Entries[k].at = pool[k].at
    BY <1>3
  <2> QED
    BY <2>1, <2>2
<1>5. ASSUME NEW k \in 1..Len(pool)
      PROVE  \E i \in 1..Len(pool) : answer[i].team = pool[k].team
  <2>1. PICK i \in 1..Len(pool) : answer[i] = Entries[k]
    BY <1>2
  <2>2. Entries[k].team = pool[k].team
    BY <1>3
  <2> QED
    BY <2>1, <2>2
<1> QED
  BY <1>1, <1>2, <1>4, <1>5

\* No team that was free all the time is passed over for one that was found farther away.
THEOREM NobodyPassedOver == Spec => []NearestConsidered
<1>1. Inv => NearestConsidered
  <2> SUFFICES ASSUME Inv, Answered, NEW t \in steady, NEW i \in DOMAIN answer,
                      team[t].free, team[t].at < answer[i].at
               PROVE  \E j \in DOMAIN answer : answer[j].team = t
    BY DEF NearestConsidered
  <2>1. /\ DOMAIN answer = 1..Len(pool) /\ DOMAIN pool = 1..Len(pool)
        /\ \E k \in 1..Len(pool) : answer[i].at = pool[k].at
        /\ \A k \in 1..Len(pool) : \E j \in 1..Len(pool) : answer[j].team = pool[k].team
    BY AnswerIs
  <2>2. PICK k \in DOMAIN pool : answer[i].at = pool[k].at
    BY <2>1
  <2>3. t \in Pooled
    BY <2>2 DEF Inv, NoneNearer, Answered
  <2>4. PICK m \in DOMAIN pool : pool[m].team = t
    BY <2>3 DEF Pooled
  <2> QED
    BY <2>1, <2>4
<1> QED
  BY <1>1, CandidatesInvariant, PTL

\* A team that is nowhere worse than another and somewhere better comes first.
THEOREM RankingIsSound == Spec => []BetterTeamFirst
<1>1. Inv => BetterTeamFirst
  <2> SUFFICES ASSUME Inv, Answered, SoundSettings, NEW i \in DOMAIN answer,
                      NEW j \in DOMAIN answer, i < j, Dominates(answer[j], answer[i])
               PROVE  FALSE
    BY DEF BetterTeamFirst
  <2>1. /\ TypeOK /\ AllMeasured /\ pool # <<>>
        /\ Scorable(answer[i]) /\ Scorable(answer[j])
        /\ ~ScoresAreNaN => ~Sooner(answer[j], answer[i])
    BY AnswerIs
  <2>2. Sooner(answer[j], answer[i])
    BY <2>1, BetterIsSooner
  <2> QED
    BY <2>1, <2>2, SoundIs
<1> QED
  BY <1>1, CandidatesInvariant, PTL

\* A gap within half the threshold does not outweigh the skills.
THEOREM ThresholdWorks == Spec => []SmallGapsStaySmall
<1>1. Inv => SmallGapsStaySmall
  <2> SUFFICES ASSUME Inv, Answered, SoundSettings, Weights4.dist < 2 * Weights4.skill,
                      NEW i \in DOMAIN answer, NEW j \in DOMAIN answer,
                      answer[i].dist > answer[j].dist,
                      2 * (answer[i].dist - answer[j].dist) <= settings.delta,
                      answer[i].real = answer[j].real,
                      Load(answer[i]) = 0, Load(answer[j]) = 0,
                      getSkillMismatch(answer[i].team) = 0,
                      getSkillMismatch(answer[j].team) = 10
               PROVE  i < j
    BY DEF SmallGapsStaySmall
  <2>1. /\ TypeOK /\ AllMeasured /\ pool # <<>> /\ i \in 1..Len(pool) /\ j \in 1..Len(pool)
        /\ Scorable(answer[i]) /\ Scorable(answer[j])
        /\ ~ScoresAreNaN => (j < i => ~Sooner(answer[i], answer[j]))
    BY AnswerIs
  <2>2. Sooner(answer[i], answer[j])
    BY <2>1, SkilledIsSooner
  <2>3. ~(j < i)
    BY <2>1, <2>2, SoundIs
  <2>4. i # j
    <3> DEFINE a == answer[i].dist
               b == answer[j].dist
    <3>1. a > b /\ a \in Nat
      BY <2>1 DEF Scorable
    <3> HIDE DEF a, b
    <3>2. a # b
      BY <3>1
    <3> QED
      BY <3>2 DEF a, b
  <2>5. Len(pool) \in Nat
    BY <2>1 DEF TypeOK
  <2> QED
    BY <2>1, <2>3, <2>4, <2>5
<1> QED
  BY <1>1, CandidatesInvariant, PTL
=============================================================================
