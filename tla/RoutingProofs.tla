--------------------------- MODULE RoutingProofs ----------------------------
(***************************************************************************)
(* For any road graph, zones, clients and services: the quota of calls to  *)
(* TomTom, and Dijkstra's ways, which are the shortest over dry roads.     *)
(***************************************************************************)
EXTENDS Routing, FiniteSetTheorems, NaturalsInduction, WellFoundedInduction, TLAPS

\* What the count in memory stands for: the calls made since the process
\* started, none of them if the count is from a day that is over.
Since == IF newDay THEN 0 ELSE IF used <= DailyLimit THEN used ELSE DailyLimit

\* The calls of the day are those of the earlier starts, a limit each, and those
\* the count knows.  Paid alone is not inductive: the count decides the next call.
Within(earlier) ==
    /\ starts = earlier + 1
    /\ paid <= DailyLimit * earlier + Since

QuotaInv ==
    /\ used \in Nat /\ paid \in Nat /\ newDay \in BOOLEAN
    /\ \E earlier \in Nat : Within(earlier)

\* One more start is one more limit.
LEMMA OneMoreLimit ==
    ASSUME NEW d \in Nat, NEW n \in Nat
    PROVE  d * n \in Nat /\ d * (n + 1) = d * n + d /\ d * 0 = 0
OBVIOUS

\* The count stays at the first number over the limit.
LEMMA CountedIs ==
    ASSUME DailyLimit \in Nat, used \in Nat
    PROVE  /\ newDay => Counted = 1
           /\ ~newDay => Counted = IF used <= DailyLimit THEN used + 1 ELSE DailyLimit + 1
<1> DEFINE n == IF newDay THEN 1 ELSE used + 1
<1>1. n \in Nat /\ DailyLimit + 1 \in Nat
  OBVIOUS
<1>2. ASSUME NEW a \in Nat, NEW b \in Nat
      PROVE  Min({a, b}) = IF a <= b THEN a ELSE b
  BY <1>2 DEF Min
<1>3. Counted = IF DailyLimit + 1 <= n THEN DailyLimit + 1 ELSE n
  BY <1>1, <1>2 DEF Counted
<1> QED
  BY <1>1, <1>3

\* What the count stands for, and is after the next call, without its flag.
LEMMA SinceIs ==
    ASSUME DailyLimit \in Nat, used \in Nat, newDay \in BOOLEAN
    PROVE  /\ Since \in Nat /\ Since <= DailyLimit
           /\ Counted \in Nat
           /\ Counted <= DailyLimit => Counted = Since + 1
           /\ Counted > DailyLimit => Since = DailyLimit
<1>1. CASE newDay
  <2>1. Since = 0 /\ Counted = 1
    BY <1>1, CountedIs, Zenon DEF Since
  <2> QED
    BY <2>1
<1>2. CASE ~newDay
  <2>1. Since = IF used <= DailyLimit THEN used ELSE DailyLimit
    BY <1>2, Zenon DEF Since
  <2>2. Counted = IF used <= DailyLimit THEN used + 1 ELSE DailyLimit + 1
    BY <1>2, CountedIs, Zenon
  <2> QED
    BY <2>1, <2>2
<1> QED
  BY <1>1, <1>2

\* A day's calls to TomTom stay within the limit once for every start, whatever
\* requests are in flight together when the count is looked at.
THEOREM QuotaIsKept == Spec => []QuotaKept
<1>0. DailyLimit \in Nat
  BY RoutingAssumption DEF RoutingAssumption
<1> USE <1>0
<1>1. Init => QuotaInv
  <2> SUFFICES ASSUME Init
               PROVE  QuotaInv
    OBVIOUS
  <2>1. Since = 0
    BY DEF Init, Since
  <2>2. Within(0)
    BY <2>1, OneMoreLimit DEF Init, Within
  <2> QED
    BY <2>2 DEF Init, QuotaInv
<1>2. QuotaInv /\ [Next]_vars => QuotaInv'
  <2> SUFFICES ASSUME QuotaInv, [Next]_vars
               PROVE  QuotaInv'
    OBVIOUS
  <2> PICK earlier \in Nat : Within(earlier)
    BY DEF QuotaInv
  <2> DEFINE before == DailyLimit * earlier
  <2>0. /\ before \in Nat /\ paid \in Nat
        /\ starts = earlier + 1 /\ paid <= before + Since
        /\ Since \in Nat /\ Since <= DailyLimit
    BY OneMoreLimit, SinceIs DEF Within, QuotaInv
  <2>1. ASSUME NEW c \in Clients, CallsTomTom(c)
        PROVE  QuotaInv'
    <3>1. newDay' = FALSE /\ used' = Counted /\ starts' = starts
      BY <2>1 DEF CallsTomTom
    <3>2. paid' = IF Counted > DailyLimit THEN paid ELSE paid + 1
      BY <2>1 DEF CallsTomTom
    <3>3. Since' = IF Counted <= DailyLimit THEN Counted ELSE DailyLimit
      BY <3>1, Zenon DEF Since
    <3>4. /\ Counted \in Nat
          /\ Counted <= DailyLimit => Counted = Since + 1
          /\ Counted > DailyLimit => Since = DailyLimit
      BY SinceIs DEF QuotaInv
    <3>5. paid' \in Nat /\ paid' <= before + Since'
      <4> HIDE DEF before
      <4> QED
        BY <2>0, <3>2, <3>3, <3>4
    <3>6. Within(earlier)'
      BY <2>0, <3>1, <3>5 DEF Within
    <3> QED
      BY <3>1, <3>4, <3>5, <3>6 DEF QuotaInv
  <2>2. ASSUME DayEnds
        PROVE  QuotaInv'
    <3>1. newDay' = TRUE /\ used' = used /\ paid' = 0 /\ starts' = 1
      BY <2>2 DEF DayEnds
    <3>2. Since' = 0
      BY <3>1, Zenon DEF Since
    <3>3. Within(0)'
      BY <3>1, <3>2, OneMoreLimit DEF Within
    <3> QED
      BY <3>1, <3>3 DEF QuotaInv
  <2>3. ASSUME Restart
        PROVE  QuotaInv'
    <3> PICK more \in Nat : more = earlier + 1
      BY SMT
    <3>1. newDay' = FALSE /\ used' = 0 /\ paid' = paid /\ starts' = starts + 1
      BY <2>3 DEF Restart
    <3>2. Since' = 0
      BY <3>1 DEF Since
    <3>3. DailyLimit * more = before + DailyLimit
      BY OneMoreLimit
    <3> HIDE DEF before
    <3>4. Within(more)'
      BY <2>0, <3>1, <3>2, <3>3 DEF Within
    <3> QED
      BY <2>0, <3>1, <3>4 DEF QuotaInv
  <2>4. ASSUME UNCHANGED <<used, newDay, paid, starts>>
        PROVE  QuotaInv'
    <3>1. Within(earlier)'
      BY <2>4, <2>0 DEF Within, Since
    <3> QED
      BY <2>4, <3>1 DEF QuotaInv
  <2> QED
    BY <2>1, <2>2, <2>3, <2>4
    DEF Next, Asking, vars, Receives, AsksDijkstra, AsksOrs, TakesKnown, FetchAnswers,
        FetchFails, FallsBack, RouteExpires
<1>3. QuotaInv => QuotaKept
  <2> SUFFICES ASSUME QuotaInv
               PROVE  QuotaKept
    OBVIOUS
  <2> PICK earlier \in Nat : Within(earlier)
    BY DEF QuotaInv
  <2> DEFINE before == DailyLimit * earlier
  <2>1. /\ before \in Nat /\ DailyLimit * starts = before + DailyLimit
        /\ paid \in Nat /\ paid <= before + Since
        /\ Since \in Nat /\ Since <= DailyLimit
    BY OneMoreLimit, SinceIs DEF Within, QuotaInv
  <2> HIDE DEF before
  <2> QED
    BY <2>1 DEF QuotaKept
<1> QED
  BY <1>1, <1>2, <1>3, PTL DEF Spec

-----------------------------------------------------------------------------
(* Induction: a least number, and functions defined step by step.          *)

LEMMA Least ==
  ASSUME NEW S \in SUBSET Nat, S # {}
  PROVE  \E n \in S : \A m \in S : n <= m
<1> DEFINE R == {r \in Nat \X Nat : r[1] < r[2]}
<1>1. OpToRel(<, Nat) = R
  BY DEF OpToRel
<1>2. IsWellFoundedOn(R, Nat)
  BY <1>1, NatLessThanWellFounded
<1>3. PICK n \in S : \A m \in S : ~(<<m, n>> \in R)
  BY <1>2, WFMin
<1>4. \A m \in S : n \in Nat /\ m \in Nat /\ ~(m < n)
  BY <1>3
<1> QED
  BY <1>4

\* What holds of 0 and passes from each number to the next holds up to N.
LEMMA Climb ==
  ASSUME NEW N \in Nat, NEW S, 0 \in S, \A n \in 0..N : n < N /\ n \in S => n + 1 \in S
  PROVE  \A n \in 0..N : n \in S
<1> SUFFICES ASSUME (0..N) \ S # {}
             PROVE  FALSE
  OBVIOUS
<1>0. (0..N) \ S \in SUBSET Nat
  OBVIOUS
<1>1. PICK n \in (0..N) \ S : \A m \in (0..N) \ S : n <= m
  BY <1>0, Least
<1>2. n # 0 /\ n - 1 \in 0..N /\ n - 1 \in S /\ n - 1 < N
  BY <1>1
<1> QED
  BY <1>1, <1>2

\* A function defined by what it is at 0 and by a step exists.
Steps(f, n, first, step) == f[0] = first /\ \A k \in 1..n : f[k] = step[f[k - 1]]

LEMMA Recursion ==
  ASSUME NEW N \in Nat, NEW T, NEW first \in T, NEW step \in [T -> T]
  PROVE  \E f \in [0..N -> T] : Steps(f, N, first, step)
<1> DEFINE S == {m \in Nat : \E f \in [0..m -> T] : Steps(f, m, first, step)}
<1>1. 0 \in S
  <2> DEFINE f == [n \in 0..0 |-> first]
  <2>1. f \in [0..0 -> T] /\ Steps(f, 0, first, step)
    BY DEF Steps
  <2> HIDE DEF f
  <2> QED
    BY <2>1
<1>2. ASSUME NEW m \in 0..N, m < N, m \in S
      PROVE  m + 1 \in S
  <2>1. PICK f \in [0..m -> T] : Steps(f, m, first, step)
    BY <1>2
  <2> DEFINE g == [n \in 0..(m + 1) |-> IF n = m + 1 THEN step[f[m]] ELSE f[n]]
  <2>2. f[m] \in T /\ step[f[m]] \in T
    OBVIOUS
  <2>3. g \in [0..(m + 1) -> T]
    BY <2>2
  <2>4. g[0] = first
    BY <2>1 DEF Steps
  <2>5. ASSUME NEW n \in 1..(m + 1)
        PROVE  g[n] = step[g[n - 1]]
    <3>1. CASE n = m + 1
      BY <3>1
    <3>2. CASE n # m + 1
      BY <2>1, <3>2 DEF Steps
    <3> QED
      BY <3>1, <3>2
  <2> HIDE DEF g
  <2>6. Steps(g, m + 1, first, step)
    BY <2>4, <2>5 DEF Steps
  <2>7. m + 1 \in Nat
    OBVIOUS
  <2> QED
    BY <2>3, <2>6, <2>7
<1> HIDE DEF S
<1>3. \A m \in 0..N : m < N /\ m \in S => m + 1 \in S
  BY <1>2
<1>4. \A m \in 0..N : m \in S
  BY <1>1, <1>3, Climb
<1>5. N \in 0..N
  OBVIOUS
<1> QED
  BY <1>4, <1>5 DEF S

-----------------------------------------------------------------------------
(* The search, round by round.                                             *)

Labels == [at : Nodes, dist : Nat, path : Seq(Edges)]
States == [visited : SUBSET Nodes, reached : SUBSET Labels]

Start(u) == [visited |-> {}, reached |-> {Label(u, 0, <<>>)}]
Rounds(u, v, edges) ==
    CHOOSE f : f = [n \in 0..Len(Order) |-> IF n = 0 THEN Start(u) ELSE Visits(f[n - 1], v, edges)]

\* The labels to visit, and whether the loop is left here.
Open(s) == {l \in s.reached : l.at \notin s.visited}
Stops(s, v) == Open(s) = {} \/ Nearest(Open(s)).at = v

\* The nodes and lengths along a path of the given roads that starts at u.
Along(path, pos, sum, u, edges) ==
    /\ pos \in [0..Len(path) -> Nodes] /\ sum \in [0..Len(path) -> Nat]
    /\ pos[0] = u /\ sum[0] = 0
    /\ \A i \in 1..Len(path) :
          /\ path[i] \in Touching(pos[i - 1], edges)
          /\ pos[i] = OtherEnd(path[i], pos[i - 1])
          /\ sum[i] = sum[i - 1] + Length[path[i]]

\* A label tells the truth: its path leads from u to its node and is that long.
Truthful(l, u, edges) ==
    \E pos, sum : /\ Along(l.path, pos, sum, u, edges)
                  /\ pos[Len(l.path)] = l.at /\ sum[Len(l.path)] = l.dist

\* What holds after k rounds.  Nodes are visited in the order of their distance,
\* and their neighbours know the way through them.
SearchInv(s, u, v, edges, k) ==
    /\ s \in States
    /\ \A l \in s.reached : Truthful(l, u, edges) /\ Len(l.path) <= k
    /\ \A l, m \in s.reached : l.at = m.at => l.dist = m.dist
    /\ \E l \in s.reached : l.at = u /\ l.dist = 0
    /\ \A x \in s.visited : \E l \in s.reached : l.at = x
    /\ \A l \in s.reached : l.at \in s.visited => \A e \in Touching(l.at, edges) :
          \E m \in s.reached : m.at = OtherEnd(e, l.at) /\ m.dist <= l.dist + Length[e]
    /\ \A l, m \in s.reached : l.at \in s.visited /\ m.at \notin s.visited => l.dist <= m.dist
    /\ Stops(s, v) \/ Cardinality(s.visited) = k

\* Some label of every nonempty set is a nearest one.
LEMMA NearestIs ==
  ASSUME NEW S \in SUBSET Labels, S # {}
  PROVE  Nearest(S) \in S /\ \A m \in S : Nearest(S).dist <= m.dist
<1> DEFINE D == {l.dist : l \in S}
<1>1. D \in SUBSET Nat /\ D # {}
  BY DEF Labels
<1>2. PICK d \in D : \A n \in D : d <= n
  BY <1>1, Least
<1>3. \E l \in S : \A m \in S : l.dist <= m.dist
  BY <1>2
<1> QED
  BY <1>3 DEF Nearest

\* Roads lead to nodes and are not shorter than nothing.
LEMMA RoadFacts ==
  ASSUME NEW x \in Nodes, NEW e \in Touching(x, Edges)
  PROVE  OtherEnd(e, x) \in Nodes /\ Length[e] \in Nat /\ e \in Edges
BY RoutingAssumption DEF Touching, OtherEnd

\* A truthful label gives truthful labels to the neighbours of its node.
LEMMA RelaxedTruthful ==
  ASSUME NEW u \in Nodes, NEW edges \in SUBSET Edges, NEW l \in Labels, Truthful(l, u, edges),
         NEW e \in Touching(l.at, edges)
  PROVE  LET m == Label(OtherEnd(e, l.at), l.dist + Length[e], Append(l.path, e)) IN
         m \in Labels /\ Truthful(m, u, edges) /\ Len(m.path) = Len(l.path) + 1
<1> DEFINE n == Len(l.path)
           path == Append(l.path, e)
           m == Label(OtherEnd(e, l.at), l.dist + Length[e], path)
<1>0. l.at \in Nodes /\ l.dist \in Nat /\ l.path \in Seq(Edges) /\ n \in Nat
  BY DEF Labels
<1>1. e \in edges /\ e \in Edges /\ OtherEnd(e, l.at) \in Nodes /\ Length[e] \in Nat
  BY <1>0, RoadFacts DEF Touching
<1>2. path \in Seq(Edges) /\ Len(path) = n + 1 /\ path[n + 1] = e /\ \A i \in 1..n : path[i] = l.path[i]
  BY <1>0, <1>1
<1>3. m \in Labels /\ m.at = OtherEnd(e, l.at) /\ m.dist = l.dist + Length[e] /\ m.path = path
  BY <1>0, <1>1, <1>2 DEF Labels, Label
<1>4. PICK pos, sum : /\ Along(l.path, pos, sum, u, edges)
                      /\ pos[n] = l.at /\ sum[n] = l.dist
  BY DEF Truthful
<1> DEFINE pos2 == [i \in 0..(n + 1) |-> IF i = n + 1 THEN OtherEnd(e, l.at) ELSE pos[i]]
           sum2 == [i \in 0..(n + 1) |-> IF i = n + 1 THEN l.dist + Length[e] ELSE sum[i]]
<1> HIDE DEF path, m
<1>5. Along(path, pos2, sum2, u, edges)
  <2>1. pos2 \in [0..(n + 1) -> Nodes] /\ sum2 \in [0..(n + 1) -> Nat]
    <3>1. /\ \A i \in 0..n : pos[i] \in Nodes /\ sum[i] \in Nat
          /\ \A i \in 0..(n + 1) : i = n + 1 \/ i \in 0..n
          /\ l.dist + Length[e] \in Nat
      BY <1>0, <1>1, <1>4 DEF Along
    <3>2. \A i \in 0..(n + 1) : /\ (IF i = n + 1 THEN OtherEnd(e, l.at) ELSE pos[i]) \in Nodes
                                /\ (IF i = n + 1 THEN l.dist + Length[e] ELSE sum[i]) \in Nat
      BY <1>1, <3>1
    <3> QED
      BY <3>2
  <2>2. pos2[0] = u /\ sum2[0] = 0
    BY <1>0, <1>4 DEF Along
  <2>3. ASSUME NEW i \in 1..(n + 1)
        PROVE  /\ path[i] \in Touching(pos2[i - 1], edges)
               /\ pos2[i] = OtherEnd(path[i], pos2[i - 1])
               /\ sum2[i] = sum2[i - 1] + Length[path[i]]
    <3>1. CASE i = n + 1
      BY <1>0, <1>2, <1>4, <3>1
    <3>2. CASE i # n + 1
      <4>1. i \in 1..n /\ i \in 0..(n + 1) /\ i - 1 \in 0..(n + 1) /\ i - 1 # n + 1
        BY <1>0, <3>2
      <4>2. /\ pos2[i] = pos[i] /\ pos2[i - 1] = pos[i - 1]
            /\ sum2[i] = sum[i] /\ sum2[i - 1] = sum[i - 1]
        BY <4>1
      <4>3. path[i] = l.path[i]
        BY <1>2, <4>1
      <4>4. /\ l.path[i] \in Touching(pos[i - 1], edges)
            /\ pos[i] = OtherEnd(l.path[i], pos[i - 1])
            /\ sum[i] = sum[i - 1] + Length[l.path[i]]
        BY <1>0, <1>4, <4>1 DEF Along
      <4> QED
        BY <4>2, <4>3, <4>4
    <3> QED
      BY <3>1, <3>2
  <2> QED
    BY <1>2, <2>1, <2>2, <2>3 DEF Along
<1>6. pos2[n + 1] = m.at /\ sum2[n + 1] = m.dist
  BY <1>0, <1>3
<1> HIDE DEF pos2, sum2
<1>7. Truthful(m, u, edges)
  BY <1>2, <1>3, <1>5, <1>6 DEF Truthful
<1> QED
  BY <1>2, <1>3, <1>7 DEF m, path

LEMMA SearchStarts ==
  ASSUME NEW u \in Nodes, NEW v, NEW edges \in SUBSET Edges
  PROVE  SearchInv(Start(u), u, v, edges, 0)
<1> DEFINE l == Label(u, 0, <<>>)
<1>1. /\ l \in Labels /\ l.at = u /\ l.dist = 0 /\ l.path = <<>>
      /\ Start(u) \in States /\ Start(u).visited = {} /\ Start(u).reached = {l}
  BY DEF Labels, Label, States, Start
<1> HIDE DEF l
<1>2. Truthful(l, u, edges)
  <2> DEFINE pos == [i \in 0..0 |-> u]
             sum == [i \in 0..0 |-> 0]
  <2>1. Along(<<>>, pos, sum, u, edges) /\ pos[0] = u /\ sum[0] = 0
    BY DEF Along
  <2> HIDE DEF pos, sum
  <2> QED
    BY <1>1, <2>1 DEF Truthful
<1>3. Cardinality(Start(u).visited) = 0
  BY <1>1, FS_EmptySet
<1> QED
  BY <1>1, <1>2, <1>3 DEF SearchInv

\* What a round keeps of the labels there are then.
Shortest(all) == {m \in all : \A h \in all : h.at = m.at => m.dist <= h.dist}

\* The labels there are when a round has followed the roads of l's node.
Wider(s, l, edges) == s.reached \cup Relaxed(l, s.visited \cup {l.at}, edges)

\* A round that does not leave the loop visits the nearest open node.
LEMMA VisitsIs ==
  ASSUME NEW s \in States, NEW v, NEW edges \in SUBSET Edges
  PROVE  /\ Visits(s, v, edges) \in States
         /\ Stops(s, v) => Visits(s, v, edges) = s
         /\ ~Stops(s, v) => \E l \in Open(s) :
               /\ \A m \in Open(s) : l.dist <= m.dist
               /\ Visits(s, v, edges).visited = s.visited \cup {l.at}
               /\ Visits(s, v, edges).reached = Shortest(Wider(s, l, edges))
<1>1. Open(s) \in SUBSET Labels
  BY DEF Open, States
<1>2. Stops(s, v) => Visits(s, v, edges) = s
  BY DEF Stops, Open, Visits
<1>3. ASSUME ~Stops(s, v)
      PROVE  /\ Visits(s, v, edges) \in States
             /\ \E l \in Open(s) :
                   /\ \A m \in Open(s) : l.dist <= m.dist
                   /\ Visits(s, v, edges).visited = s.visited \cup {l.at}
                   /\ Visits(s, v, edges).reached = Shortest(Wider(s, l, edges))
  <2> DEFINE l == Nearest(Open(s))
  <2>1. Open(s) # {} /\ l.at # v
    BY <1>3 DEF Stops
  <2>2. l \in Open(s) /\ \A m \in Open(s) : l.dist <= m.dist
    BY <1>1, <2>1, NearestIs
  <2>3. Visits(s, v, edges) =
           [visited |-> s.visited \cup {l.at}, reached |-> Shortest(Wider(s, l, edges))]
    BY <2>1 DEF Visits, Open, Shortest, Wider
  <2> HIDE DEF l
  <2>4. l.at \in Nodes /\ l.dist \in Nat /\ l.path \in Seq(Edges)
    BY <1>1, <2>2 DEF Labels
  <2>5. \A e \in Touching(l.at, edges) :
           Label(OtherEnd(e, l.at), l.dist + Length[e], Append(l.path, e)) \in Labels
    BY <2>4, RoadFacts DEF Label, Labels, Touching
  <2>6. Wider(s, l, edges) \in SUBSET Labels
    BY <2>5 DEF Wider, Relaxed, States
  <2>7. Visits(s, v, edges) \in States
    BY <2>3, <2>4, <2>6 DEF States, Shortest
  <2> QED
    BY <2>2, <2>3, <2>7
<1> QED
  BY <1>2, <1>3

\* Each node keeps a label no longer than any it had or got.
LEMMA ShortestKept ==
  ASSUME NEW all \in SUBSET Labels, NEW k \in all
  PROVE  \E m \in Shortest(all) : m.at = k.at /\ m.dist <= k.dist
<1> DEFINE same == {l \in all : l.at = k.at}
<1>1. same \in SUBSET Labels /\ same # {}
  OBVIOUS
<1>2. Nearest(same) \in same /\ \A m \in same : Nearest(same).dist <= m.dist
  BY <1>1, NearestIs
<1> HIDE DEF same
<1>3. Nearest(same) \in all /\ Nearest(same).at = k.at
  BY <1>2 DEF same
<1>4. \A h \in all : h.at = k.at => Nearest(same).dist <= h.dist
  BY <1>2 DEF same
<1> QED
  BY <1>3, <1>4 DEF Shortest

\* The labels that a round adds.
LEMMA RelaxedIs ==
  ASSUME NEW l \in Labels, NEW visited, NEW edges \in SUBSET Edges, NEW u \in Nodes, Truthful(l, u, edges)
  PROVE  /\ Relaxed(l, visited, edges) \in SUBSET Labels
         /\ \A m \in Relaxed(l, visited, edges) :
               /\ m.at \notin visited /\ m.dist >= l.dist
               /\ Truthful(m, u, edges) /\ Len(m.path) = Len(l.path) + 1
<1> DEFINE to(e) == Label(OtherEnd(e, l.at), l.dist + Length[e], Append(l.path, e))
<1>1. ASSUME NEW e \in Touching(l.at, edges)
      PROVE  /\ to(e) \in Labels /\ Truthful(to(e), u, edges) /\ Len(to(e).path) = Len(l.path) + 1
             /\ to(e).at = OtherEnd(e, l.at) /\ to(e).dist = l.dist + Length[e] /\ to(e).dist >= l.dist
  <2>1. /\ to(e) \in Labels /\ Truthful(to(e), u, edges) /\ Len(to(e).path) = Len(l.path) + 1
    BY RelaxedTruthful
  <2>2. to(e).at = OtherEnd(e, l.at) /\ to(e).dist = l.dist + Length[e]
    BY DEF Label
  <2>3. l.dist \in Nat /\ Length[e] \in Nat
    BY RoadFacts DEF Labels, Touching
  <2> QED
    BY <2>1, <2>2, <2>3
<1>2. Relaxed(l, visited, edges) =
         {to(e) : e \in {f \in Touching(l.at, edges) : OtherEnd(f, l.at) \notin visited}}
  BY DEF Relaxed
<1> HIDE DEF to
<1> QED
  BY <1>1, <1>2

LEMMA RelaxedHas ==
  ASSUME NEW l, NEW visited, NEW edges, NEW e \in Touching(l.at, edges), OtherEnd(e, l.at) \notin visited
  PROVE  \E m \in Relaxed(l, visited, edges) : m.at = OtherEnd(e, l.at) /\ m.dist = l.dist + Length[e]
<1> DEFINE m == Label(OtherEnd(e, l.at), l.dist + Length[e], Append(l.path, e))
<1>1. m \in Relaxed(l, visited, edges)
  BY DEF Relaxed
<1>2. m.at = OtherEnd(e, l.at) /\ m.dist = l.dist + Length[e]
  BY DEF Label
<1> HIDE DEF m
<1> QED
  BY <1>1, <1>2

\* One round keeps what the search knows.
LEMMA VisitsKeeps ==
  ASSUME NEW u \in Nodes, NEW v, NEW edges \in SUBSET Edges, NEW k \in Nat, NEW s,
         SearchInv(s, u, v, edges, k), IsFiniteSet(Nodes)
  PROVE  SearchInv(Visits(s, v, edges), u, v, edges, k + 1)
<1>0. /\ s \in States /\ s.visited \subseteq Nodes /\ s.reached \subseteq Labels
      /\ \A l \in s.reached : l.dist \in Nat /\ l.at \in Nodes /\ l.path \in Seq(Edges)
  BY DEF SearchInv, States, Labels
<1>1. CASE Stops(s, v)
  <2>1. Visits(s, v, edges) = s
    BY <1>0, <1>1, VisitsIs
  <2>2. \A l \in s.reached : Len(l.path) <= k + 1
    BY <1>0 DEF SearchInv
  <2> QED
    BY <1>1, <2>1, <2>2 DEF SearchInv
<1>2. CASE ~Stops(s, v)
  <2> DEFINE t == Visits(s, v, edges)
  <2>1. PICK l \in Open(s) : /\ \A m \in Open(s) : l.dist <= m.dist
                             /\ t.visited = s.visited \cup {l.at}
                             /\ t.reached = Shortest(Wider(s, l, edges))
    BY <1>0, <1>2, VisitsIs
  <2> DEFINE seen == s.visited \cup {l.at}
             new == Relaxed(l, seen, edges)
             all == Wider(s, l, edges)
  <2>2. /\ l \in s.reached /\ l \in Labels /\ l.at \notin s.visited /\ l.at \in Nodes /\ l.dist \in Nat
        /\ Truthful(l, u, edges) /\ Len(l.path) <= k /\ Len(l.path) \in Nat
    BY <1>0 DEF Open, SearchInv
  <2>3. all = s.reached \cup new
    BY DEF Wider
  <2>4. t.visited = seen /\ t.reached = Shortest(all)
    BY <2>1
  <2>5. t \in States
    BY <1>0, VisitsIs
  <2> HIDE DEF t, seen, new, all
  <2>6. /\ new \in SUBSET Labels
        /\ \A m \in new : /\ m.at \notin seen /\ m.dist >= l.dist
                          /\ Truthful(m, u, edges) /\ Len(m.path) = Len(l.path) + 1
    BY <2>2, RelaxedIs DEF new
  <2>7. seen = s.visited \cup {l.at}
    BY DEF seen
  <2>8. all \in SUBSET Labels
    BY <1>0, <2>6, <2>3
  <2>9. \A m \in t.reached : m \in all /\ m.dist \in Nat /\ m.at \in Nodes
    BY <2>4, <2>8 DEF Labels, Shortest
  <2>10. \A m \in all : m.at \in seen => m \in s.reached
    BY <2>6, <2>3
  <2>11. \A m \in s.reached : m.at \in seen => m \in t.reached
    <3> SUFFICES ASSUME NEW m \in s.reached, m.at \in seen, NEW h \in all, h.at = m.at
                 PROVE  m.dist <= h.dist
      BY <2>3, <2>4 DEF Shortest
    <3>1. h \in s.reached
      BY <2>10
    <3> QED
      BY <1>0, <3>1 DEF SearchInv
  <2>12. \A m \in all : \E h \in t.reached : h.at = m.at /\ h.dist <= m.dist
    BY <2>4, <2>8, ShortestKept
  <2>13. \A m \in t.reached : Truthful(m, u, edges) /\ Len(m.path) <= k + 1
    BY <1>0, <2>2, <2>6, <2>3, <2>9 DEF SearchInv
  <2>14. \A m, h \in t.reached : m.at = h.at => m.dist = h.dist
    BY <2>4, <2>9 DEF Shortest
  <2>15. \E m \in t.reached : m.at = u /\ m.dist = 0
    <3>1. PICK m \in s.reached : m.at = u /\ m.dist = 0
      BY DEF SearchInv
    <3>2. PICK h \in t.reached : h.at = u /\ h.dist <= 0
      BY <2>3, <2>12, <3>1
    <3> QED
      BY <2>9, <3>2
  <2>16. \A x \in t.visited : \E m \in t.reached : m.at = x
    BY <2>2, <2>4, <2>7, <2>11 DEF SearchInv
  <2>17. \A m \in s.reached : m.at \in s.visited => m.dist <= l.dist
    BY <2>2 DEF SearchInv
  <2>18. ASSUME NEW m \in t.reached, m.at \in t.visited, NEW e \in Touching(m.at, edges)
         PROVE  \E h \in t.reached : h.at = OtherEnd(e, m.at) /\ h.dist <= m.dist + Length[e]
    <3>1. m \in s.reached /\ m.at \in seen /\ m.dist \in Nat /\ Length[e] \in Nat
      BY <2>4, <2>9, <2>10, <2>18, RoadFacts DEF Touching
    <3>2. CASE m.at \in s.visited
      <4>1. PICK h \in s.reached : h.at = OtherEnd(e, m.at) /\ h.dist <= m.dist + Length[e]
        BY <2>18, <3>1, <3>2 DEF SearchInv
      <4>2. PICK g \in t.reached : g.at = h.at /\ g.dist <= h.dist
        BY <2>3, <2>12
      <4> QED
        BY <1>0, <2>9, <3>1, <4>1, <4>2
    <3>3. CASE m.at = l.at
      <4>1. m.dist = l.dist
        BY <2>2, <3>1, <3>3 DEF SearchInv
      <4>2. CASE OtherEnd(e, l.at) \notin seen
        <5>1. PICK h \in new : h.at = OtherEnd(e, l.at) /\ h.dist = l.dist + Length[e]
          BY <2>18, <3>3, <4>2, RelaxedHas DEF new
        <5>2. PICK g \in t.reached : g.at = h.at /\ g.dist <= h.dist
          BY <2>3, <2>12
        <5> QED
          BY <3>3, <4>1, <5>1, <5>2
      <4>3. CASE OtherEnd(e, l.at) \in s.visited
        <5>1. PICK h \in s.reached : h.at = OtherEnd(e, l.at)
          BY <4>3 DEF SearchInv
        <5>2. h \in t.reached /\ h.dist <= l.dist /\ h.dist \in Nat
          BY <1>0, <2>7, <2>11, <2>17, <4>3, <5>1
        <5> QED
          BY <2>2, <3>1, <3>3, <4>1, <5>1, <5>2
      <4>4. CASE OtherEnd(e, l.at) = l.at
        BY <2>2, <3>1, <3>3, <4>1, <4>4
      <4> QED
        BY <2>7, <4>2, <4>3, <4>4
    <3> QED
      BY <2>7, <3>1, <3>2, <3>3
  <2>19. ASSUME NEW m \in t.reached, NEW h \in t.reached, m.at \in t.visited, h.at \notin t.visited
         PROVE  m.dist <= h.dist
    <3>1. m \in s.reached /\ m.dist \in Nat /\ h.dist \in Nat
      BY <2>4, <2>9, <2>10, <2>19
    <3>2. m.dist <= l.dist
      BY <2>2, <2>4, <2>7, <2>17, <2>19, <3>1 DEF SearchInv
    <3>3. l.dist <= h.dist
      <4>1. CASE h \in new
        BY <2>2, <2>6, <3>1, <4>1
      <4>2. CASE h \in s.reached
        BY <2>1, <2>4, <2>7, <2>19, <4>2 DEF Open
      <4> QED
        BY <2>3, <2>9, <4>1, <4>2
    <3> QED
      BY <2>2, <3>1, <3>2, <3>3
  <2>20. Cardinality(t.visited) = k + 1
    <3>1. Cardinality(s.visited) = k /\ IsFiniteSet(s.visited)
      BY <1>0, <1>2, FS_Subset DEF SearchInv
    <3>2. Cardinality(s.visited \cup {l.at}) = k + 1
      BY <2>2, <3>1, FS_AddElement
    <3> QED
      BY <2>4, <2>7, <3>2
  <2> QED
    BY <2>5, <2>13, <2>14, <2>15, <2>16, <2>18, <2>19, <2>20 DEF SearchInv, t
<1> QED
  BY <1>1, <1>2

\* There are no more nodes than places in the file.
LEMMA NodesFinite ==
  IsFiniteSet(Nodes) /\ Cardinality(Nodes) <= Len(Order) /\ Len(Order) \in Nat
<1>0. Order \in Seq(Nodes)
  BY RoutingAssumption
<1>1. Len(Order) \in Nat /\ DOMAIN Order = 1..Len(Order) /\ Order \in [1..Len(Order) -> Nodes]
  BY <1>0
<1>2. Order \in Surjection(1..Len(Order), Nodes)
  BY <1>1 DEF Surjection, Nodes, Range
<1>3. IsFiniteSet(1..Len(Order)) /\ Cardinality(1..Len(Order)) = Len(Order)
  BY <1>1, FS_Interval
<1> QED
  BY <1>1, <1>2, <1>3, FS_Surjection

\* The rounds are what their definition says.
LEMMA RoundsAre ==
  ASSUME NEW u \in Nodes, NEW v, NEW edges \in SUBSET Edges
  PROVE  /\ Rounds(u, v, edges)[0] = Start(u)
         /\ \A n \in 1..Len(Order) :
               Rounds(u, v, edges)[n] = Visits(Rounds(u, v, edges)[n - 1], v, edges)
<1> DEFINE step == [s \in States |-> Visits(s, v, edges)]
           Is(f) == f = [n \in 0..Len(Order) |->
                           IF n = 0 THEN Start(u) ELSE Visits(f[n - 1], v, edges)]
<1>0. Len(Order) \in Nat
  BY NodesFinite
<1>1. Start(u) \in States
  BY SearchStarts DEF SearchInv
<1>2. step \in [States -> States]
  BY VisitsIs
<1>3. \E f \in [0..Len(Order) -> States] : Steps(f, Len(Order), Start(u), step)
  <2> HIDE DEF step
  <2> QED
    BY <1>0, <1>1, <1>2, Recursion
<1>4. PICK f \in [0..Len(Order) -> States] : Steps(f, Len(Order), Start(u), step)
  BY <1>3
<1>5. Is(f)
  <2>1. \A n \in 1..Len(Order) : f[n - 1] \in States
    BY <1>0
  <2>2. f[0] = Start(u) /\ \A n \in 1..Len(Order) : f[n] = Visits(f[n - 1], v, edges)
    BY <1>4, <2>1 DEF Steps
  <2> QED
    BY <1>0, <2>2
<1>6. Is(Rounds(u, v, edges))
  BY <1>5 DEF Rounds
<1> QED
  BY <1>0, <1>6

\* After as many rounds as there are places in the file the loop has been left.
LEMMA SearchEnds ==
  ASSUME NEW u \in Nodes, NEW v, NEW edges \in SUBSET Edges
  PROVE  /\ SearchInv(Rounds(u, v, edges)[Len(Order)], u, v, edges, Len(Order))
         /\ Stops(Rounds(u, v, edges)[Len(Order)], v)
<1> DEFINE N == Len(Order)
           f == Rounds(u, v, edges)
           S == {n \in Nat : SearchInv(f[n], u, v, edges, n)}
<1>0. N \in Nat /\ IsFiniteSet(Nodes) /\ Cardinality(Nodes) <= N
  BY NodesFinite
<1>1. f[0] = Start(u) /\ \A n \in 1..N : f[n] = Visits(f[n - 1], v, edges)
  BY RoundsAre
<1> HIDE DEF f, N
<1>2. 0 \in S
  BY <1>1, SearchStarts
<1>3. ASSUME NEW n \in 0..N, n < N, n \in S
      PROVE  n + 1 \in S
  <2>1. f[n + 1] = Visits(f[n], v, edges) /\ n \in Nat
    BY <1>0, <1>1, <1>3
  <2>2. SearchInv(Visits(f[n], v, edges), u, v, edges, n + 1)
    BY <1>0, <1>3, <2>1, VisitsKeeps
  <2> QED
    BY <2>1, <2>2
<1>4. N \in S
  <2> HIDE DEF S
  <2>1. \A n \in 0..N : n < N /\ n \in S => n + 1 \in S
    BY <1>3
  <2>2. \A n \in 0..N : n \in S
    BY <1>0, <1>2, <2>1, Climb
  <2> QED
    BY <1>0, <2>2
<1>5. SearchInv(f[N], u, v, edges, N)
  BY <1>4
<1>6. ASSUME ~Stops(f[N], v)
      PROVE  FALSE
  <2>1. /\ Cardinality(f[N].visited) = N /\ f[N].visited \in SUBSET Nodes
        /\ \A l \in f[N].reached : l.at \in Nodes
    BY <1>5, <1>6 DEF SearchInv, States, Labels
  <2>2. Cardinality(Nodes) \in Nat /\ Cardinality(f[N].visited) <= Cardinality(Nodes)
    BY <1>0, <2>1, FS_Subset, FS_CardinalityType
  <2>3. f[N].visited = Nodes
    BY <1>0, <2>1, <2>2, FS_Subset
  <2> QED
    BY <1>6, <2>1, <2>3 DEF Stops, Open
<1> QED
  BY <1>5, <1>6 DEF f, N

-----------------------------------------------------------------------------
(* The walks, the reference the search is measured by.                     *)

\* The walks of one more edge, and those there were.
Longer(walks, edges) ==
    walks \cup UNION {{<<OtherEnd(e, w[1]), w[2] + Length[e]>> :
                          e \in Touching(w[1], edges)} : w \in walks}
WalkSets(u, edges, n) ==
    CHOOSE f : f = [k \in 0..n |-> IF k = 0 THEN {<<u, 0>>} ELSE Longer(f[k - 1], edges)]
Trips == Nodes \X Nat

LEMMA LongerIs ==
  ASSUME NEW walks \in SUBSET Trips, NEW edges \in SUBSET Edges
  PROVE  /\ Longer(walks, edges) \in SUBSET Trips
         /\ walks \subseteq Longer(walks, edges)
         /\ \A w \in walks : \A e \in Touching(w[1], edges) :
               <<OtherEnd(e, w[1]), w[2] + Length[e]>> \in Longer(walks, edges)
         /\ \A x \in Longer(walks, edges) : x \in walks \/ (\E w \in walks :
               \E e \in Touching(w[1], edges) : x = <<OtherEnd(e, w[1]), w[2] + Length[e]>>)
<1>1. \A w \in walks : w[1] \in Nodes /\ w[2] \in Nat
  BY DEF Trips
<1>2. \A w \in walks : \A e \in Touching(w[1], edges) :
         <<OtherEnd(e, w[1]), w[2] + Length[e]>> \in Trips
  BY <1>1, RoadFacts DEF Trips, Touching
<1> QED
  BY <1>2 DEF Longer

LEMMA WalksAre ==
  ASSUME NEW u \in Nodes, NEW edges \in SUBSET Edges, NEW n \in Nat
  PROVE  /\ WalkSets(u, edges, n) \in [0..n -> SUBSET Trips]
         /\ WalkSets(u, edges, n)[0] = {<<u, 0>>}
         /\ \A k \in 1..n :
               WalkSets(u, edges, n)[k] = Longer(WalkSets(u, edges, n)[k - 1], edges)
         /\ Walks(u, edges, n) = WalkSets(u, edges, n)[n]
         /\ Walks(u, edges, n) \in SUBSET Trips
<1> DEFINE step == [walks \in SUBSET Trips |-> Longer(walks, edges)]
           first == {<<u, 0>>}
           Is(f) == f = [k \in 0..n |-> IF k = 0 THEN first ELSE Longer(f[k - 1], edges)]
<1>1. first \in SUBSET Trips
  BY DEF Trips
<1>2. step \in [SUBSET Trips -> SUBSET Trips]
  BY LongerIs
<1>3. \E f \in [0..n -> SUBSET Trips] : Steps(f, n, first, step)
  <2> HIDE DEF step, first
  <2> QED
    BY <1>1, <1>2, Recursion
<1>4. PICK f \in [0..n -> SUBSET Trips] : Steps(f, n, first, step)
  BY <1>3
<1>5. f[0] = first /\ \A k \in 1..n : f[k] = Longer(f[k - 1], edges)
  <2>1. \A k \in 1..n : f[k - 1] \in SUBSET Trips
    OBVIOUS
  <2> QED
    BY <1>4, <2>1 DEF Steps
<1> HIDE DEF first
<1>6. Is(f)
  BY <1>5
<1>7. WalkSets(u, edges, n) = f
  <2>1. Is(WalkSets(u, edges, n))
    BY <1>6 DEF WalkSets, first
  <2>2. ASSUME NEW g, Is(g)
        PROVE  g = f
    <3> DEFINE S == {k \in Nat : g[k] = f[k]}
    <3>1. 0 \in S
      BY <1>5, <2>2
    <3>2. \A k \in 0..n : k < n /\ k \in S => k + 1 \in S
      BY <1>5, <2>2
    <3> HIDE DEF S
    <3>3. \A k \in 0..n : k \in S
      BY <3>1, <3>2, Climb
    <3>4. \A k \in 0..n : g[k] = f[k]
      BY <3>3 DEF S
    <3> QED
      BY <2>2, <3>4
  <2> QED
    BY <2>1, <2>2
<1>8. Walks(u, edges, n) = WalkSets(u, edges, n)[n]
  BY DEF Walks, WalkSets, Longer
<1>9. f[n] \in SUBSET Trips
  OBVIOUS
<1> QED
  BY <1>5, <1>7, <1>8, <1>9 DEF first

\* What a label tells is a walk of as many edges as its path has, or more.
LEMMA LabelIsWalk ==
  ASSUME NEW u \in Nodes, NEW edges \in SUBSET Edges, NEW n \in Nat,
         NEW l \in Labels, Truthful(l, u, edges), Len(l.path) <= n
  PROVE  <<l.at, l.dist>> \in Walks(u, edges, n)
<1> DEFINE len == Len(l.path)
           W == WalkSets(u, edges, n)
<1>0. len \in Nat /\ len <= n
  BY DEF Labels
<1>1. PICK pos, sum : Along(l.path, pos, sum, u, edges) /\ pos[len] = l.at /\ sum[len] = l.dist
  BY DEF Truthful
<1>2. W \in [0..n -> SUBSET Trips] /\ W[0] = {<<u, 0>>} /\ Walks(u, edges, n) = W[n]
  BY WalksAre
<1>3. \A k \in 1..n : W[k] = Longer(W[k - 1], edges)
  BY WalksAre
<1> DEFINE S == {i \in Nat : i <= len => <<pos[i], sum[i]>> \in W[i]}
           R == {i \in Nat : i >= len => <<l.at, l.dist>> \in W[i]}
<1> HIDE DEF W, len
<1>4. 0 \in S
  <2>1. pos[0] = u /\ sum[0] = 0
    BY <1>1 DEF Along
  <2>2. <<pos[0], sum[0]>> \in W[0]
    BY <1>2, <2>1
  <2> QED
    BY <2>2
<1>5. ASSUME NEW i \in 0..n, i < n, i \in S
      PROVE  i + 1 \in S
  <2> SUFFICES ASSUME i + 1 <= len
               PROVE  <<pos[i + 1], sum[i + 1]>> \in W[i + 1]
    OBVIOUS
  <2> DEFINE w == <<pos[i], sum[i]>>
             e == l.path[i + 1]
  <2>1. i + 1 \in 1..len /\ i + 1 \in 1..n /\ (i + 1) - 1 = i
    BY <1>0
  <2>2. w \in W[i] /\ w[1] = pos[i] /\ w[2] = sum[i]
    BY <1>0, <1>5
  <2>3. e \in Touching(pos[i], edges) /\ pos[i + 1] = OtherEnd(e, pos[i]) /\ sum[i + 1] = sum[i] + Length[e]
    BY <1>1, <2>1 DEF Along, len
  <2>4. W[i] \in SUBSET Trips /\ W[i + 1] = Longer(W[i], edges)
    BY <1>2, <1>3, <2>1
  <2> HIDE DEF w, e
  <2>5. <<OtherEnd(e, w[1]), w[2] + Length[e]>> \in Longer(W[i], edges)
    BY <2>2, <2>3, <2>4, LongerIs
  <2> QED
    BY <2>2, <2>3, <2>4, <2>5
<1>6. \A i \in 0..n : i \in S
  <2> HIDE DEF S
  <2>1. \A i \in 0..n : i < n /\ i \in S => i + 1 \in S
    BY <1>5
  <2> QED
    BY <1>4, <2>1, Climb
<1>7. <<l.at, l.dist>> \in W[len]
  BY <1>0, <1>1, <1>6
<1>8. 0 \in R
  <2> SUFFICES ASSUME 0 >= len
               PROVE  <<l.at, l.dist>> \in W[0]
    OBVIOUS
  <2>1. len = 0
    BY <1>0
  <2> QED
    BY <1>7, <2>1
<1>9. ASSUME NEW i \in 0..n, i < n, i \in R
      PROVE  i + 1 \in R
  <2> SUFFICES ASSUME i + 1 >= len
               PROVE  <<l.at, l.dist>> \in W[i + 1]
    OBVIOUS
  <2>1. CASE i + 1 = len
    BY <1>7, <2>1
  <2>2. CASE i + 1 # len
    <3>1. <<l.at, l.dist>> \in W[i]
      BY <1>0, <1>9, <2>2
    <3>2. W[i] \in SUBSET Trips /\ W[i + 1] = Longer(W[i], edges)
      <4>1. i + 1 \in 1..n /\ (i + 1) - 1 = i
        BY <1>9
      <4> QED
        BY <1>2, <1>3, <4>1
    <3>3. W[i] \subseteq Longer(W[i], edges)
      BY <3>2, LongerIs
    <3> QED
      BY <3>1, <3>2, <3>3
  <2> QED
    BY <2>1, <2>2
<1>10. \A i \in 0..n : i \in R
  <2> HIDE DEF R
  <2>1. \A i \in 0..n : i < n /\ i \in R => i + 1 \in R
    BY <1>9
  <2> QED
    BY <1>8, <2>1, Climb
<1>11. <<l.at, l.dist>> \in W[n]
  BY <1>0, <1>10
<1> QED
  BY <1>2, <1>11

\* When the loop is left, no walk to v is shorter than v's label, and there is
\* none if v has no label.
LEMMA NoWalkShorter ==
  ASSUME NEW u \in Nodes, NEW v, NEW edges \in SUBSET Edges, NEW n \in Nat, NEW s, NEW k,
         SearchInv(s, u, v, edges, k), Stops(s, v),
         NEW walk \in Walks(u, edges, n), walk[1] = v
  PROVE  \E l \in s.reached : l.at = v /\ l.dist <= walk[2]
<1> DEFINE W == WalkSets(u, edges, n)
           Reached(m, w) == m.dist <= w[2] /\ (m.at = w[1] \/ m.at \notin s.visited)
           S == {i \in Nat : \A w \in W[i] : \E m \in s.reached : Reached(m, w)}
<1>0. /\ s.reached \in SUBSET Labels
      /\ \A l \in s.reached : l.dist \in Nat /\ l.at \in Nodes
  BY DEF SearchInv, States, Labels
<1>1. W \in [0..n -> SUBSET Trips] /\ W[0] = {<<u, 0>>} /\ Walks(u, edges, n) = W[n]
  BY WalksAre
<1>2. \A i \in 1..n : W[i] = Longer(W[i - 1], edges)
  BY WalksAre
<1> HIDE DEF W
<1>3. 0 \in S
  <2>1. PICK m \in s.reached : m.at = u /\ m.dist = 0
    BY DEF SearchInv
  <2>2. Reached(m, <<u, 0>>)
    BY <2>1
  <2>3. \A w \in W[0] : w = <<u, 0>>
    BY <1>1
  <2> QED
    BY <2>2, <2>3
<1>4. ASSUME NEW i \in 0..n, i < n, i \in S
      PROVE  i + 1 \in S
  <2> SUFFICES ASSUME NEW x \in W[i + 1]
               PROVE  \E m \in s.reached : Reached(m, x)
    OBVIOUS
  <2>1. W[i] \in SUBSET Trips /\ W[i + 1] = Longer(W[i], edges)
    <3>1. i + 1 \in 1..n /\ (i + 1) - 1 = i
      BY <1>4
    <3> QED
      BY <1>1, <1>2, <3>1
  <2>2. CASE x \in W[i]
    BY <1>4, <2>2
  <2>3. ASSUME NEW w \in W[i], NEW e \in Touching(w[1], edges),
               x = <<OtherEnd(e, w[1]), w[2] + Length[e]>>
        PROVE  \E m \in s.reached : Reached(m, x)
    <3>1. w[1] \in Nodes /\ w[2] \in Nat
      BY <2>1 DEF Trips
    <3>2. Length[e] \in Nat /\ x[1] = OtherEnd(e, w[1]) /\ x[2] = w[2] + Length[e]
      BY <2>3, <3>1, RoadFacts DEF Touching
    <3>3. PICK m \in s.reached : Reached(m, w)
      BY <1>4
    <3>4. CASE m.at \notin s.visited
      <4>1. m.dist <= x[2]
        BY <1>0, <3>1, <3>2, <3>3
      <4> QED
        BY <3>4, <4>1
    <3>5. CASE m.at = w[1] /\ m.at \in s.visited
      <4>1. PICK h \in s.reached : h.at = OtherEnd(e, m.at) /\ h.dist <= m.dist + Length[e]
        BY <3>5 DEF SearchInv
      <4>2. h.at = x[1] /\ h.dist <= x[2]
        BY <1>0, <3>1, <3>2, <3>3, <3>5, <4>1
      <4> QED
        BY <4>2
    <3> QED
      BY <3>3, <3>4, <3>5
  <2>4. x \in W[i] \/ (\E w \in W[i] : \E e \in Touching(w[1], edges) :
                          x = <<OtherEnd(e, w[1]), w[2] + Length[e]>>)
    BY <2>1, LongerIs
  <2> HIDE DEF Reached
  <2> QED
    BY <2>2, <2>3, <2>4
<1>5. \A i \in 0..n : i \in S
  <2> HIDE DEF S
  <2>1. \A i \in 0..n : i < n /\ i \in S => i + 1 \in S
    BY <1>4
  <2> QED
    BY <1>3, <2>1, Climb
<1>6. PICK m \in s.reached : Reached(m, walk)
  BY <1>1, <1>5
<1>7. walk[2] \in Nat
  BY <1>1 DEF Trips
<1>8. CASE m.at = v
  BY <1>6, <1>8
<1>9. CASE m.at \notin s.visited
  <2>1. m \in Open(s) /\ Open(s) \in SUBSET Labels
    BY <1>0, <1>9 DEF Open
  <2>2. Nearest(Open(s)) \in Open(s) /\ Nearest(Open(s)).dist <= m.dist
    BY <2>1, NearestIs
  <2>3. Nearest(Open(s)).at = v /\ Nearest(Open(s)) \in s.reached
    BY <2>1, <2>2 DEF Stops, Open
  <2>4. Nearest(Open(s)).dist <= walk[2]
    BY <1>0, <1>6, <1>7, <2>2, <2>3
  <2> QED
    BY <2>3, <2>4
<1> QED
  BY <1>6, <1>8, <1>9

\* Search finds a way that is as long as it says, and the shortest, or there is
\* no way.
LEMMA SearchExact ==
  ASSUME NEW u \in Nodes, NEW v, NEW edges \in SUBSET Edges
  PROVE  LET found == Search(u, v, edges)
             best == Nearest(found)
         IN  IF found = {}
             THEN \A w \in Walks(u, edges, Len(Order)) : w[1] # v
             ELSE /\ best \in Labels /\ best.at = v /\ Truthful(best, u, edges)
                  /\ <<v, best.dist>> \in Walks(u, edges, Len(Order))
                  /\ \A w \in Walks(u, edges, Len(Order)) : w[1] = v => best.dist <= w[2]
<1> DEFINE s == Rounds(u, v, edges)[Len(Order)]
           found == Search(u, v, edges)
           best == Nearest(found)
<1>0. Len(Order) \in Nat
  BY NodesFinite
<1>1. SearchInv(s, u, v, edges, Len(Order)) /\ Stops(s, v)
  BY SearchEnds
<1>2. found = {l \in s.reached : l.at = v}
  BY DEF Search, Rounds, Start
<1> HIDE DEF s, found
<1>3. found \in SUBSET Labels
  BY <1>1, <1>2 DEF SearchInv, States
<1>4. ASSUME NEW w \in Walks(u, edges, Len(Order)), w[1] = v
      PROVE  \E l \in found : l.dist <= w[2]
  BY <1>0, <1>1, <1>2, <1>4, NoWalkShorter
<1>5. ASSUME found # {}
      PROVE  /\ best \in Labels /\ best.at = v /\ Truthful(best, u, edges)
             /\ <<v, best.dist>> \in Walks(u, edges, Len(Order))
             /\ \A w \in Walks(u, edges, Len(Order)) : w[1] = v => best.dist <= w[2]
  <2>1. best \in found /\ \A m \in found : best.dist <= m.dist
    BY <1>3, <1>5, NearestIs
  <2>2. /\ best \in Labels /\ best \in s.reached /\ best.at = v /\ best.dist \in Nat
        /\ Truthful(best, u, edges) /\ Len(best.path) <= Len(Order)
    BY <1>1, <1>2, <1>3, <2>1 DEF SearchInv, Labels
  <2>3. <<best.at, best.dist>> \in Walks(u, edges, Len(Order))
    BY <1>0, <2>2, LabelIsWalk
  <2>4. Walks(u, edges, Len(Order)) \in SUBSET Trips
    BY <1>0, WalksAre
  <2>5. ASSUME NEW w \in Walks(u, edges, Len(Order)), w[1] = v
        PROVE  best.dist <= w[2]
    <3>1. PICK l \in found : l.dist <= w[2]
      BY <1>4, <2>5
    <3>2. best.dist <= l.dist /\ l.dist \in Nat /\ w[2] \in Nat
      BY <1>3, <2>1, <2>4 DEF Labels, Trips
    <3> QED
      BY <2>2, <3>1, <3>2
  <2> QED
    BY <2>2, <2>3, <2>5
<1> QED
  BY <1>4, <1>5 DEF found

-----------------------------------------------------------------------------
(* The answers of Dijkstra.                                                *)

\* The least number of a set is the one no other is below.
LEMMA MinIs ==
  ASSUME NEW S \in SUBSET Nat, NEW n \in S, \A m \in S : n <= m
  PROVE  Min(S) = n
<1>1. \A k \in S : (\A m \in S : k <= m) => k = n
  OBVIOUS
<1> QED
  BY <1>1 DEF Min

LEMMA Square ==
  ASSUME NEW a \in Int
  PROVE  a * a \in Nat
<1>1. CASE a >= 0
  BY <1>1
<1>2. CASE a < 0
  <2>1. (-a) * (-a) \in Nat /\ (-a) * (-a) = a * a
    BY <1>2
  <2> QED
    BY <2>1
<1> QED
  BY <1>1, <1>2

\* There is a node closest to every point.
LEMMA ClosestIsNode ==
  ASSUME NEW p \in Int \X Int
  PROVE  findClosestNode(p) \in Nodes
<1> DEFINE D == {DistanceTo(w, p) : w \in Nodes}
           close == {i \in DOMAIN Order : \A w \in Nodes : DistanceTo(Order[i], p) <= DistanceTo(w, p)}
<1>0. Order \in Seq(Nodes) /\ Len(Order) > 0 /\ At \in [Nodes -> Int \X Int]
  BY RoutingAssumption
<1>1. /\ Len(Order) \in Nat /\ DOMAIN Order = 1..Len(Order)
      /\ \A i \in 1..Len(Order) : Order[i] \in Nodes
      /\ Order[1] \in Nodes
      /\ \A w \in Nodes : \E i \in 1..Len(Order) : Order[i] = w
  BY <1>0 DEF Nodes, Range
<1>2. \A w \in Nodes : DistanceTo(w, p) \in Nat
  <2> SUFFICES ASSUME NEW w \in Nodes
               PROVE  DistanceTo(w, p) \in Nat
    OBVIOUS
  <2>1. At[w][1] - p[1] \in Int /\ At[w][2] - p[2] \in Int
    BY <1>0
  <2>2. /\ (At[w][1] - p[1]) * (At[w][1] - p[1]) \in Nat
        /\ (At[w][2] - p[2]) * (At[w][2] - p[2]) \in Nat
    BY <2>1, Square
  <2> QED
    BY <2>2 DEF DistanceTo
<1>3. D \in SUBSET Nat /\ D # {}
  BY <1>1, <1>2
<1>4. PICK d \in D : \A n \in D : d <= n
  BY <1>3, Least
<1>5. PICK w \in Nodes : \A x \in Nodes : DistanceTo(w, p) <= DistanceTo(x, p)
  BY <1>4
<1>6. close \in SUBSET Nat /\ close # {}
  BY <1>1, <1>5
<1>7. PICK i \in close : \A j \in close : i <= j
  BY <1>6, Least
<1>8. Min(close) = i /\ i \in 1..Len(Order)
  <2>1. i \in 1..Len(Order)
    BY <1>1
  <2> HIDE DEF close
  <2> QED
    BY <1>6, <1>7, <2>1, MinIs
<1> QED
  BY <1>1, <1>8 DEF findClosestNode

Questions == Places \X Places \X Avoids
Givers == {"nobody", "dijkstra", "tomtom", "ors", "memory", "line"}
Replies == [by : Givers, off : SUBSET Areas, path : Seq(Edges), length : Nat]

LEMMA NothingIs == Nothing \in Replies /\ Nothing.by = "nobody"
<1>1. Nothing = [by |-> "nobody", off |-> {}, path |-> <<>>, length |-> 0]
  BY DEF Nothing, Answer
<1>2. "nobody" \in Givers /\ {} \in SUBSET Areas /\ <<>> \in Seq(Edges) /\ 0 \in Nat
  BY DEF Givers
<1>3. [by |-> "nobody", off |-> {}, path |-> <<>>, length |-> 0] \in Replies
  BY <1>2 DEF Replies
<1> QED
  BY <1>1, <1>3

\* The roads that are left are roads.
LEMMA QuestionIs ==
  ASSUME NEW q \in Questions
  PROVE  /\ findClosestNode(q[1]) \in Nodes /\ findClosestNode(q[2]) \in Nodes
         /\ activeEdges(q[3]) \in SUBSET Edges /\ q[3] \in SUBSET Areas
<1>1. Places \subseteq Int \X Int
  BY RoutingAssumption
<1>2. q[1] \in Int \X Int /\ q[2] \in Int \X Int /\ q[3] \in Avoids
  BY <1>1 DEF Questions
<1>3. findClosestNode(q[1]) \in Nodes /\ findClosestNode(q[2]) \in Nodes
  BY <1>2, ClosestIsNode
<1>4. activeEdges(q[3]) \in SUBSET Edges
  BY DEF activeEdges
<1>5. q[3] \in SUBSET Areas
  BY <1>2 DEF Avoids, kSubset
<1> QED
  BY <1>3, <1>4, <1>5

\* An answer of Dijkstra to a question: a way over dry roads, as long as it says.
Way(a, q) ==
    \E pos, sum :
        /\ Along(a.path, pos, sum, findClosestNode(q[1]), activeEdges(q[3]))
        /\ pos[Len(a.path)] = findClosestNode(q[2]) /\ sum[Len(a.path)] = a.length

LEMMA DijkstraIs ==
  ASSUME NEW q \in Questions
  PROVE  /\ Dijkstra[q] \in Replies
         /\ Dijkstra[q] = Nothing <=> Lengths(q[1], q[2], q[3]) = {}
         /\ Dijkstra[q] # Nothing => /\ Way(Dijkstra[q], q)
                                     /\ Min(Lengths(q[1], q[2], q[3])) = Dijkstra[q].length
<1> DEFINE u == findClosestNode(q[1])
           v == findClosestNode(q[2])
           edges == activeEdges(q[3])
           walks == Walks(u, edges, Len(Order))
           lengths == Lengths(q[1], q[2], q[3])
           found == Search(u, v, edges)
           best == Nearest(found)
           a == Dijkstra[q]
<1> SUFFICES /\ a \in Replies
             /\ a = Nothing <=> lengths = {}
             /\ a # Nothing => Way(a, q) /\ Min(lengths) = a.length
  OBVIOUS
<1>1. u \in Nodes /\ v \in Nodes /\ edges \in SUBSET Edges /\ q[3] \in SUBSET Areas
  BY QuestionIs
<1>2. a = IF found = {} THEN Nothing ELSE Answer("dijkstra", q[3], best.path, best.dist)
  BY DEF Dijkstra, Questions
<1>3. lengths = {w[2] : w \in {x \in walks : x[1] = v}}
  BY DEF Lengths
<1>4. walks \in SUBSET Trips
  BY <1>1, WalksAre, NodesFinite
<1>5. lengths \in SUBSET Nat
  BY <1>3, <1>4 DEF Trips
<1>6. found = {} => \A w \in walks : w[1] # v
  BY <1>1, SearchExact
<1>7. found # {} => /\ best \in Labels /\ best.at = v /\ Truthful(best, u, edges)
                    /\ <<v, best.dist>> \in walks
                    /\ \A w \in walks : w[1] = v => best.dist <= w[2]
  BY <1>1, SearchExact
<1> HIDE DEF u, v, edges, walks, found, best, lengths, a
<1>8. CASE found = {}
  <2>1. a = Nothing /\ Nothing \in Replies
    BY <1>2, <1>8, NothingIs
  <2>2. lengths = {}
    BY <1>3, <1>6, <1>8
  <2> QED
    BY <2>1, <2>2
<1>9. CASE found # {}
  <2>1. /\ a = [by |-> "dijkstra", off |-> q[3], path |-> best.path, length |-> best.dist]
        /\ a.by = "dijkstra" /\ a.path = best.path /\ a.length = best.dist
    BY <1>2, <1>9 DEF Answer
  <2>2. best.path \in Seq(Edges) /\ best.dist \in Nat
    BY <1>7, <1>9 DEF Labels
  <2>3. a \in Replies /\ a # Nothing
    <3>1. a \in Replies
      BY <1>1, <2>1, <2>2 DEF Replies, Givers
    <3> QED
      BY <2>1, <3>1, NothingIs
  <2>4. a.length \in lengths
    BY <1>3, <1>7, <1>9, <2>1
  <2>5. \A n \in lengths : a.length <= n
    BY <1>3, <1>7, <1>9, <2>1
  <2>6. Min(lengths) = a.length
    BY <1>5, <2>4, <2>5, MinIs
  <2>7. Way(a, q)
    <3>1. PICK pos, sum : /\ Along(best.path, pos, sum, u, edges)
                          /\ pos[Len(best.path)] = v /\ sum[Len(best.path)] = best.dist
      BY <1>7, <1>9 DEF Truthful
    <3> QED
      BY <2>1, <3>1 DEF Way, u, v, edges
  <2> QED
    BY <2>3, <2>4, <2>6, <2>7
<1> QED
  BY <1>8, <1>9

\* The lengths that DijkstraExact measures a route by, for a question.
LEMMA ShortestDryIs ==
  ASSUME NEW q \in Questions
  PROVE  {s[2] : s \in {x \in ShortestDry : x[1] = q}} =
         IF Lengths(q[1], q[2], q[3]) = {} THEN {} ELSE {Min(Lengths(q[1], q[2], q[3]))}
<1> DEFINE some(p) == Lengths(p[1], p[2], p[3])
           pairs == {x \in ShortestDry : x[1] = q}
<1>1. \A x : x \in ShortestDry <=> \E p \in Questions : some(p) # {} /\ x = <<p, Min(some(p))>>
  BY DEF ShortestDry, Questions
<1> HIDE DEF some
<1>2. \A x : x \in pairs <=> some(q) # {} /\ x = <<q, Min(some(q))>>
  BY <1>1
<1> HIDE DEF pairs
<1>3. {s[2] : s \in pairs} = IF some(q) = {} THEN {} ELSE {Min(some(q))}
  <2>1. CASE some(q) = {}
    <3>1. pairs = {}
      BY <1>2, <2>1
    <3> QED
      BY <2>1, <3>1
  <2>2. CASE some(q) # {}
    <3>1. pairs = {<<q, Min(some(q))>>}
      BY <1>2, <2>2
    <3> QED
      BY <2>2, <3>1
  <2> QED
    BY <2>1, <2>2
<1> QED
  BY <1>3 DEF some, pairs

\* The places and lengths along a path are determined by it.
LEMMA WayIs ==
  ASSUME NEW u \in Nodes, NEW edges \in SUBSET Edges, NEW path \in Seq(Edges), NEW pos, NEW sum,
         Along(path, pos, sum, u, edges)
  PROVE  /\ (CHOOSE at : at = [i \in 0..Len(path) |->
                                 IF i = 0 THEN u ELSE OtherEnd(path[i], at[i - 1])]) = pos
         /\ (CHOOSE length : length = [i \in 0..Len(path) |->
                                 IF i = 0 THEN 0 ELSE length[i - 1] + Length[path[i]]]) = sum
<1> DEFINE n == Len(path)
           IsPos(at) == at = [i \in 0..n |-> IF i = 0 THEN u ELSE OtherEnd(path[i], at[i - 1])]
           IsSum(length) == length = [i \in 0..n |-> IF i = 0 THEN 0 ELSE length[i - 1] + Length[path[i]]]
<1>0. n \in Nat
  OBVIOUS
<1>1. IsPos(pos) /\ IsSum(sum)
  BY <1>0 DEF Along
<1>2. ASSUME NEW at, IsPos(at)
      PROVE  at = pos
  <2> DEFINE S == {i \in Nat : at[i] = pos[i]}
  <2>1. 0 \in S
    BY <1>0, <1>1, <1>2
  <2>2. \A i \in 0..n : i < n /\ i \in S => i + 1 \in S
    BY <1>0, <1>1, <1>2
  <2> HIDE DEF S, n
  <2>3. \A i \in 0..n : i \in S
    BY <1>0, <2>1, <2>2, Climb
  <2>4. \A i \in 0..n : at[i] = pos[i]
    BY <2>3 DEF S
  <2> QED
    BY <1>1, <1>2, <2>4
<1>3. ASSUME NEW length, IsSum(length)
      PROVE  length = sum
  <2> DEFINE S == {i \in Nat : length[i] = sum[i]}
  <2>1. 0 \in S
    BY <1>0, <1>1, <1>3
  <2>2. \A i \in 0..n : i < n /\ i \in S => i + 1 \in S
    BY <1>0, <1>1, <1>3
  <2> HIDE DEF S, n
  <2>3. \A i \in 0..n : i \in S
    BY <1>0, <2>1, <2>2, Climb
  <2>4. \A i \in 0..n : length[i] = sum[i]
    BY <2>3 DEF S
  <2> QED
    BY <1>1, <1>3, <2>4
<1>4. IsPos(CHOOSE at : IsPos(at)) /\ IsSum(CHOOSE length : IsSum(length))
  BY <1>1
<1>5. (CHOOSE at : IsPos(at)) = pos /\ (CHOOSE length : IsSum(length)) = sum
  BY <1>2, <1>3, <1>4
<1> QED
  BY <1>5

-----------------------------------------------------------------------------
(* The requests, step by step.                                             *)

Pcs == {"idle", "primary", "fetch", "failed", "answered", "refused"}
Requests == [pc : Pcs, who : {"map", "dispatch"}, from : Places \cup {0}, to : Places \cup {0},
             avoid : Avoids \cup {{}}, aux : Replies, answer : Replies]
Asks(r) == <<r.from, r.to, r.avoid>>

\* A reply that only Dijkstra gives, to the question that was asked.
RightReply(a, r) == Asks(r) \in Questions /\ Dijkstra[Asks(r)] # Nothing /\ a = Dijkstra[Asks(r)]

\* A request in flight is one of the map or of a dispatch; what it was answered
\* and what waits beside it is Dijkstra's reply, and so is a refusal.
RequestOK(r) ==
    /\ r.pc \in {"primary", "fetch", "failed", "refused"} => Asks(r) \in Questions
    /\ r.pc = "fetch" => Provider # "dijkstra"
    /\ r.pc = "refused" => Dijkstra[Asks(r)] = Nothing
    /\ r.aux # Nothing => RightReply(r.aux, r)
    /\ r.answer.by = "dijkstra" => RightReply(r.answer, r)

KnownOK == \A k \in known : k.off \in SUBSET Areas
AskInv ==
    /\ ask \in [Clients -> Requests] /\ KnownOK
    /\ \A c \in Clients : RequestOK(ask[c])

\* A client moves on, the others stay.
LEMMA GoesKeeps ==
  ASSUME AskInv, NEW c \in Clients, NEW next \in Requests, RequestOK(next), Goes(c, next),
         service' = service, KnownOK'
  PROVE  AskInv'
<1>1. ask' \in [Clients -> Requests]
  BY DEF AskInv, Goes
<1>2. \A d \in Clients : ask'[d] = IF d = c THEN next ELSE ask[d]
  BY DEF AskInv, Goes
<1>3. Provider' = Provider
  BY DEF Provider
<1>4. ASSUME NEW r
      PROVE  RequestOK(r) => (/\ r.pc \in {"primary", "fetch", "failed", "refused"} => Asks(r) \in Questions
                              /\ r.pc = "fetch" => Provider' # "dijkstra"
                              /\ r.pc = "refused" => Dijkstra[Asks(r)] = Nothing
                              /\ r.aux # Nothing => RightReply(r.aux, r)
                              /\ r.answer.by = "dijkstra" => RightReply(r.answer, r))
  BY <1>3 DEF RequestOK
<1>5. \A d \in Clients : RequestOK(ask'[d])
  BY <1>2 DEF AskInv
<1>6. (\A d \in Clients : RequestOK(ask[d]))'
  BY <1>4, <1>5 DEF RequestOK
<1> QED
  BY <1>1, <1>6 DEF AskInv

LEMMA PcMoves ==
  ASSUME NEW r \in Requests, NEW pc \in Pcs
  PROVE  LET next == [r EXCEPT !.pc = pc] IN
         /\ next \in Requests
         /\ next.pc = pc /\ Asks(next) = Asks(r) /\ next.aux = r.aux /\ next.answer = r.answer
BY DEF Requests, Asks

\* A client is given a reply.
LEMMA AnswersKeeps ==
  ASSUME AskInv, NEW c \in Clients, NEW a \in Replies, Answers(c, a),
         a.by = "dijkstra" => RightReply(a, ask[c]),
         service' = service, KnownOK'
  PROVE  AskInv'
<1> DEFINE r == ask[c]
           next == [r EXCEPT !.pc = "answered", !.answer = a, !.aux = Nothing]
<1>1. r \in Requests
  BY DEF AskInv
<1>2. Goes(c, next)
  BY DEF Answers
<1>3. a.by = "dijkstra" => RightReply(a, r)
  OBVIOUS
<1> HIDE DEF r
<1>4. /\ next \in Requests
      /\ next.pc = "answered" /\ Asks(next) = Asks(r) /\ next.aux = Nothing /\ next.answer = a
  BY <1>1, NothingIs DEF Requests, Asks, Pcs
<1> HIDE DEF next
<1>5. RequestOK(next)
  BY <1>3, <1>4 DEF RequestOK, RightReply
<1> QED
  BY <1>2, <1>4, <1>5, GoesKeeps

\* What the other providers, the memory and the straight line give.
LEMMA LineIs ==
  ASSUME NEW by \in Givers \ {"dijkstra"}, NEW off \in SUBSET Areas
  PROVE  Answer(by, off, <<>>, 0) \in Replies /\ Answer(by, off, <<>>, 0).by # "dijkstra"
BY DEF Answer, Replies

LEMMA ProviderIs == Provider \in {"dijkstra", "tomtom", "ors"}
BY DEF Provider

\* No step of a request breaks it.
LEMMA AskingKeeps ==
  ASSUME AskInv, NEW c \in Clients, Asking(c)
  PROVE  AskInv'
<1> DEFINE r == ask[c]
<1>1. r \in Requests /\ RequestOK(r) /\ r.pc \in Pcs /\ Question(c) = Asks(r)
  BY DEF AskInv, Requests, Question, Asks
<1>2. service' = service
  BY DEF Asking, Receives, AsksDijkstra, AsksOrs, TakesKnown, CallsTomTom, FetchAnswers, FetchFails,
         FallsBack
<1>3. known' = known => KnownOK'
  BY DEF AskInv, KnownOK
<1>4. CASE Receives(c)
  <2>1. PICK who \in {"map", "dispatch"}, from \in Places, to \in Places, avoid \in Avoids :
           Goes(c, [pc |-> "primary", who |-> who, from |-> from, to |-> to,
                    avoid |-> avoid, answer |-> Nothing,
                    aux |-> IF who = "map" /\ AuxFirst THEN Dijkstra[<<from, to, avoid>>]
                            ELSE Nothing])
    BY <1>4 DEF Receives
  <2> DEFINE q == <<from, to, avoid>>
             aux == IF who = "map" /\ AuxFirst THEN Dijkstra[q] ELSE Nothing
             next == [pc |-> "primary", who |-> who, from |-> from, to |-> to,
                      avoid |-> avoid, answer |-> Nothing, aux |-> aux]
  <2>2. q \in Questions
    BY DEF Questions
  <2>3. aux \in Replies /\ (aux # Nothing => aux = Dijkstra[q])
    BY <2>2, DijkstraIs, NothingIs, Zenon
  <2> HIDE DEF aux
  <2>4. next \in Requests /\ next.pc = "primary" /\ next.answer = Nothing /\ next.aux = aux
    BY <2>3, NothingIs DEF Requests, Pcs
  <2>5. Asks(next) = q
    BY DEF Asks
  <2>6. Goes(c, next)
    BY <2>1 DEF aux
  <2> HIDE DEF next, q
  <2>7. RequestOK(next)
    BY <2>2, <2>3, <2>4, <2>5, NothingIs DEF RequestOK, RightReply
  <2>8. KnownOK'
    BY <1>3, <1>4 DEF Receives
  <2> QED
    BY <1>2, <2>4, <2>6, <2>7, <2>8, GoesKeeps
<1>5. CASE AsksDijkstra(c)
  <2>1. KnownOK' /\ r.pc = "primary"
    BY <1>3, <1>5 DEF AsksDijkstra
  <2>2. Asks(r) \in Questions
    BY <1>1, <2>1 DEF RequestOK
  <2>3. CASE Dijkstra[Asks(r)] = Nothing
    <3>1. Goes(c, [r EXCEPT !.pc = "failed"])
      BY <1>1, <1>5, <2>3 DEF AsksDijkstra
    <3>2. [r EXCEPT !.pc = "failed"] \in Requests /\ RequestOK([r EXCEPT !.pc = "failed"])
      BY <1>1, <2>1, PcMoves DEF RequestOK, RightReply, Pcs
    <3> QED
      BY <1>2, <2>1, <3>1, <3>2, GoesKeeps
  <2>4. CASE Dijkstra[Asks(r)] # Nothing
    <3>1. Answers(c, Dijkstra[Asks(r)])
      BY <1>1, <1>5, <2>4 DEF AsksDijkstra
    <3>2. Dijkstra[Asks(r)] \in Replies /\ RightReply(Dijkstra[Asks(r)], r)
      BY <2>2, <2>4, DijkstraIs DEF RightReply
    <3> QED
      BY <1>2, <2>1, <3>1, <3>2, AnswersKeeps
  <2> QED
    BY <2>3, <2>4
<1>6. CASE FallsBack(c)
  <2> DEFINE again == IF r.aux # Nothing THEN r.aux ELSE Dijkstra[Asks(r)]
  <2>1. KnownOK' /\ r.pc = "failed"
    BY <1>3, <1>6 DEF FallsBack
  <2>2. Asks(r) \in Questions /\ Dijkstra[Asks(r)] \in Replies
    BY <1>1, <2>1, DijkstraIs DEF RequestOK
  <2>3. again = Dijkstra[Asks(r)]
    BY <1>1 DEF RequestOK, RightReply
  <2>4. CASE r.who = "dispatch"
    <3>1. Answers(c, Answer("line", {}, <<>>, 0))
      BY <1>6, <2>4 DEF FallsBack
    <3> QED
      BY <1>2, <2>1, <3>1, LineIs, AnswersKeeps DEF Givers
  <2>5. CASE r.who # "dispatch" /\ again # Nothing
    <3>1. r.who = "map"
      BY <1>1, <2>5 DEF Requests
    <3>2. Answers(c, Dijkstra[Asks(r)])
      BY <1>1, <1>6, <2>3, <2>5, <3>1 DEF FallsBack
    <3>3. RightReply(Dijkstra[Asks(r)], r)
      BY <2>2, <2>3, <2>5 DEF RightReply
    <3> QED
      BY <1>2, <2>1, <2>2, <3>2, <3>3, AnswersKeeps
  <2>6. CASE r.who # "dispatch" /\ again = Nothing
    <3>1. Goes(c, [r EXCEPT !.pc = "refused"])
      BY <1>1, <1>6, <2>6 DEF FallsBack
    <3>2. [r EXCEPT !.pc = "refused"] \in Requests /\ RequestOK([r EXCEPT !.pc = "refused"])
      BY <1>1, <2>1, <2>2, <2>3, <2>6, PcMoves DEF RequestOK, RightReply, Pcs
    <3> QED
      BY <1>2, <2>1, <3>1, <3>2, GoesKeeps
  <2> QED
    BY <2>4, <2>5, <2>6
<1>7. CASE AsksOrs(c) \/ CallsTomTom(c) \/ FetchFails(c)
  <2>1. KnownOK'
    BY <1>3, <1>7 DEF AsksOrs, CallsTomTom, FetchFails
  <2>2. PICK pc \in {"fetch", "failed"} :
           Goes(c, [r EXCEPT !.pc = pc]) /\ (pc = "fetch" => Provider # "dijkstra")
    BY <1>7 DEF AsksOrs, CallsTomTom, FetchFails
  <2>3. r.pc \in {"primary", "fetch"}
    BY <1>7 DEF AsksOrs, CallsTomTom, FetchFails
  <2> DEFINE next == [r EXCEPT !.pc = pc]
  <2>4. /\ next \in Requests
        /\ next.pc = pc /\ Asks(next) = Asks(r) /\ next.aux = r.aux /\ next.answer = r.answer
    <3>1. pc \in Pcs
      BY DEF Pcs
    <3> QED
      BY <1>1, <3>1, PcMoves
  <2>5. Asks(r) \in Questions
    BY <1>1, <2>3 DEF RequestOK
  <2> HIDE DEF next, r
  <2>6. RequestOK(next)
    BY <1>1, <2>2, <2>4, <2>5 DEF RequestOK, RightReply
  <2>7. Goes(c, next)
    BY <2>2 DEF next
  <2> QED
    BY <1>2, <2>1, <2>4, <2>6, <2>7, GoesKeeps
<1>8. CASE TakesKnown(c)
  <2>1. PICK k \in known : Answers(c, Answer("memory", k.off, <<>>, 0))
    BY <1>8 DEF TakesKnown, KnownFor
  <2>2. KnownOK' /\ k.off \in SUBSET Areas
    BY <1>3, <1>8 DEF TakesKnown, AskInv, KnownOK
  <2> QED
    BY <1>2, <2>1, <2>2, LineIs, AnswersKeeps DEF Givers
<1>9. CASE FetchAnswers(c)
  <2>1. Answers(c, Answer(Provider, ask[c].avoid, <<>>, 0)) /\ r.pc = "fetch"
    BY <1>9 DEF FetchAnswers
  <2>2. Provider \in {"tomtom", "ors"} /\ ask[c].avoid \in SUBSET Areas
    <3>1. Asks(r) \in Questions /\ Asks(r)[3] = r.avoid
      BY <1>1, <2>1 DEF RequestOK, Asks
    <3> QED
      BY <1>1, <2>1, <3>1, ProviderIs, QuestionIs DEF RequestOK
  <2>3. KnownOK'
    BY <1>9, <2>2 DEF FetchAnswers, AskInv, KnownOK
  <2> QED
    BY <1>2, <2>1, <2>2, <2>3, LineIs, AnswersKeeps DEF Givers
<1> QED
  BY <1>4, <1>5, <1>6, <1>7, <1>8, <1>9 DEF Asking

\* The process starts, and starts again, with nothing under way.
LEMMA IdleOK == Idle \in Requests /\ RequestOK(Idle)
<1>1. /\ Idle = [pc |-> "idle", who |-> "map", from |-> 0, to |-> 0, avoid |-> {},
                 aux |-> Nothing, answer |-> Nothing]
      /\ Idle.pc = "idle" /\ Idle.aux = Nothing /\ Idle.answer = Nothing
  BY DEF Idle
<1>2. Idle \in Requests
  BY <1>1, NothingIs DEF Requests, Pcs
<1> QED
  BY <1>1, <1>2, NothingIs DEF RequestOK

LEMMA AskInvHolds == Spec => []AskInv
<1>1. Init => AskInv
  BY IdleOK DEF Init, AskInv, KnownOK
<1>2. AskInv /\ [Next]_vars => AskInv'
  <2> SUFFICES ASSUME AskInv, [Next]_vars
               PROVE  AskInv'
    OBVIOUS
  <2>1. ASSUME UNCHANGED <<service, ask>>, known' \subseteq known
        PROVE  AskInv'
    <3>1. \A c \in Clients : RequestOK(ask[c])'
      BY <2>1 DEF AskInv, RequestOK, Provider
    <3> QED
      BY <2>1, <3>1 DEF AskInv, KnownOK
  <2>2. CASE RouteExpires
    BY <2>1, <2>2 DEF RouteExpires
  <2>3. CASE DayEnds \/ UNCHANGED vars
    BY <2>1, <2>3 DEF DayEnds, vars
  <2>4. CASE Restart
    <3>1. ask' = [c \in Clients |-> Idle] /\ known' = {} /\ service' = service
      BY <2>4 DEF Restart
    <3>2. Provider' = Provider
      BY <3>1 DEF Provider
    <3>3. \A c \in Clients : RequestOK(ask[c])'
      BY <3>1, <3>2, IdleOK DEF RequestOK
    <3> QED
      BY <3>1, <3>3, IdleOK DEF AskInv, KnownOK
  <2> QED
    BY <2>2, <2>3, <2>4, AskingKeeps DEF Next
<1> QED
  BY <1>1, <1>2, PTL DEF Spec

\* What DijkstraExact says of a client that Dijkstra answered.
LEMMA ReplyIs ==
  ASSUME AskInv, NEW c \in ByDijkstra
  PROVE  LET q == Question(c)
             a == ask[c].answer
         IN  /\ c \in Clients /\ q \in Questions /\ a \in Replies
             /\ Way(a, q) /\ DryLength(c) = {a.length}
<1> DEFINE q == Question(c)
           a == ask[c].answer
<1>1. c \in Clients /\ q \in Questions /\ Dijkstra[q] # Nothing /\ a = Dijkstra[q]
  BY DEF ByDijkstra, AskInv, RequestOK, RightReply, Asks, Question
<1> HIDE DEF q, a
<1>2. /\ a \in Replies /\ Way(a, q) /\ Lengths(q[1], q[2], q[3]) # {}
      /\ Min(Lengths(q[1], q[2], q[3])) = a.length
  BY <1>1, DijkstraIs
<1>3. DryLength(c) = {a.length}
  BY <1>1, <1>2, ShortestDryIs DEF DryLength, q
<1> QED
  BY <1>1, <1>2, <1>3 DEF q, a

\* Whatever the graph, the zones and the order of events: a route of Dijkstra is
\* a walk from the checkpoint nearest to the start to the one nearest to the end,
\* as long as it says, and no way over dry roads is shorter.
THEOREM DijkstraIsExact == Spec => []DijkstraExact
<1>1. AskInv => DijkstraExact
  <2> SUFFICES ASSUME AskInv, NEW c \in ByDijkstra
               PROVE  LET path == ask[c].answer.path
                          at == CHOOSE at : at = [i \in 0..Len(path) |->
                                   IF i = 0 THEN findClosestNode(ask[c].from)
                                   ELSE OtherEnd(path[i], at[i - 1])]
                          length == CHOOSE length : length = [i \in 0..Len(path) |->
                                   IF i = 0 THEN 0 ELSE length[i - 1] + Length[path[i]]]
                      IN  /\ \A i \in DOMAIN path : path[i] \in Touching(at[i - 1], Edges)
                          /\ at[Len(path)] = findClosestNode(ask[c].to)
                          /\ length[Len(path)] = ask[c].answer.length
                          /\ DryLength(c) = {ask[c].answer.length}
    BY DEF DijkstraExact
  <2> DEFINE q == Question(c)
             a == ask[c].answer
             path == a.path
             u == findClosestNode(q[1])
             edges == activeEdges(q[3])
  <2>1. /\ q \in Questions /\ a \in Replies /\ Way(a, q) /\ DryLength(c) = {a.length}
        /\ q[1] = ask[c].from /\ q[2] = ask[c].to
    BY ReplyIs DEF Question
  <2>2. u \in Nodes /\ edges \in SUBSET Edges
    BY <2>1, QuestionIs
  <2>3. path \in Seq(Edges) /\ DOMAIN path = 1..Len(path)
    BY <2>1 DEF Replies
  <2>4. PICK pos, sum : /\ Along(path, pos, sum, u, edges)
                        /\ pos[Len(path)] = findClosestNode(q[2]) /\ sum[Len(path)] = a.length
    BY <2>1 DEF Way
  <2>5. \A i \in 1..Len(path) : path[i] \in Touching(pos[i - 1], Edges)
    BY <2>2, <2>4 DEF Along, Touching
  <2>6. u = findClosestNode(ask[c].from)
    BY <2>1
  <2> HIDE DEF q, a, path, u, edges
  <2>7. /\ (CHOOSE at : at = [i \in 0..Len(path) |->
                               IF i = 0 THEN u ELSE OtherEnd(path[i], at[i - 1])]) = pos
        /\ (CHOOSE length : length = [i \in 0..Len(path) |->
                               IF i = 0 THEN 0 ELSE length[i - 1] + Length[path[i]]]) = sum
    BY <2>2, <2>3, <2>4, WayIs
  <2> QED
    BY <2>1, <2>3, <2>4, <2>5, <2>6, <2>7 DEF path, a
<1> QED
  BY <1>1, AskInvHolds, PTL

\* The map is told that a place is cut off only when no walk over dry roads, of
\* up to as many edges as there are checkpoints, leads there.
THEOREM RefusedIsCutOff == Spec => []RefusedMeansCutOff
<1>1. AskInv => RefusedMeansCutOff
  <2> SUFFICES ASSUME AskInv, NEW c \in Clients, ask[c].pc = "refused"
               PROVE  DryLength(c) = {}
    BY DEF RefusedMeansCutOff
  <2> DEFINE q == Question(c)
  <2>1. q \in Questions /\ Dijkstra[q] = Nothing
    BY DEF AskInv, RequestOK, Asks, Question
  <2> HIDE DEF q
  <2>2. Lengths(q[1], q[2], q[3]) = {}
    BY <2>1, DijkstraIs
  <2> QED
    BY <2>1, <2>2, ShortestDryIs DEF DryLength, q
<1> QED
  BY <1>1, AskInvHolds, PTL

\* A route of Dijkstra takes no road that isEdgeBlocked turned away for a zone it
\* was told to avoid.
OnOpenRoads ==
    \A c \in ByDijkstra : \A e \in Range(ask[c].answer.path) : \A ring \in ask[c].avoid :
        <<e, ring>> \notin Blocked

\* So it keeps off every flood, if the test of the code turns away each road that
\* runs through one.
THEOREM RoutesKeepOff == Spec => [](OnOpenRoads /\ (Flooded \subseteq Blocked => KeepsOff))
<1>1. AskInv => OnOpenRoads
  <2> SUFFICES ASSUME AskInv, NEW c \in ByDijkstra, NEW e \in Range(ask[c].answer.path),
                      NEW ring \in ask[c].avoid
               PROVE  <<e, ring>> \notin Blocked
    BY DEF OnOpenRoads
  <2> DEFINE q == Question(c)
             a == ask[c].answer
             path == a.path
  <2>1. q \in Questions /\ a \in Replies /\ Way(a, q) /\ q[3] = ask[c].avoid
    BY ReplyIs DEF Question
  <2>2. path \in Seq(Edges) /\ DOMAIN path = 1..Len(path)
    BY <2>1 DEF Replies
  <2>3. PICK i \in 1..Len(path) : path[i] = e
    BY <2>2 DEF Range
  <2>4. PICK pos, sum : Along(path, pos, sum, findClosestNode(q[1]), activeEdges(q[3]))
    BY <2>1 DEF Way
  <2>5. e \in activeEdges(q[3])
    BY <2>3, <2>4 DEF Along, Touching
  <2> QED
    BY <2>1, <2>5 DEF activeEdges
<1>2. OnOpenRoads /\ Flooded \subseteq Blocked => KeepsOff
  BY DEF OnOpenRoads, KeepsOff
<1> QED
  BY <1>1, <1>2, AskInvHolds, PTL
=============================================================================
