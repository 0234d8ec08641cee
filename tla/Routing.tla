------------------------------- MODULE Routing ------------------------------
(***************************************************************************)
(* Routes that keep off flooded areas.  A request of the map, or a dispatch *)
(* that ranks teams, asks the configured provider; TomTom is asked within a *)
(* daily quota and remembered, and Dijkstra over the city's own graph of    *)
(* checkpoints stands in for it.  Counters and routes are kept in memory.   *)
(***************************************************************************)
EXTENDS FloodGeometry, SequencesExt

CONSTANTS
    Clients,       \* requests that may be in flight at once
    Places,        \* points to start from and go to
    Areas,         \* rings a flood zone may have
    MaxAvoid,      \* how many zones a request names
    Order,         \* the nodes of a graph, in the order of its file
    At,            \* [nodes -> points]
    Ends,          \* [edges -> <<start node, end node>>]
    Length,        \* [edges -> Nat]
    Shape,         \* [edges -> sequences of points]
    Services,      \* values of ROUTING_SERVICE, "" if it is not set
    DailyLimit,
    MaxAsks,       \* bound on requests
    MaxStarts      \* bound on starts of the process

Nodes == Range(Order)
Edges == DOMAIN Ends

ASSUME RoutingAssumption ==
    /\ Order \in Seq(Nodes) /\ Len(Order) > 0
    /\ At \in [Nodes -> Int \X Int] /\ Places \subseteq Int \X Int
    /\ Ends \in [Edges -> Nodes \X Nodes]
    /\ Length \in [Edges -> Nat \ {0}]
    /\ Services \subseteq {"", "DIJKSTRA", "TOMTOM", "ORS"}
    /\ DailyLimit \in Nat /\ MaxStarts \in Nat /\ MaxAvoid \in Nat /\ MaxAsks \in Nat

VARIABLES
    service,    \* ROUTING_SERVICE of this process
    asks,       \* history: how many requests there were
    ask,        \* the requests in flight, and what they were answered
    known,      \* TomTom routes that are remembered
    used,       \* dailyCallCount
    newDay,     \* the count is from a day that is over
    paid,       \* history: calls to TomTom this day
    starts      \* history: starts of the process this day

vars == <<service, asks, ask, known, used, newDay, paid, starts>>

\* An answer: who gave it, the zones it keeps off, the checkpoint edges it
\* follows and their length.
Answer(by, off, path, length) == [by |-> by, off |-> off, path |-> path, length |-> length]
Nothing == Answer("nobody", {}, <<>>, 0)
Idle == [pc |-> "idle", who |-> "map", from |-> 0, to |-> 0, avoid |-> {},
         aux |-> Nothing, answer |-> Nothing]
\* md5 of the rounded points and the number of zones.
Key(from, to, avoid) == <<from, to, Cardinality(avoid)>>

Init ==
    /\ service \in Services
    /\ asks = 0
    /\ ask = [c \in Clients |-> Idle]
    /\ known = {}
    /\ used = 0 /\ newDay = FALSE
    /\ paid = 0 /\ starts = 1

-----------------------------------------------------------------------------
(* DijkstraRoutingProvider.calculateRoute, which runs in one go.           *)

DistanceTo(v, p) == (At[v][1] - p[1]) * (At[v][1] - p[1]) + (At[v][2] - p[2]) * (At[v][2] - p[2])

\* The first of Order among the nodes closest to p.
findClosestNode(p) ==
    Order[Min({i \in DOMAIN Order : \A v \in Nodes : DistanceTo(Order[i], p) <= DistanceTo(v, p)})]

Blocked == {b \in Edges \X Areas : isEdgeBlocked(Shape[b[1]], b[2])}
activeEdges(avoid) == {e \in Edges : \A ring \in avoid : <<e, ring>> \notin Blocked}

OtherEnd(e, u) == IF Ends[e][1] = u THEN Ends[e][2] ELSE Ends[e][1]
Touching(u, edges) == {e \in edges : u \in {Ends[e][1], Ends[e][2]}}

\* dist and prev of the nodes reached so far, as one label per node and way.
Label(v, dist, path) == [at |-> v, dist |-> dist, path |-> path]

\* The labels that an edge of u adds.
Relaxed(l, visited, edges) ==
    {Label(OtherEnd(e, l.at), l.dist + Length[e], Append(l.path, e)) :
        e \in {f \in Touching(l.at, edges) : OtherEnd(f, l.at) \notin visited}}

Nearest(labels) == CHOOSE l \in labels : \A k \in labels : l.dist <= k.dist

\* Mutant of Visits: a node that was reached keeps the way it was reached by.
VisitsFirstFound(s, to, edges) ==
    LET open == {l \in s.reached : l.at \notin s.visited}  l == Nearest(open) IN
    IF open = {} THEN s
    ELSE IF l.at = to THEN s
    ELSE LET visited == s.visited \cup {l.at} IN
         [visited |-> visited,
          reached |-> s.reached \cup {k \in Relaxed(l, visited, edges) :
                                         \A h \in s.reached : h.at # k.at}]

\* One round of the loop: the nearest node not visited yet, and its edges.  A
\* node keeps its shortest labels (of equal ones the code keeps the first).
Visits(s, to, edges) ==
    LET open == {l \in s.reached : l.at \notin s.visited}  l == Nearest(open) IN
    IF open = {} THEN s
    ELSE IF l.at = to THEN s
    ELSE LET visited == s.visited \cup {l.at}
             all == s.reached \cup Relaxed(l, visited, edges)
         IN  [visited |-> visited,
              reached |-> {k \in all : \A h \in all : h.at = k.at => k.dist <= h.dist}]

\* The labels of v when the loop is left.
Search(u, v, edges) ==
    LET round[n \in 0..Len(Order)] ==
          IF n = 0 THEN [visited |-> {}, reached |-> {Label(u, 0, <<>>)}]
          ELSE Visits(round[n - 1], v, edges)
    IN  {l \in round[Len(Order)].reached : l.at = v}

Avoids == UNION {kSubset(k, Areas) : k \in 0..MaxAvoid}

\* The route, or Nothing: the way is cut off.  It depends on nothing else.
Dijkstra ==
    [q \in Places \X Places \X Avoids |->
        LET labels == Search(findClosestNode(q[1]), findClosestNode(q[2]), activeEdges(q[3])) IN
        IF labels = {} THEN Nothing
        ELSE Answer("dijkstra", q[3], Nearest(labels).path, Nearest(labels).dist)]

-----------------------------------------------------------------------------
(* A request, step by step.                                                *)

\* The module takes TomTom when nothing is configured, the controller takes it
\* for Dijkstra and computes nothing beside it.
Provider == CASE service = "DIJKSTRA" -> "dijkstra"
              [] service \in {"TOMTOM", ""} -> "tomtom"
              [] OTHER -> "ors"
AuxFirst == service \notin {"DIJKSTRA", ""}

Question(c) == <<ask[c].from, ask[c].to, ask[c].avoid>>
Goes(c, next) == ask' = [ask EXCEPT ![c] = next]
Answers(c, a) == Goes(c, [ask[c] EXCEPT !.pc = "answered", !.answer = a, !.aux = Nothing])

Receives(c) ==
    /\ asks < MaxAsks /\ asks' = asks + 1
    /\ ask[c].pc \in {"idle", "answered", "refused"}
    /\ \E who \in {"map", "dispatch"}, from \in Places, to \in Places, avoid \in Avoids :
          /\ from # to
          /\ Goes(c, [pc |-> "primary", who |-> who, from |-> from, to |-> to,
                      avoid |-> avoid, answer |-> Nothing,
                      aux |-> IF who = "map" /\ AuxFirst THEN Dijkstra[<<from, to, avoid>>]
                              ELSE Nothing])
    /\ UNCHANGED <<service, known, used, newDay, paid, starts>>

AsksDijkstra(c) ==
    /\ ask[c].pc = "primary" /\ Provider = "dijkstra"
    /\ LET a == Dijkstra[Question(c)] IN
       IF a = Nothing THEN Goes(c, [ask[c] EXCEPT !.pc = "failed"]) ELSE Answers(c, a)
    /\ UNCHANGED <<service, asks, known, used, newDay, paid, starts>>

AsksOrs(c) ==
    /\ ask[c].pc = "primary" /\ Provider = "ors"
    /\ Goes(c, [ask[c] EXCEPT !.pc = "fetch"])
    /\ UNCHANGED <<service, asks, known, used, newDay, paid, starts>>

KnownFor(c) == {k \in known : k.key = Key(ask[c].from, ask[c].to, ask[c].avoid)}

TakesKnown(c) ==
    /\ ask[c].pc = "primary" /\ Provider = "tomtom"
    /\ \E k \in KnownFor(c) : Answers(c, Answer("memory", k.off, <<>>, 0))
    /\ UNCHANGED <<service, asks, known, used, newDay, paid, starts>>

\* checkDailyLimit: the count goes up even when it is over the limit (it stays
\* at the first such number here).
Counted == Min({DailyLimit + 1, IF newDay THEN 1 ELSE used + 1})

\* Mutant of CallsTomTom: the limit is compared before the call is counted.
CallsThenCounts(c) ==
    /\ ask[c].pc = "primary" /\ Provider = "tomtom"
    /\ KnownFor(c) = {}
    /\ used' = Counted /\ newDay' = FALSE
    /\ IF ~newDay /\ used > DailyLimit
       THEN Goes(c, [ask[c] EXCEPT !.pc = "failed"]) /\ UNCHANGED paid
       ELSE Goes(c, [ask[c] EXCEPT !.pc = "fetch"]) /\ paid' = paid + 1
    /\ UNCHANGED <<service, asks, known, starts>>

CallsTomTom(c) ==
    /\ ask[c].pc = "primary" /\ Provider = "tomtom"
    /\ KnownFor(c) = {}
    /\ used' = Counted /\ newDay' = FALSE
    /\ IF Counted > DailyLimit
       THEN Goes(c, [ask[c] EXCEPT !.pc = "failed"]) /\ UNCHANGED paid
       ELSE Goes(c, [ask[c] EXCEPT !.pc = "fetch"]) /\ paid' = paid + 1
    /\ UNCHANGED <<service, asks, known, starts>>

\* The service answers with a route round the zones it was told about.
FetchAnswers(c) ==
    /\ ask[c].pc = "fetch"
    /\ Answers(c, Answer(Provider, ask[c].avoid, <<>>, 0))
    /\ known' = IF Provider # "tomtom" THEN known
                ELSE (known \ KnownFor(c)) \cup
                     {[key |-> Key(ask[c].from, ask[c].to, ask[c].avoid), off |-> ask[c].avoid]}
    /\ UNCHANGED <<service, asks, used, newDay, paid, starts>>

\* An HTTP error, no network, no route.
FetchFails(c) ==
    /\ ask[c].pc = "fetch"
    /\ Goes(c, [ask[c] EXCEPT !.pc = "failed"])
    /\ UNCHANGED <<service, asks, known, used, newDay, paid, starts>>

\* Mutant of FallsBack: what was not computed beside the provider is not tried.
FallsBackOnAux(c) ==
    /\ ask[c].pc = "failed"
    /\ IF ask[c].who = "map" /\ ask[c].aux = Nothing
       THEN Goes(c, [ask[c] EXCEPT !.pc = "refused"])
       ELSE Answers(c, IF ask[c].who = "map" THEN ask[c].aux ELSE Answer("line", {}, <<>>, 0))
    /\ UNCHANGED <<service, asks, known, used, newDay, paid, starts>>

\* The map gets the route computed beside the provider's, or one computed now;
\* a dispatch takes the straight line.
FallsBack(c) ==
    /\ ask[c].pc = "failed"
    /\ LET again == IF ask[c].aux # Nothing THEN ask[c].aux
                    ELSE Dijkstra[Question(c)]
       IN  CASE ask[c].who = "dispatch" -> Answers(c, Answer("line", {}, <<>>, 0))
             [] ask[c].who = "map" /\ again # Nothing -> Answers(c, again)
             [] OTHER -> Goes(c, [ask[c] EXCEPT !.pc = "refused"])
    /\ UNCHANGED <<service, asks, known, used, newDay, paid, starts>>

-----------------------------------------------------------------------------
RouteExpires ==
    /\ \E k \in known : known' = known \ {k}
    /\ UNCHANGED <<service, asks, ask, used, newDay, paid, starts>>

\* Midnight UTC.  The count is looked at when the next call is made.
DayEnds ==
    /\ ~newDay /\ used > 0
    /\ newDay' = TRUE
    /\ paid' = 0 /\ starts' = 1
    /\ UNCHANGED <<service, asks, ask, known, used>>

Restart ==
    /\ starts < MaxStarts
    /\ starts' = starts + 1
    /\ ask' = [c \in Clients |-> Idle]
    /\ known' = {} /\ used' = 0 /\ newDay' = FALSE
    /\ UNCHANGED <<service, asks, paid>>

Asking(c) ==
    \/ Receives(c) \/ AsksDijkstra(c) \/ AsksOrs(c) \/ TakesKnown(c) \/ CallsTomTom(c)
    \/ FetchAnswers(c) \/ FetchFails(c) \/ FallsBack(c)

Next == (\E c \in Clients : Asking(c)) \/ RouteExpires \/ DayEnds \/ Restart
Spec == Init /\ [][Next]_vars

-----------------------------------------------------------------------------
(* What holds.                                                             *)

\* Roads whose points and zones whose boundaries are in general position: no
\* point of the road is on the line of a side of the zone.
Apart(e, ring) ==
    \A i \in DOMAIN Shape[e], j \in 1..Len(ring) - 1 :
        Turn(ring[j], ring[j + 1], Shape[e][i], 1) # 0
Flooded == {b \in Edges \X Areas : Apart(b[1], b[2]) /\ RunsThrough(Shape[b[1]], b[2], 24)}

ByDijkstra == {c \in Clients : ask[c].answer.by = "dijkstra"}

\* A route of Dijkstra never runs through a zone it was told to avoid.
KeepsOff ==
    \A c \in ByDijkstra : Range(ask[c].answer.path) \X ask[c].avoid \cap Flooded = {}

\* How long the walks of up to n edges from u are, and where they end.
Walks(u, edges, n) ==
    LET walk[k \in 0..n] ==
          IF k = 0 THEN {<<u, 0>>}
          ELSE LET shorter == walk[k - 1] IN
               shorter \cup UNION {{<<OtherEnd(e, w[1]), w[2] + Length[e]>> :
                                       e \in Touching(w[1], edges)} : w \in shorter}
    IN  walk[n]

\* The length of the shortest walk over dry roads for each question, if any.
Lengths(from, to, avoid) ==
    {w[2] : w \in {x \in Walks(findClosestNode(from), activeEdges(avoid), Len(Order)) :
                      x[1] = findClosestNode(to)}}
ShortestDry ==
    {<<q, Min(Lengths(q[1], q[2], q[3]))>> :
        q \in {p \in Places \X Places \X Avoids : Lengths(p[1], p[2], p[3]) # {}}}
DryLength(c) ==
    {s[2] : s \in {x \in ShortestDry : x[1] = Question(c)}}

\* It is a walk from the checkpoint nearest to the start to the one nearest to
\* the end, as long as it says, and no way over dry roads is shorter.
DijkstraExact ==
    \A c \in ByDijkstra :
        LET path == ask[c].answer.path
            at[i \in 0..Len(path)] == IF i = 0 THEN findClosestNode(ask[c].from)
                                      ELSE OtherEnd(path[i], at[i - 1])
            length[i \in 0..Len(path)] == IF i = 0 THEN 0 ELSE length[i - 1] + Length[path[i]]
        IN  /\ \A i \in DOMAIN path : path[i] \in Touching(at[i - 1], Edges)
            /\ at[Len(path)] = findClosestNode(ask[c].to)
            /\ length[Len(path)] = ask[c].answer.length
            /\ DryLength(c) = {ask[c].answer.length}

\* The map is told that a place is cut off only when no dry road leads to it,
\* whichever provider failed before.
RefusedMeansCutOff ==
    \A c \in Clients : ask[c].pc = "refused" => DryLength(c) = {}

\* A day's calls stay within the limit once for every start of the process: the
\* counter does not survive a restart.
QuotaKept == paid <= DailyLimit * starts
=============================================================================
