----------------------------- MODULE Candidates -----------------------------
(* How the teams for one request are found and ranked: rings of growing     *)
(* radius are asked for free teams, the nearest of what they found get a    *)
(* route and a travel time, and a score orders them.  Nothing is locked:    *)
(* teams move, are taken and come back while the search goes on.            *)
(* Distances count 2 km, times minutes, weights and mismatches tenths.      *)
EXTENDS Integers, Sequences, FiniteSets, SequencesExt, FiniteSetsExt

CONSTANTS
    Teams,          \* teams of the province
    TypeOf,         \* [Teams -> types of teams]
    Capacity,       \* [Teams -> Nat], maxCapacity
    Places,         \* where a team may be: its distance from the request
    Settings,       \* what system_setting and the environment may say
    Severity,       \* severity of the request
    DefaultMapping, \* row of DISPATCH_DEFAULTS.SKILL_MAPPING for the kind of request
    MaxCandidates,  \* TOMTOM_MAX_CANDIDATES
    Detours,        \* how much longer than the straight line a road may be
    Minutes,        \* travel times of the services
    MaxChanges      \* bound on what happens to teams during the search

NaN == -1000        \* for a setting that parseFloat does not understand, a number none has
Nobody == <<>>      \* assignTeam returned null

DefaultSteps == <<2, 5, 10, 20, 25>>
DefaultWeights == [dist |-> 5, cases |-> 3, skill |-> 2]
DefaultFour == [dist |-> 3, duration |-> 4, skill |-> 2, cases |-> 1]

Numbers(row) == \A k \in DOMAIN row : row[k] \in Int
SettingsOK(s) ==
    /\ s.steps \in Seq(Int) /\ s.threshold \in Int /\ s.delta \in Int
    /\ Numbers(s.keys) /\ Numbers(s.four) /\ \A row \in s.mapping : Numbers(row)
    /\ \A severity \in DOMAIN s.matrix :
          s.matrix[severity] \in [dist : Int, cases : Int, skill : Int]

ASSUME CandidatesAssumption ==
    /\ IsFiniteSet(Teams) /\ Places \subseteq Nat
    /\ Capacity \in [Teams -> Nat]
    /\ \A s \in Settings : SettingsOK(s)
    /\ Numbers(DefaultMapping)
    /\ MaxCandidates \in Nat \ {0} /\ MaxChanges \in Nat
    /\ Detours \subseteq Nat /\ Minutes \subseteq Nat \ {0}

VARIABLES
    settings,   \* one of Settings, read when the search starts
    team,       \* [Teams -> [free, at, cases]], the rows
    pc,         \* "scan", "measure" or "done"
    ring,       \* index of the radius to be asked next
    pool,       \* the candidates, as they were when first found
    route,      \* for the candidates kept: distance and time by road
    real,       \* for the candidates with a travel time: that time
    known,      \* travel times remembered by place
    answer,     \* the ranked teams
    steady,     \* history: the teams nothing happened to
    changes     \* history: how much happened

vars == <<settings, team, pc, ring, pool, route, real, known, answer, steady, changes>>

-----------------------------------------------------------------------------
(* Orders.                                                                 *)

\* All elements of S, one before the other as the pairs in before say.
Ordered(S, before) ==
    CHOOSE p \in SetToSeqs(S) : \A i, j \in DOMAIN p : i < j => <<p[i], p[j]>> \in before

Picks(s, places) == [k \in DOMAIN places |-> s[places[k]]]

\* Stable, as Array.prototype.sort is; sooner has the pairs of places that differ.
SortedBy(s, sooner) ==
    LET places == DOMAIN s
        before == {q \in places \X places :
                     q \in sooner \/ (<<q[2], q[1]>> \notin sooner /\ q[1] < q[2])}
    IN  Picks(s, Ordered(places, before))

With(f, x, y) == [z \in DOMAIN f \cup {x} |-> IF z = x THEN y ELSE f[z]]

-----------------------------------------------------------------------------
(* Settings.                                                               *)

parseRadiusSteps ==
    LET valid == {i \in DOMAIN settings.steps : settings.steps[i] > 0}
    IN  IF valid = {} THEN DefaultSteps
        ELSE Picks(settings.steps, Ordered(valid, {q \in valid \X valid : q[1] < q[2]}))

OrDefault(given, default) ==
    [k \in DOMAIN default |-> IF k \in DOMAIN given THEN given[k] ELSE default[k]]

\* The row of the matrix for the severity, else its DEFAULT, else single keys.
resolveWeights ==
    LET fits == {Severity, "DEFAULT"} \cap DOMAIN settings.matrix
    IN  IF fits = {} THEN OrDefault(settings.keys, DefaultWeights)
        ELSE settings.matrix[IF Severity \in fits THEN Severity ELSE "DEFAULT"]

\* No such setting, or one that is no JSON object: the defaults.
parseSkillMapping ==
    IF settings.mapping = {} THEN DefaultMapping ELSE CHOOSE row \in settings.mapping : TRUE

\* A type of team that the row leaves out, or all if there is no row: no skills.
getSkillMismatch(t) ==
    IF TypeOf[t] \in DOMAIN parseSkillMapping THEN parseSkillMapping[TypeOf[t]] ELSE 10

\* An environment variable is text: "false" is as good as "true".
TrafficEnabled == settings.traffic # ""

Cap(t) == IF Capacity[t] = 0 THEN 5 ELSE Capacity[t]
Load(c) == Min({c.cases, Cap(c.team)})

-----------------------------------------------------------------------------
(* The pool.                                                               *)

\* What the query for a ring finds; its order is by degrees, not by the distance.
InRing(radius) == {t \in Teams : team[t].free /\ team[t].at <= radius}

Candidate(t) == [team |-> t, at |-> team[t].at, cases |-> team[t].cases]
Pooled == {pool[i].team : i \in DOMAIN pool}
PoolWith(new) == pool \o [i \in DOMAIN new |-> Candidate(new[i])]

\* computeBestHeuristicScore <= scoreThreshold, over the denominators. What is not
\* a number is not <= anything.
Acceptable(c, radius) ==
    LET w == resolveWeights
    IN  /\ NaN \notin {w.dist, w.cases, w.skill, settings.threshold}
        /\   c.at * w.dist * 10 * Cap(c.team)
           + Load(c) * w.cases * 10 * radius
           + getSkillMismatch(c.team) * w.skill * radius * Cap(c.team)
           <= settings.threshold * 10 * radius * Cap(c.team)

\* Mutant of Nearest: the farthest come first.
Farthest(found) ==
    LET places == DOMAIN found
        farther == {q \in places \X places : found[q[1]].at > found[q[2]].at}
    IN  SubSeq(SortedBy(found, farther), 1, Min({MaxCandidates, Len(found)}))

Nearest(found) ==
    LET places == DOMAIN found
        nearer == {q \in places \X places : found[q[1]].at < found[q[2]].at}
    IN  SubSeq(SortedBy(found, nearer), 1, Min({MaxCandidates, Len(found)}))

Init ==
    /\ settings \in Settings
    /\ team \in [Teams -> [free : BOOLEAN, at : Places, cases : {0}]]
    /\ pc = "scan" /\ ring = 1
    /\ pool = <<>> /\ route = <<>> /\ real = <<>> /\ known = <<>>
    /\ answer = Nobody
    /\ steady = Teams /\ changes = 0

\* Mutant of NextRing: a ring without teams ends the search.
StopsAtEmptyRing(candidates, empty) ==
    IF ~empty THEN "scan" ELSE IF candidates = <<>> THEN "done" ELSE "measure"

\* Where the search goes when no candidate is good enough yet.
NextRing(candidates, empty) ==
    IF ring < Len(parseRadiusSteps) THEN "scan"
    ELSE IF candidates = <<>> THEN "done" ELSE "measure"

\* gatherCandidatePool, one ring.
Scans ==
    /\ pc = "scan"
    /\ LET radius == parseRadiusSteps[ring]
           empty == InRing(radius) = {}
       IN  \E new \in SetToSeqs(InRing(radius) \ Pooled) :
            LET candidates == PoolWith(new)
                good == ~empty /\ \E i \in DOMAIN candidates : Acceptable(candidates[i], radius)
                then == IF good THEN "measure" ELSE NextRing(candidates, empty)
            IN  /\ pc' = then
                /\ pool' = IF then = "measure" THEN Nearest(candidates) ELSE candidates
    /\ ring' = ring + 1
    /\ UNCHANGED <<settings, team, route, real, known, answer, steady, changes>>

-----------------------------------------------------------------------------
(* Routes and travel times, for all candidates at once.                    *)

Straight(at) == 3 * at      \* 2 km at 40 km/h

Routes(c, km, minutes) ==
    /\ pc = "measure" /\ c.team \notin DOMAIN route
    /\ route' = With(route, c.team, [dist |-> km, ideal |-> minutes])
    /\ UNCHANGED <<settings, team, pc, ring, pool, real, known, answer, steady, changes>>

ProviderAnswers(c) ==
    \E more \in Detours, minutes \in Minutes : Routes(c, c.at + more, minutes)
ProviderFails(c) == Routes(c, c.at, Straight(c.at))

Travels(c, minutes) ==
    /\ pc = "measure" /\ c.team \in DOMAIN route /\ c.team \notin DOMAIN real
    /\ real' = With(real, c.team, minutes)
    /\ UNCHANGED <<settings, team, pc, ring, pool, route, answer, steady, changes>>

NoTraffic(c) ==
    /\ ~TrafficEnabled
    /\ Travels(c, route[c.team].ideal) /\ UNCHANGED known
TomTomFails(c) ==
    /\ TrafficEnabled
    /\ Travels(c, route[c.team].ideal) /\ UNCHANGED known
\* The entry may be out of date, or read before another call wrote it.
TomTomAnswers(c) ==
    /\ TrafficEnabled
    /\ \E minutes \in Minutes :
        /\ Travels(c, minutes)
        /\ known' = With(known, c.at, minutes)
TakesKnownTime(c) ==
    /\ TrafficEnabled /\ c.at \in DOMAIN known
    /\ Travels(c, known[c.at]) /\ UNCHANGED known

Measured == {pool[i] : i \in DOMAIN pool}
Kept == {c.team : c \in Measured}
Entry(c) == [team |-> c.team, at |-> c.at, cases |-> c.cases,
             dist |-> route[c.team].dist, ideal |-> route[c.team].ideal, real |-> real[c.team]]

-----------------------------------------------------------------------------
(* scoreAndRankExtended.                                                   *)

Weights4 ==
    IF TrafficEnabled THEN OrDefault(settings.four, DefaultFour)
    ELSE [dist |-> resolveWeights.dist, duration |-> 0,
          skill |-> resolveWeights.skill, cases |-> resolveWeights.cases]

Span(S) == Max(S) - Min(S)
\* Mutant of Denominator: the range alone.
RangeOnly(range, least) == IF range = 0 THEN 1 ELSE range

Denominator(range, least) == Max({range, least})

\* Mutant of Nearer: the distance to the farthest candidate.
FartherIsBetter(km, lo, hi) == hi - km

Nearer(km, lo, hi) == km - lo

Entries == [i \in DOMAIN pool |-> Entry(pool[i])]
Dists == {Entries[i].dist : i \in DOMAIN pool}
Times == {Entries[i].real : i \in DOMAIN pool}
DistUnit == Denominator(Span(Dists), settings.delta)
TimeUnit == Denominator(Span(Times), 5)

\* The score times 100, both units and the team's capacity.
Score(e) ==
    LET w == Weights4
        cap == Cap(e.team)
    IN    Nearer(e.dist, Min(Dists), Max(Dists)) * w.dist * 10 * TimeUnit * cap
        + (e.real - Min(Times)) * w.duration * 10 * DistUnit * cap
        + Load(e) * w.cases * 10 * DistUnit * TimeUnit
        + getSkillMismatch(e.team) * w.skill * DistUnit * TimeUnit * cap

Sooner(a, b) == Score(a) * Cap(b.team) < Score(b) * Cap(a.team)

ScoresAreNaN ==
    \/ DistUnit = 0
    \/ NaN \in {settings.delta, Weights4.dist, Weights4.duration, Weights4.skill, Weights4.cases}

InOrder == {q \in (DOMAIN Entries) \X (DOMAIN Entries) :
              Sooner(Entries[q[1]], Entries[q[2]])}

\* With scores that are not numbers the sort moves nothing.
Ranked == IF ScoresAreNaN THEN Entries ELSE SortedBy(Entries, InOrder)

Ranks ==
    /\ pc = "measure" /\ DOMAIN real = Kept
    /\ answer' = Ranked
    /\ pc' = "done"
    /\ UNCHANGED <<settings, team, ring, pool, route, real, known, steady, changes>>

-----------------------------------------------------------------------------
(* What happens to teams meanwhile.                                        *)

Changes(t, row) ==
    /\ pc = "scan" /\ changes < MaxChanges
    /\ changes' = changes + 1
    /\ team' = [team EXCEPT ![t] = row]
    /\ steady' = steady \ {t}
    /\ UNCHANGED <<settings, pc, ring, pool, route, real, known, answer>>

TakesCase(t) ==
    /\ team[t].free
    /\ Changes(t, [team[t] EXCEPT !.free = FALSE, !.cases = @ + 1])
ComesBack(t) == ~team[t].free /\ Changes(t, [team[t] EXCEPT !.free = TRUE])
Moves(t) == \E at \in Places \ {team[t].at} : Changes(t, [team[t] EXCEPT !.at = at])

Next ==
    \/ Scans
    \/ \E c \in Measured : ProviderAnswers(c) \/ ProviderFails(c)
    \/ \E c \in Measured : NoTraffic(c) \/ TomTomFails(c) \/ TomTomAnswers(c) \/ TakesKnownTime(c)
    \/ Ranks
    \/ \E t \in Teams : TakesCase(t) \/ ComesBack(t) \/ Moves(t)

Spec == Init /\ [][Next]_vars

-----------------------------------------------------------------------------
(* Properties.                                                             *)

Answered == pc = "done" /\ answer # Nobody
Largest == Max(Range(parseRadiusSteps))

\* A search that finds nobody has overlooked nobody: a request is given up
\* for a specialist only if no team that was free all the time is in reach.
NoneMeansNone ==
    pc = "done" /\ answer = Nobody
        => \A t \in steady : ~team[t].free \/ team[t].at > Largest

\* No team that was free all the time is passed over for one that was found
\* farther away, whatever happened to other teams between two rings.
NearestConsidered ==
    Answered => \A t \in steady : \A i \in DOMAIN answer :
        team[t].free /\ team[t].at < answer[i].at => \E j \in DOMAIN answer : answer[j].team = t

\* a is nowhere worse than b, and better where the weights look.
Dominates(a, b) ==
    LET w == Weights4
        fuller(x, y) == Load(x) * Cap(y.team) > Load(y) * Cap(x.team)
        better(x, y) == \/ x.dist < y.dist /\ w.dist > 0
                        \/ x.real < y.real /\ w.duration > 0
                        \/ fuller(y, x) /\ w.cases > 0
                        \/ getSkillMismatch(x.team) < getSkillMismatch(y.team) /\ w.skill > 0
    IN  better(a, b) /\ ~better(b, a)

SoundSettings ==
    settings.delta > 0 /\ \A k \in {"dist", "duration", "skill", "cases"} : Weights4[k] >= 0

\* With a sound threshold and weights, a team that is nowhere worse than another and
\* somewhere better comes first, though each criterion is scaled by what the
\* other candidates are like and the loads are relative to each capacity.
BetterTeamFirst ==
    Answered /\ SoundSettings
        => \A i, j \in DOMAIN answer : i < j => ~Dominates(answer[j], answer[i])

\* A gap within half the threshold cannot outweigh a team that has the
\* right skills over one that has none, other things being equal: this is
\* what the threshold is for.
SmallGapsStaySmall ==
    Answered /\ SoundSettings /\ Weights4.dist < 2 * Weights4.skill
        => \A i, j \in DOMAIN answer :
            LET a == answer[i]
                b == answer[j]
                closeEnough == a.dist > b.dist /\ 2 * (a.dist - b.dist) <= settings.delta
                otherwiseEqual == a.real = b.real /\ Load(a) = 0 /\ Load(b) = 0
                skilled == getSkillMismatch(a.team) = 0 /\ getSkillMismatch(b.team) = 10
            IN  closeEnough /\ otherwiseEqual /\ skilled => i < j
=============================================================================
