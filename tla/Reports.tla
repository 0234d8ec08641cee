------------------------------ MODULE Reports -------------------------------
(* The answers of the dashboard, beside everything SosDispatch does.       *)
(*                                                                         *)
(* An answer is several queries, each on a connection of its own and in no *)
(* transaction: requests move on between them. A query is modelled by the  *)
(* set of requests it selects. Left out are queries of tables nothing here *)
(* changes, and those of an answer no property relates to another query:   *)
(* markers and counts of teams, regions, alerts, the figures of getStats.  *)
EXTENDS SosDispatch

CONSTANTS Shown,          \* requests of the province and days an answer is for
          Dated,          \* those of the curve, by their dates in UTC
          MaxMissions,    \* LIMIT of the list of missions
          MaxAnswers      \* bound: answers

ASSUME ReportsAssumption ==
    Shown \subseteq Sos /\ Dated \subseteq Sos /\ MaxMissions \in Nat \ {0} /\ MaxAnswers \in Nat

VARIABLES
    report,     \* the answer in the making: the next query, and what those before found
    answers,    \* history: answers so far
    moved,      \* history: requests whose status changed during the answer
    back,       \* history: those that were reopened, or lost their team, meanwhile
    joined      \* history: those that became ones to show on the map meanwhile

repVars == <<report, answers, moved, back, joined>>
allVars == <<vars, repVars>>

NoReport == [pc |-> "idle", total |-> {}, done |-> {}, open |-> {}, saved |-> {},
             ongoing |-> {}, failed |-> {}, markers |-> {}, missions |-> {}]

RInit ==
    /\ Init
    /\ report = NoReport /\ answers = 0 /\ moved = {} /\ back = {} /\ joined = {}

\* The curve joins by DATE(createdAt) and the dates of the days in UTC, everything else
\* compares createdAt with a first moment and a last one of local time.
With(statuses) == {s \in Shown : sos[s].status \in statuses}
DatedWith(statuses) == {s \in Dated : sos[s].status \in statuses}

-----------------------------------------------------------------------------
(* GET /dashboard/charts                                                   *)

\* The first query of an answer; nothing was read before it.
Opened(first) ==
    /\ report = NoReport /\ answers < MaxAnswers
    /\ answers' = answers + 1
    /\ report' = first
    /\ UNCHANGED <<vars, moved, back, joined>>

\* A query's result joins those before it.
Finds(pc, found) ==
    /\ report.pc = pc
    /\ report' = found
    /\ UNCHANGED <<vars, answers, moved, back, joined>>

\* One statement: its three columns count the same rows.
sosOverTime ==
    [NoReport EXCEPT
        !.total = DatedWith(SosStatus), !.done = DatedWith({"RESOLVED"}),
        !.open = DatedWith({"PENDING", "DISPATCHED", "ON_SITE", "PENDING_SPECIALIST"})]

getCharts == Opened([sosOverTime EXCEPT !.pc = "resolved"])

resolvedCount ==
    Finds("resolved", [report EXCEPT !.pc = "ongoing", !.saved = With({"RESOLVED"})])
ongoingCount ==
    Finds("ongoing", [report EXCEPT !.pc = "pending",
                                    !.ongoing = With({"DISPATCHED", "ON_SITE"})])

\* Mutant of pendingCount: every request that is open.
PendingCountAllOpen ==
    Finds("pending", [report EXCEPT !.pc = "charts",
        !.failed = With({"PENDING", "DISPATCHED", "ON_SITE", "PENDING_SPECIALIST"})])

pendingCount ==
    Finds("pending", [report EXCEPT !.pc = "charts", !.failed = With({"PENDING"})])

-----------------------------------------------------------------------------
(* GET /dashboard/map-tasks                                                *)

\* Mutant of sosMarkers: a request whose team has arrived is off the map.
SosMarkersUnreached == With({"PENDING", "DISPATCHED"})

OnMap == {"PENDING", "DISPATCHED", "ON_SITE"}
sosMarkers == With(OnMap)

getMapTasks == Opened([NoReport EXCEPT !.pc = "missions", !.markers = sosMarkers])

\* The newest ones up to the limit; which those are is not modelled.
missions ==
    LET under == With({"DISPATCHED", "ON_SITE"})
        n == IF Cardinality(under) < MaxMissions THEN Cardinality(under) ELSE MaxMissions
    IN  \E list \in SUBSET under :
            /\ Cardinality(list) = n
            /\ Finds("missions", [report EXCEPT !.pc = "map", !.missions = list])

-----------------------------------------------------------------------------
Answered ==
    /\ report.pc \in {"charts", "map"}
    /\ report' = NoReport /\ moved' = {} /\ back' = {} /\ joined' = {}
    /\ UNCHANGED <<vars, answers>>

Querying ==
    \/ getCharts \/ resolvedCount \/ ongoingCount \/ pendingCount
    \/ getMapTasks \/ missions
    \/ Answered

\* A request goes on, or back.
Reopened(s) == sos[s].status \in Closed /\ sos'[s].status \notin Closed
Joins(s) == sos[s].status \notin OnMap /\ sos'[s].status \in OnMap
LosesTeam(s) == sos[s].status \in {"DISPATCHED", "ON_SITE"} /\ sos'[s].status \in Waiting

\* What comes after the last of these queries is no longer in the answer.
Dispatches ==
    /\ report.pc \notin {"charts", "map"}
    /\ Next
    /\ IF report = NoReport THEN UNCHANGED <<moved, back, joined>>
       ELSE /\ moved' = moved \cup {s \in Shown : sos'[s].status # sos[s].status}
            /\ back' = back \cup {s \in Shown : Reopened(s) \/ LosesTeam(s)}
            /\ joined' = joined \cup {s \in Shown : Joins(s)}
    /\ UNCHANGED <<report, answers>>

RNext == Dispatches \/ Querying

RSpec == RInit /\ [][RNext]_allVars

-----------------------------------------------------------------------------
(* Properties *)

Times(s) == Cardinality({f \in {"saved", "ongoing", "failed"} : s \in report[f]})

\* The outcomes add up although each is a query of its own: a request that goes
\* its way during the answer is counted once at most, because they are asked for
\* from the last status to the first; only one that is reopened or loses its team
\* can be in two. One that stays where it is is in exactly one, the one the curve
\* of the same answer has it in; requests that are cancelled or wait for a
\* specialist are in none.
OutcomesAddUp ==
    report.pc = "charts" =>
        \A s \in Shown :
            /\ s \notin back => Times(s) <= 1
            /\ s \notin moved /\ s \in report.total =>
                 /\ Times(s) = IF sos[s].status \in {"CANCELLED", "PENDING_SPECIALIST"} THEN 0 ELSE 1
                 /\ s \in report.done <=> s \in report.saved
                 /\ s \in report.ongoing \cup report.failed => s \in report.open

\* Whoever is listed with a mission is on the map of the same answer, although
\* the two are queries of their own and requests get a team, reach ON_SITE and close
\* between them: only a request that was made, reopened or taken from the wait for
\* a specialist in between is missing there.
MissionsAreOnMap ==
    report.pc = "map" => report.missions \ report.markers \subseteq joined

=============================================================================
