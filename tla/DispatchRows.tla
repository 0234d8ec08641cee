---------------------------- MODULE DispatchRows ----------------------------
(***************************************************************************)
(* The rows that dispatching works on -- requests and rescue teams -- and  *)
(* the ways in which the transactions of the dispatch services change them.*)
(***************************************************************************)
EXTENDS Naturals, Sequences, FiniteSets

CONSTANTS
    Sos,          \* SOS requests
    Teams,        \* rescue teams of the province that have a leader
    NoSos, NoTeam \* null columns

SosStatus == {"PENDING", "DISPATCHED", "ON_SITE", "RESOLVED", "CANCELLED",
              "PENDING_SPECIALIST"}
TeamStatus == {"AVAILABLE", "BUSY", "OFF_DUTY", "STANDBY", "DISPATCHED"}

Closed  == {"RESOLVED", "CANCELLED"}
Waiting == {"PENDING", "PENDING_SPECIALIST"}
Active  == {"DISPATCHED", "ON_SITE", "PENDING_SPECIALIST"}
Free    == {"AVAILABLE", "STANDBY"}

ASSUME RowsAssumption ==
    /\ NoSos \notin Sos
    /\ NoTeam \notin Teams
    /\ IsFiniteSet(Sos)

\* status NONE: the request has not been created yet.
SosRow  == [status: SosStatus \cup {"NONE"}, team: Teams \cup {NoTeam}]
TeamRow == [status: TeamStatus, cases: Nat]

\* The cases the database counts for team t, request cur left out.
ActiveOthers(requests, t, cur) ==
    Cardinality({s \in Sos \ {cur} : /\ requests[s].team = t
                                     /\ requests[s].status \in Active})

Assigned(requests, s, t) ==
    [requests EXCEPT ![s] = [status |-> "DISPATCHED", team |-> t]]

TakesCase(teams, t) ==
    [teams EXCEPT ![t] = [status |-> "DISPATCHED", cases |-> teams[t].cases + 1]]

\* Mutant of Recounted: the closed request is taken off although the count
\* already leaves it out.
TakenOffTwice(n) == [status |-> IF n = 0 THEN "AVAILABLE" ELSE "BUSY", cases |-> n - 1]

\* A team whose cases have just been counted again.
Recounted(n) == [status |-> IF n = 0 THEN "AVAILABLE" ELSE "BUSY", cases |-> n]

\* A column after TypeORM's save: save SELECTs the row (old) and UPDATEs the
\* columns of the object (new) that differ from it; now is the row by then.
Written(old, new, now) == IF new # old THEN new ELSE now
=============================================================================
