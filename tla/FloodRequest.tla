---------------------------- MODULE FloodRequest ----------------------------
(***************************************************************************)
(* Flood reports: an administrator verifies a report, then puts it on the  *)
(* public map (a declaration) or dispatches it (a request for support),    *)
(* which makes one SOS request and sends a team in one transaction.        *)
(*                                                                         *)
(* dispatch locks the report's row.  updateStatus and approveMap do not:   *)
(* they read the row, and later save the object they read.  save SELECTs   *)
(* the row again and writes the columns that differ from it, so columns    *)
(* others wrote in between go back to what they were.                      *)
(***************************************************************************)
EXTENDS DispatchRows

CONSTANTS
    Floods,     \* flood reports
    NoFlood,    \* null
    Support,    \* reports whose purpose is REQUEST_SUPPORT
    Procs       \* calls that may be in flight at once

ASSUME FloodAssumption ==
    /\ NoFlood \notin Floods
    /\ Support \subseteq Floods

VARIABLES
    flood,   \* flood_request rows
    sos,     \* sos_request rows
    team,    \* rescue_team rows
    waits,   \* dispatch_queue rows: a request and the team it waits for
    origin,  \* the report an SOS request was made from
    ctx,     \* what each call in flight has read so far
    undone   \* history: reports saved though they had changed since they were read

vars == <<flood, sos, team, waits, origin, ctx, undone>>

FloodStatus == {"NONE", "PENDING", "VERIFYING", "APPROVED", "REJECTED", "DISPATCHED"}
FloodRow == [status: FloodStatus, linked: Sos \cup {NoSos}, onMap: BOOLEAN]
NoReport == [status |-> "NONE", linked |-> NoSos, onMap |-> FALSE]

\* read is the row the call read, row what a save makes of it, seen what save SELECTed.
Idle == [pc |-> "idle", flood |-> NoFlood, read |-> NoReport, row |-> NoReport,
         seen |-> NoReport, cands |-> {}, team |-> NoTeam]
Ctx == [pc: {"idle", "save", "update", "score", "auto", "manual"},
        flood: Floods \cup {NoFlood}, read: FloodRow, row: FloodRow, seen: FloodRow,
        cands: SUBSET Teams, team: Teams \cup {NoTeam}]

TypeOK ==
    /\ flood \in [Floods -> FloodRow]
    /\ sos \in [Sos -> SosRow]
    /\ team \in [Teams -> TeamRow]
    /\ waits \subseteq Sos \X Teams
    /\ origin \in [Sos -> Floods \cup {NoFlood}]
    /\ ctx \in [Procs -> Ctx]
    /\ undone \subseteq Floods

Init ==
    /\ flood = [f \in Floods |-> NoReport]
    /\ sos = [s \in Sos |-> [status |-> "NONE", team |-> NoTeam]]
    /\ team = [t \in Teams |-> [status |-> "AVAILABLE", cases |-> 0]]
    /\ waits = {}
    /\ origin = [s \in Sos |-> NoFlood]
    /\ ctx = [p \in Procs |-> Idle]
    /\ undone = {}

-----------------------------------------------------------------------------
(* Helpers.                                                                *)

IsFree(t) == team[t].status \in Free

Saving == {"save", "update"}
Dispatching == {"score", "auto", "manual"}

About(f, pcs) == {p \in Procs : ctx[p].flood = f /\ ctx[p].pc \in pcs}

\* dispatch keeps the row it read with FOR UPDATE until its transaction ends.
Locked(f) == About(f, Dispatching) # {}

Saves(p, f, row) ==
    ctx' = [ctx EXCEPT ![p] = [Idle EXCEPT !.pc = "save", !.flood = f, !.read = flood[f],
                                           !.row = row]]
Returns(p) == ctx' = [ctx EXCEPT ![p] = Idle]

\* save writes the columns of the object that differ from the row it SELECTed.
Merged(old, new, now) ==
    [status |-> Written(old.status, new.status, now.status),
     linked |-> Written(old.linked, new.linked, now.linked),
     onMap  |-> Written(old.onMap, new.onMap, now.onMap)]

-----------------------------------------------------------------------------
(* Reports and their verification.                                         *)

Create(f) ==
    /\ flood[f].status = "NONE"
    /\ flood' = [flood EXCEPT ![f].status = "PENDING"]
    /\ UNCHANGED <<sos, team, waits, origin, ctx, undone>>

\* Mutants of UpdateStatus: the check of the status forgets one of two.
UpdateApproved(p, f, new) ==
    /\ ctx[p] = Idle
    /\ flood[f].status \notin {"NONE", "DISPATCHED"}
    /\ Saves(p, f, [flood[f] EXCEPT !.status = new])
    /\ UNCHANGED <<flood, sos, team, waits, origin, undone>>
UpdateDispatched(p, f, new) ==
    /\ ctx[p] = Idle
    /\ flood[f].status \notin {"NONE", "APPROVED"}
    /\ Saves(p, f, [flood[f] EXCEPT !.status = new])
    /\ UNCHANGED <<flood, sos, team, waits, origin, undone>>

\* PATCH /flood-requests/:id/status, up to the call of repo.update.
UpdateStatus(p, f, new) ==
    /\ ctx[p] = Idle
    /\ flood[f].status \notin {"NONE", "APPROVED", "DISPATCHED"}
    /\ Saves(p, f, [flood[f] EXCEPT !.status = new])
    /\ UNCHANGED <<flood, sos, team, waits, origin, undone>>

\* PATCH /flood-requests/:id/approve-map, up to the call of repo.update.
ApproveMap(p, f) ==
    /\ ctx[p] = Idle
    /\ f \notin Support
    /\ flood[f].status = "VERIFYING"
    /\ Saves(p, f, [flood[f] EXCEPT !.status = "APPROVED", !.onMap = TRUE])
    /\ UNCHANGED <<flood, sos, team, waits, origin, undone>>

SaveSelect(p) ==
    /\ ctx[p].pc = "save"
    /\ ctx' = [ctx EXCEPT ![p].pc = "update", ![p].seen = flood[ctx[p].flood]]
    /\ UNCHANGED <<flood, sos, team, waits, origin, undone>>

\* The UPDATE waits for a dispatch that has the row locked.
SaveUpdate(p) ==
    LET f == ctx[p].flood IN
    /\ ctx[p].pc = "update"
    /\ ~Locked(f)
    /\ flood' = [flood EXCEPT ![f] = Merged(ctx[p].seen, ctx[p].row, flood[f])]
    /\ undone' = IF ctx[p].read = flood[f] THEN undone ELSE undone \cup {f}
    /\ Returns(p)
    /\ UNCHANGED <<sos, team, waits, origin>>

-----------------------------------------------------------------------------
(* POST /flood-requests/:id/dispatch.                                      *)

\* Mutant of DispatchBegin: the row is read without FOR UPDATE.
DispatchUnlocked(p, f) ==
    /\ ctx[p] = Idle
    /\ f \in Support
    /\ flood[f].status = "VERIFYING"
    /\ ctx' = [ctx EXCEPT ![p] = [Idle EXCEPT !.pc = "score", !.flood = f,
                                              !.row = flood[f]]]
    /\ UNCHANGED <<flood, sos, team, waits, origin, undone>>

\* The transaction locks the row and looks at purpose and status.
DispatchBegin(p, f) ==
    /\ ctx[p] = Idle
    /\ ~Locked(f)
    /\ f \in Support
    /\ flood[f].status = "VERIFYING"
    /\ \/ ctx' = [ctx EXCEPT ![p] = [Idle EXCEPT !.pc = "score", !.flood = f,
                                                 !.row = flood[f]]]
       \/ \E t \in Teams :
             ctx' = [ctx EXCEPT ![p] = [Idle EXCEPT !.pc = "manual", !.flood = f,
                                                    !.row = flood[f], !.team = t]]
    /\ UNCHANGED <<flood, sos, team, waits, origin, undone>>

\* AUTO: the strategy reads the teams outside the transaction.
Score(p) ==
    /\ ctx[p].pc = "score"
    /\ \E c \in SUBSET {t \in Teams : IsFree(t)} :
          ctx' = [ctx EXCEPT ![p].pc = "auto", ![p].cands = c]
    /\ UNCHANGED <<flood, sos, team, waits, origin, undone>>

\* COMMIT: the new SOS request s and the link from the report appear together.
Commits(p, s) ==
    LET f == ctx[p].flood IN
    /\ sos[s].status = "NONE"
    /\ origin' = [origin EXCEPT ![s] = f]
    /\ flood' = [flood EXCEPT ![f] = [ctx[p].row EXCEPT !.status = "DISPATCHED",
                                                        !.linked = s]]
    /\ Returns(p) /\ UNCHANGED undone

\* Mutant of Queues: no queue row.
OnlyPending(p, s) ==
    /\ ctx[p].cands # {}
    /\ \A t \in ctx[p].cands : ~IsFree(t)
    /\ sos' = [sos EXCEPT ![s].status = "PENDING"]
    /\ UNCHANGED <<team, waits>>

\* No candidate is left: the request waits for one of them.
Queues(p, s) ==
    /\ \A t \in ctx[p].cands : ~IsFree(t)
    /\ \E t \in ctx[p].cands : waits' = waits \cup {<<s, t>>}
    /\ sos' = [sos EXCEPT ![s].status = "PENDING"]
    /\ UNCHANGED team

\* The first candidate that is still free once its row is locked goes; without
\* any candidate the request waits for a specialist.  Such requests ask for no
\* equipment, so no specialist is queued besides.
DispatchAuto(p, s) ==
    /\ ctx[p].pc = "auto"
    /\ Commits(p, s)
    /\ \/ \E t \in ctx[p].cands :
             /\ IsFree(t)
             /\ sos' = Assigned(sos, s, t)
             /\ team' = TakesCase(team, t)
             /\ UNCHANGED waits
       \/ Queues(p, s)
       \/ /\ ctx[p].cands = {}
          /\ sos' = [sos EXCEPT ![s].status = "PENDING_SPECIALIST"]
          /\ UNCHANGED <<team, waits>>

\* Mutant of DispatchManual: a team that is busy already is not counted up.
ManualUncounted(p, s) ==
    LET t == ctx[p].team IN
    /\ ctx[p].pc = "manual"
    /\ Commits(p, s)
    /\ sos' = Assigned(sos, s, t)
    /\ team' = IF IsFree(t) THEN TakesCase(team, t) ELSE team
    /\ UNCHANGED waits

\* MANUAL: the team the administrator names, whatever it is doing.
DispatchManual(p, s) ==
    /\ ctx[p].pc = "manual"
    /\ Commits(p, s)
    /\ sos' = Assigned(sos, s, ctx[p].team)
    /\ team' = TakesCase(team, ctx[p].team)
    /\ UNCHANGED waits

\* A query fails: a save ends, a dispatch is rolled back.
Fails(p) ==
    /\ ctx[p] # Idle
    /\ Returns(p)
    /\ UNCHANGED <<flood, sos, team, waits, origin, undone>>

-----------------------------------------------------------------------------
(* The rest of the system, each summed up in one step on the rows of now;  *)
(* SosDispatch has them in detail, with the saves that overlap.            *)

TakenElsewhere(s, t) ==
    /\ sos[s].status \in Waiting \cup {"NONE"}
    /\ IsFree(t)
    /\ sos' = Assigned(sos, s, t)
    /\ team' = TakesCase(team, t)
    /\ UNCHANGED <<flood, waits, origin, ctx, undone>>

ResolvedElsewhere(s) ==
    LET t == sos[s].team IN
    /\ sos[s].status = "DISPATCHED"
    /\ sos' = [sos EXCEPT ![s].status = "RESOLVED"]
    /\ team' = [team EXCEPT ![t] = Recounted(ActiveOthers(sos, t, s))]
    /\ UNCHANGED <<flood, waits, origin, ctx, undone>>

OffDutyElsewhere(t) ==
    /\ team[t].cases = 0
    /\ team' = [team EXCEPT ![t].status = IF @ = "OFF_DUTY" THEN "AVAILABLE"
                                                            ELSE "OFF_DUTY"]
    /\ UNCHANGED <<flood, sos, waits, origin, ctx, undone>>

-----------------------------------------------------------------------------
Reviewing(p) ==
    \/ \E f \in Floods : ApproveMap(p, f)
    \/ \E f \in Floods, new \in {"VERIFYING", "REJECTED"} : UpdateStatus(p, f, new)
    \/ SaveSelect(p)
    \/ SaveUpdate(p)

DispatchingFlood(p) ==
    \/ \E f \in Floods : DispatchBegin(p, f)
    \/ Score(p)
    \/ \E s \in Sos : DispatchAuto(p, s) \/ DispatchManual(p, s)

Elsewhere ==
    \/ \E s \in Sos, t \in Teams : TakenElsewhere(s, t)
    \/ \E s \in Sos : ResolvedElsewhere(s)
    \/ \E t \in Teams : OffDutyElsewhere(t)

Next ==
    \/ \E f \in Floods : Create(f)
    \/ \E p \in Procs : Reviewing(p) \/ DispatchingFlood(p) \/ Fails(p)
    \/ Elsewhere

Spec == Init /\ [][Next]_vars

-----------------------------------------------------------------------------
(* What holds.                                                             *)

\* A report and the SOS request made from it name each other, and only
\* DISPATCHED reports have one: however many administrators dispatch and review a
\* report at once, and wherever a call fails, one SOS request is made or none --
\* unless a save wrote back what it had read before others changed the report.
LinkedBothWays ==
    /\ \A s \in Sos :
          origin[s] \notin undone \cup {NoFlood} => flood[origin[s]].linked = s
    /\ \A f \in Floods \ undone :
          IF flood[f].status = "DISPATCHED"
          THEN flood[f].linked \in Sos /\ origin[flood[f].linked] = f
          ELSE flood[f].linked = NoSos

\* The public map shows the approved declarations and nothing else: no report
\* is both on the map and dispatched, none stays there once rejected -- but for
\* the reports a save has undone.
OnMapIsApproved ==
    \A f \in Floods \ undone :
        /\ flood[f].onMap <=> flood[f].status = "APPROVED"
        /\ flood[f].status = "APPROVED" => f \notin Support

\* An approved or dispatched report is final (flood-request.service.ts:233): no
\* dispatch changes it, and no review that looked at it when it was final.  Only
\* the save of a copy that was read before still does.
Final(row) == row.status \in {"APPROVED", "DISPATCHED"}
FinalStays ==
    [][\A f \in Floods :
          Final(flood[f]) /\ flood'[f] # flood[f] =>
             \E p \in Procs : /\ ctx[p].pc = "update" /\ ctx'[p] = Idle
                              /\ ctx[p].flood = f /\ ~Final(ctx[p].read)]_vars

\* No event announces the SOS request of a report, so nobody is offered it: a
\* dispatch that leaves it PENDING has put it in some team's queue.
NobodyForgotten ==
    \A s \in Sos : sos[s].status = "PENDING" => \E t \in Teams : <<s, t>> \in waits

\* Cases counted in a team's row are the requests that have the team, although
\* a manual dispatch may give a team a second and a third one.
CasesCounted ==
    \A t \in Teams : team[t].cases = ActiveOthers(sos, t, NoSos)
=============================================================================
