---------------------------- MODULE SosDispatch ----------------------------
(***************************************************************************)
(* The dispatch core: SOS requests, rescue teams and the dispatch queue,   *)
(* as every concurrent writer of the NestJS process changes them -- REST   *)
(* handlers, the sos:claim socket handler, the offer listener and its 30 s *)
(* timer, the retry worker -- and as the process restarts.                 *)
(*                                                                         *)
(* A step is what the code does between two awaits that matter: a          *)
(* transaction whose rows are locked is one step, a read that is used      *)
(* after an await is a step of its own whose result is kept in ctx.        *)
(* repo.update reads the row, puts the caller's columns over it and saves  *)
(* the result; save SELECTs the row once more and UPDATEs the columns that *)
(* differ: three steps between which others write.  A column set to        *)
(* undefined is left alone.                                                *)
(***************************************************************************)
EXTENDS DispatchRows

CONSTANTS
    Procs,            \* handlers and callbacks that may be in flight at once
    Worker,           \* the retry worker's context
    Reach,            \* Reach[s]: teams inside the widest radius step of s
    Weight,           \* Weight[s]: SEVERITY_WEIGHTS of the severity of s
    NeedsEquipment,   \* requests that ask for a specialist team
    Mismatch,         \* Mismatch[s][t]: skill mismatch (scaled to naturals)
    MaxCandidates,    \* TOMTOM_MAX_CANDIDATES
    MaxRetry,         \* MAX_DISPATCH_RETRY
    EditStatuses,     \* team statuses an operator sets by hand
    EditCases,        \* case counts an operator sets by hand
    NewStatuses,      \* SOS statuses a client asks for
    InitStatuses,     \* statuses the teams start with
    MaxQueue,         \* bound: positions in one team's queue
    MaxCalls,         \* bound: requests of clients, socket claims excepted
    MaxRestarts       \* bound: restarts of the process

ASSUME ConstantsAssumption ==
    /\ Worker \notin Procs
    /\ Reach \in [Sos -> SUBSET Teams]
    /\ Weight \in [Sos -> Nat]
    /\ NeedsEquipment \subseteq Sos
    /\ Mismatch \in [Sos -> [Teams -> Nat]]
    /\ MaxCandidates \in Nat \ {0}
    /\ MaxRetry \in Nat
    /\ EditStatuses \subseteq TeamStatus
    /\ EditCases \subseteq Nat
    /\ NewStatuses \subseteq SosStatus
    /\ InitStatuses \subseteq TeamStatus \ {"DISPATCHED"}
    /\ MaxQueue \in Nat
    /\ MaxCalls \in Nat
    /\ MaxRestarts \in Nat

VARIABLES
    sos,      \* sos_request rows: status and assignedTeamId
    team,     \* rescue_team rows: status and activeCasesCount
    queue,    \* dispatch_queue rows
    events,   \* sos.created events emitted and not yet handled
    timers,   \* armed 30 s offer timers
    ctx,      \* what each handler or callback in flight has read so far
    batch,    \* rest of the list the retry worker goes through
    torn,     \* history: teams whose two columns somebody set apart
    calls,    \* requests of clients so far
    restarts  \* restarts so far

dbVars == <<sos, team, queue>>
vars == <<sos, team, queue, events, timers, ctx, batch, torn, calls, restarts>>

QueueRow == [sos: Sos, team: Teams, at: 1..MaxQueue]

Steps == {"idle", "score", "fallback", "commit", "assign", "manual",
          "release", "teamRead", "teamSelect", "teamSave", "sosSelect", "sosSave", "batch"}
Calls == Procs \cup {Worker}
NoRow == [status |-> "AVAILABLE", cases |-> 0]
NoRequest == [status |-> "NONE", team |-> NoTeam]
\* row is the team a save makes, seen and found what a save of a team and of a
\* request SELECTed.
Idle  == [pc |-> "idle", sos |-> NoSos, team |-> NoTeam, status |-> "PENDING",
          cands |-> << >>, tries |-> 0, row |-> NoRow, seen |-> NoRow, found |-> NoRequest]
Ctx == [pc: Steps, sos: Sos \cup {NoSos}, team: Teams \cup {NoTeam},
        status: SosStatus, cands: Seq(Teams), tries: 0..MaxRetry, row: TeamRow,
        seen: TeamRow, found: SosRow]

TypeOK ==
    /\ sos \in [Sos -> SosRow]
    /\ team \in [Teams -> TeamRow]
    /\ queue \subseteq QueueRow
    /\ events \subseteq Sos
    /\ timers \subseteq Sos
    /\ ctx \in [Calls -> Ctx]
    /\ batch \subseteq Sos
    /\ torn \subseteq Teams
    /\ calls \in 0..MaxCalls
    /\ restarts \in 0..MaxRestarts

Init ==
    /\ sos = [s \in Sos |-> NoRequest]
    /\ team \in [Teams -> [status: InitStatuses, cases: {0}]]
    /\ queue = {}
    /\ events = {}
    /\ timers = {}
    /\ ctx = [p \in Calls |-> Idle]
    /\ batch = {}
    /\ torn = {}
    /\ calls = 0
    /\ restarts = 0

-----------------------------------------------------------------------------
(* Helpers.                                                                *)

\* A row whose two columns agree.
LoadOK(row) ==
    /\ row.status \in Free => row.cases = 0
    /\ row.status = "DISPATCHED" => row.cases > 0

IsFree(t) == team[t].status \in Free
FreeIn(s) == {t \in Reach[s] : IsFree(t)}

\* Mutant of Unassigned: the worker's query forgets the status.
WithoutTeam(s) == sos[s].status # "NONE" /\ sos[s].team = NoTeam

Unassigned(s) == sos[s].status \in Waiting /\ sos[s].team = NoTeam

\* The rankings assignTeam may return: some of the free teams in reach, in
\* an order that scores, routes and traffic decide.
Rankings(s) ==
    {c \in UNION {[1..n -> FreeIn(s)] : n \in 1..MaxCandidates} :
        \A i, j \in DOMAIN c : c[i] = c[j] => i = j}

\* The first candidate that is still free.
Picks(c, i) ==
    /\ i \in DOMAIN c
    /\ IsFree(c[i])
    /\ \A j \in DOMAIN c : j < i => ~IsFree(c[j])

\* The candidate a request waits for when none is free.
QueuesFor(s, c, i) ==
    /\ i \in DOMAIN c
    /\ IF s \in NeedsEquipment
       THEN \A j \in DOMAIN c :
               /\ Mismatch[s][c[i]] <= Mismatch[s][c[j]]
               /\ j < i => Mismatch[s][c[i]] # Mismatch[s][c[j]]
       ELSE i = 1

\* The specialist that would be queued besides the team t that goes at once.
Specialist(s, t, c, i) ==
    /\ i \in DOMAIN c
    /\ s \in NeedsEquipment
    /\ Mismatch[s][t] > 0
    /\ c[i] # t
    /\ Mismatch[s][c[i]] = 0
    /\ \A j \in DOMAIN c : j < i /\ c[j] # t => Mismatch[s][c[j]] > 0

\* tryStartDualDispatch counts the queued specialists with COUNT(*) and FOR
\* UPDATE, which PostgreSQL refuses: whoever asks rolls the transaction back.
Refused(s, t, c) == \E i \in DOMAIN c : Specialist(s, t, c, i)

\* at stands for queuedAt: later than every row the team already has.
Enqueue(s, t) ==
    \E at \in 1..MaxQueue :
        /\ \A e \in queue : e.team = t => e.at < at
        /\ at > 1 => \E e \in queue : e.team = t /\ e.at = at - 1
        /\ queue' = queue \cup {[sos |-> s, team |-> t, at |-> at]}

\* priorityScore DESC, queuedAt ASC
NextInQueue(t, e) ==
    /\ e \in queue
    /\ e.team = t
    /\ \A f \in queue : f.team = t =>
          \/ Weight[f.sos] < Weight[e.sos]
          \/ Weight[f.sos] = Weight[e.sos] /\ e.at <= f.at

\* Bound: a new request for automatic dispatch is accepted only while every
\* dispatch in flight still finds a position in the queue.
QueueRoom ==
    Cardinality(queue) + Cardinality({p \in Procs : ctx[p].pc # "idle"}) < MaxQueue

Ready(p) == p \in Procs /\ ctx[p] = Idle
\* A client's request reaches an idle context.
Called(p) == Ready(p) /\ calls < MaxCalls /\ calls' = calls + 1
Goes(p, pc) == [ctx EXCEPT ![p].pc = pc]
Starts(p, pc, s) == [ctx EXCEPT ![p] = [Idle EXCEPT !.pc = pc, !.sos = s]]
\* A handler returns; the worker goes on with its list.
Returns(p) == [ctx EXCEPT ![p] = IF p = Worker THEN [Idle EXCEPT !.pc = "batch"]
                                               ELSE Idle]

-----------------------------------------------------------------------------
(* Creation, offers and claims.                                            *)

\* POST /sos-requests: the row is saved, then sos.created is emitted.
Create(s) ==
    /\ sos[s].status = "NONE"
    /\ sos' = [sos EXCEPT ![s].status = "PENDING"]
    /\ events' = events \cup {s}
    /\ UNCHANGED <<team, queue, timers, ctx, batch, torn, calls, restarts>>

\* The listener offers the request to the best teams and arms the timer, or
\* dispatches at once when no team is free.
HandleSosCreated(p, s) ==
    /\ Ready(p)
    /\ s \in events
    /\ events' = events \ {s}
    /\ IF FreeIn(s) = {}
       THEN ctx' = Starts(p, "score", s) /\ UNCHANGED timers
       ELSE timers' = timers \cup {s} /\ UNCHANGED ctx
    /\ UNCHANGED <<dbVars, batch, torn, calls, restarts>>

\* Mutant of OfferTimeout: the request is not read again.
OfferTimeoutBlind(p, s) ==
    /\ Ready(p)
    /\ s \in timers
    /\ timers' = timers \ {s}
    /\ ctx' = Starts(p, "score", s)
    /\ UNCHANGED <<dbVars, events, batch, torn, calls, restarts>>

\* The 30 s callback: reads the request again and dispatches it by force.
OfferTimeout(p, s) ==
    /\ Ready(p)
    /\ s \in timers
    /\ timers' = timers \ {s}
    /\ ctx' = IF Unassigned(s) THEN Starts(p, "score", s) ELSE ctx
    /\ UNCHANGED <<dbVars, events, batch, torn, calls, restarts>>

\* The listener and its callback catch the errors of their queries: the event
\* or the timer is gone and nothing is done for the request.
ListenerError(s) ==
    /\ \/ s \in events /\ events' = events \ {s} /\ UNCHANGED timers
       \/ s \in timers /\ timers' = timers \ {s} /\ UNCHANGED events
    /\ UNCHANGED <<dbVars, ctx, batch, torn, calls, restarts>>

\* sos:claim: one transaction that locks the request, then the team.
HandleSosClaim(s, t) ==
    /\ sos[s].status \in Waiting
    /\ IsFree(t)
    /\ sos' = Assigned(sos, s, t)
    /\ team' = TakesCase(team, t)
    /\ UNCHANGED <<queue, events, timers, ctx, batch, torn, calls, restarts>>

-----------------------------------------------------------------------------
(* dispatchWithRetry: the strategy runs outside the transaction.           *)

Score(p) ==
    /\ ctx[p].pc = "score"
    /\ IF FreeIn(ctx[p].sos) = {}
       THEN ctx' = Goes(p, "fallback")
       ELSE \E c \in Rankings(ctx[p].sos) :
               ctx' = [ctx EXCEPT ![p].pc = "commit", ![p].cands = c]
    /\ UNCHANGED <<dbVars, events, timers, batch, torn, calls, restarts>>

\* No candidate at all: PENDING_SPECIALIST, whatever the row says by now.
Fallback(p) ==
    /\ ctx[p].pc = "fallback"
    /\ sos' = [sos EXCEPT ![ctx[p].sos].status = "PENDING_SPECIALIST"]
    /\ ctx' = Returns(p)
    /\ UNCHANGED <<team, queue, events, timers, batch, torn, calls, restarts>>

\* commitTx with a free candidate: the teams are locked and looked at again,
\* the request is not.
CommitAssign(p) ==
    LET s == ctx[p].sos  c == ctx[p].cands IN
    /\ ctx[p].pc = "commit"
    /\ \E i \in DOMAIN c :
          /\ Picks(c, i)
          /\ ~Refused(s, c[i], c)
          /\ sos' = Assigned(sos, s, c[i])
          /\ team' = TakesCase(team, c[i])
    /\ ctx' = Returns(p)
    /\ UNCHANGED <<queue, events, timers, batch, torn, calls, restarts>>

\* commitTx with every candidate taken meanwhile: the request is queued for
\* one of them. assignedTeamId = undefined leaves the column as it is.
CommitQueue(p) ==
    LET s == ctx[p].sos  c == ctx[p].cands IN
    /\ ctx[p].pc = "commit"
    /\ \A i \in DOMAIN c : ~IsFree(c[i])
    /\ \E i \in DOMAIN c : QueuesFor(s, c, i) /\ Enqueue(s, c[i])
    /\ sos' = [sos EXCEPT ![s].status = "PENDING"]
    /\ ctx' = Returns(p)
    /\ UNCHANGED <<team, events, timers, batch, torn, calls, restarts>>

\* The transaction is rolled back (a deadlock victim, a lost connection, a
\* query the database rejects): scored again, up to MAX_DISPATCH_RETRY times.
CommitFails(p) ==
    /\ ctx[p].pc \in {"commit", "fallback"}
    /\ ctx' = IF ctx[p].tries < MaxRetry
              THEN [ctx EXCEPT ![p].pc = "score", ![p].cands = << >>,
                               ![p].tries = ctx[p].tries + 1]
              ELSE Returns(p)
    /\ UNCHANGED <<dbVars, events, timers, batch, torn, calls, restarts>>

-----------------------------------------------------------------------------
(* PATCH /sos-requests/:id/assign.                                         *)

AssignAuto(p, s) ==
    /\ Called(p)
    /\ QueueRoom
    /\ sos[s].status \notin Closed \cup {"NONE"}
    /\ ctx' = Starts(p, "score", s)
    /\ UNCHANGED <<dbVars, events, timers, batch, torn, restarts>>

\* The team's status is checked here, without a lock.
AssignManual(p, s, t) ==
    /\ Called(p)
    /\ sos[s].status \notin Closed \cup {"NONE"}
    /\ IsFree(t)
    /\ ctx' = [ctx EXCEPT ![p] = [Idle EXCEPT !.pc = "assign", !.sos = s,
                                              !.cands = <<t>>]]
    /\ UNCHANGED <<dbVars, events, timers, batch, torn, restarts>>

\* dispatchManual reads the request, then waits for the team's row.
ManualRead(p) ==
    /\ ctx[p].pc = "assign"
    /\ ctx' = IF sos[ctx[p].sos].status \in Closed
              THEN [ctx EXCEPT ![p] = Idle]
              ELSE [ctx EXCEPT ![p].pc = "manual", ![p].team = sos[ctx[p].sos].team]
    /\ UNCHANGED <<dbVars, events, timers, batch, torn, calls, restarts>>

\* With the team locked: the team the request had when it was read is counted
\* again, the request moves, the team takes the case.
ManualCommit(p) ==
    LET s == ctx[p].sos  t == ctx[p].cands[1]  old == ctx[p].team IN
    /\ ctx[p].pc = "manual"
    /\ sos' = Assigned(sos, s, t)
    /\ team' = IF old \in Teams \ {t}
               THEN [TakesCase(team, t) EXCEPT ![old] = Recounted(ActiveOthers(sos, old, s))]
               ELSE TakesCase(team, t)
    /\ ctx' = [ctx EXCEPT ![p] = Idle]
    /\ UNCHANGED <<queue, events, timers, batch, torn, calls, restarts>>

-----------------------------------------------------------------------------
(* PATCH /sos-requests/:id/status and DELETE /sos-requests/:id.            *)

\* updateStatus reads the request. A resolved request first gives its team
\* back, ON_SITE first marks the team BUSY; then the object read is saved.
UpdateStatus(p, s, new) ==
    /\ Called(p)
    /\ sos[s].status \notin Closed \cup {"NONE"}
    /\ new = "PENDING" => sos[s].status = "PENDING"
    /\ ctx' = [ctx EXCEPT ![p] =
                [Idle EXCEPT !.sos = s, !.team = sos[s].team, !.status = new,
                             !.pc = IF sos[s].team = NoTeam THEN "sosSelect"
                                    ELSE IF new = "RESOLVED" THEN "release"
                                    ELSE IF new = "ON_SITE" THEN "teamRead"
                                    ELSE "sosSelect"]]
    /\ UNCHANGED <<dbVars, events, timers, batch, torn, restarts>>

\* cancel: a resident or a guest may not cancel a request that is ON_SITE.
Cancel(p, s, byStaff) ==
    /\ Called(p)
    /\ sos[s].status \notin Closed \cup {"NONE"}
    /\ byStaff \/ sos[s].status # "ON_SITE"
    /\ ctx' = [ctx EXCEPT ![p] =
                [Idle EXCEPT !.sos = s, !.team = sos[s].team, !.status = "CANCELLED",
                             !.pc = IF sos[s].team = NoTeam THEN "sosSelect"
                                                            ELSE "release"]]
    /\ UNCHANGED <<dbVars, events, timers, batch, torn, restarts>>

\* releaseTeamAndResolveQueue with a request waiting for the team: it is given
\* to the team at once, whatever its own status, and counted after the save.
Handoff(p) ==
    LET t == ctx[p].team IN
    /\ ctx[p].pc = "release"
    /\ \E e \in queue :
          /\ NextInQueue(t, e)
          /\ sos' = Assigned(sos, e.sos, t)
          /\ team' = [team EXCEPT ![t] =
                        [status |-> "DISPATCHED",
                         cases |-> ActiveOthers(sos', t, ctx[p].sos) + 1]]
          /\ queue' = queue \ {e}
    /\ ctx' = Goes(p, "sosSelect")
    /\ UNCHANGED <<events, timers, batch, torn, calls, restarts>>

\* releaseTeamAndResolveQueue with nobody waiting: the cases are counted again.
Release(p) ==
    LET t == ctx[p].team IN
    /\ ctx[p].pc = "release"
    /\ \A e \in queue : e.team # t
    /\ team' = [team EXCEPT ![t] = Recounted(ActiveOthers(sos, t, ctx[p].sos))]
    /\ ctx' = Goes(p, "sosSelect")
    /\ UNCHANGED <<sos, queue, events, timers, batch, torn, calls, restarts>>

\* teamRepo.update(id, {status: BUSY}) reads the whole row, ...
TeamRead(p) ==
    /\ ctx[p].pc = "teamRead"
    /\ ctx' = [ctx EXCEPT ![p].pc = "teamSelect",
                          ![p].row = [team[ctx[p].team] EXCEPT !.status = "BUSY"]]
    /\ UNCHANGED <<dbVars, events, timers, batch, torn, calls, restarts>>

\* ... save SELECTs it once more ...
TeamSelect(p) ==
    /\ ctx[p].pc = "teamSelect"
    /\ ctx' = [ctx EXCEPT ![p].pc = "teamSave", ![p].seen = team[ctx[p].team]]
    /\ UNCHANGED <<dbVars, events, timers, batch, torn, calls, restarts>>

\* The row after the UPDATE, and whether it mixes two versions of it because the
\* row is no longer the one that was SELECTed.
SavedTeam(c, now) ==
    [status |-> Written(c.seen.status, c.row.status, now.status),
     cases  |-> Written(c.seen.cases, c.row.cases, now.cases)]
Tears(c, now) == now # c.seen /\ SavedTeam(c, now) \notin {c.row, now}

SaveEnds(p) ==
    ctx' = IF ctx[p].sos = NoSos THEN [ctx EXCEPT ![p] = Idle] ELSE Goes(p, "sosSelect")

\* Mutant of TeamSave: only the column that was asked for is written.
TeamSaveStatusOnly(p) ==
    LET t == ctx[p].team IN
    /\ ctx[p].pc = "teamSave"
    /\ team' = [team EXCEPT ![t].status = ctx[p].row.status]
    /\ torn' = IF Tears(ctx[p], team[t]) THEN torn \cup {t} ELSE torn
    /\ SaveEnds(p)
    /\ UNCHANGED <<sos, queue, events, timers, batch, calls, restarts>>

\* ... and UPDATEs the columns that differ, after waiting for whoever has the
\* row locked.
TeamSave(p) ==
    LET t == ctx[p].team IN
    /\ ctx[p].pc = "teamSave"
    /\ team' = [team EXCEPT ![t] = SavedTeam(ctx[p], team[t])]
    /\ torn' = IF Tears(ctx[p], team[t]) THEN torn \cup {t} ELSE torn
    /\ SaveEnds(p)
    /\ UNCHANGED <<sos, queue, events, timers, batch, calls, restarts>>

\* sosRepo.update(id, sos): status and assignedTeamId as first read, over the
\* row that save SELECTs.
SosSelect(p) ==
    /\ ctx[p].pc = "sosSelect"
    /\ ctx' = [ctx EXCEPT ![p].pc = "sosSave", ![p].found = sos[ctx[p].sos]]
    /\ UNCHANGED <<dbVars, events, timers, batch, torn, calls, restarts>>

SosSave(p) ==
    LET s == ctx[p].sos IN
    /\ ctx[p].pc = "sosSave"
    /\ sos' = [sos EXCEPT ![s] =
                 [status |-> Written(ctx[p].found.status, ctx[p].status, sos[s].status),
                  team   |-> Written(ctx[p].found.team, ctx[p].team, sos[s].team)]]
    /\ ctx' = [ctx EXCEPT ![p] = Idle]
    /\ UNCHANGED <<team, queue, events, timers, batch, torn, calls, restarts>>

\* PATCH of a rescue team: any field, status and activeCasesCount included, over
\* the row read.  An operator may ask for columns that disagree.
TeamEdit(p, t, status, cases) ==
    LET row == [status |-> status, cases |-> cases] IN
    /\ Called(p)
    /\ ctx' = [ctx EXCEPT ![p] = [Idle EXCEPT !.pc = "teamSelect", !.team = t,
                                              !.row = row]]
    /\ torn' = IF LoadOK(row) THEN torn ELSE torn \cup {t}
    /\ UNCHANGED <<dbVars, events, timers, batch, restarts>>

\* A statement of a handler fails: the exception ends the request, and what
\* its earlier statements and transactions wrote stays.
HandlerError(p) ==
    /\ ctx[p].pc \in {"assign", "manual", "release", "teamRead", "teamSelect", "teamSave",
                      "sosSelect", "sosSave"}
    /\ ctx' = [ctx EXCEPT ![p] = Idle]
    /\ UNCHANGED <<dbVars, events, timers, batch, torn, calls, restarts>>

-----------------------------------------------------------------------------
(* The retry worker (every 15 s, one round at a time) and restarts.        *)

\* Mutant of WorkerScan: PENDING_SPECIALIST is missing from the query.
ScanPendingOnly ==
    /\ ctx[Worker].pc = "idle"
    /\ \E s \in Sos : Unassigned(s) /\ sos[s].status = "PENDING"
    /\ batch' = {s \in Sos : Unassigned(s) /\ sos[s].status = "PENDING"}
    /\ ctx' = Goes(Worker, "batch")
    /\ UNCHANGED <<dbVars, events, timers, torn, calls, restarts>>

\* isProcessing is set while ctx[Worker] is not idle. The list is read once.
WorkerScan ==
    /\ ctx[Worker].pc = "idle"
    /\ \E s \in Sos : Unassigned(s)
    /\ batch' = {s \in Sos : Unassigned(s)}
    /\ ctx' = Goes(Worker, "batch")
    /\ UNCHANGED <<dbVars, events, timers, torn, calls, restarts>>

\* One request of the list: when some team is free, its queue rows are deleted
\* and it is dispatched with the object of the list, not read again.
WorkerRetry(s) ==
    /\ ctx[Worker].pc = "batch"
    /\ s \in batch
    /\ batch' = batch \ {s}
    /\ IF \E t \in Teams : IsFree(t)
       THEN /\ queue' = {e \in queue : e.sos # s}
            /\ ctx' = Starts(Worker, "score", s)
       ELSE UNCHANGED <<queue, ctx>>
    /\ UNCHANGED <<sos, team, events, timers, torn, calls, restarts>>

\* A query of the worker fails: the delete of queue rows costs the request its
\* turn, the query of the teams ends the round.
WorkerError ==
    /\ ctx[Worker].pc = "batch"
    /\ \E s \in batch :
          \/ batch' = batch \ {s} /\ UNCHANGED ctx
          \/ batch' = {} /\ ctx' = [ctx EXCEPT ![Worker] = Idle]
    /\ UNCHANGED <<dbVars, events, timers, torn, calls, restarts>>

WorkerRoundEnds ==
    /\ ctx[Worker].pc = "batch"
    /\ batch = {}
    /\ ctx' = [ctx EXCEPT ![Worker] = Idle]
    /\ UNCHANGED <<dbVars, events, timers, batch, torn, calls, restarts>>

\* The process restarts: events, timers and everything in flight are lost.
Restart ==
    /\ restarts < MaxRestarts
    /\ restarts' = restarts + 1
    /\ events' = {}
    /\ timers' = {}
    /\ ctx' = [p \in Calls |-> Idle]
    /\ batch' = {}
    /\ UNCHANGED <<dbVars, torn, calls>>

-----------------------------------------------------------------------------
Dispatching(p) ==
    Score(p) \/ Fallback(p) \/ CommitAssign(p) \/ CommitQueue(p) \/ CommitFails(p)

Handling(p) ==
    \/ ManualRead(p) \/ ManualCommit(p)
    \/ Handoff(p) \/ Release(p)
    \/ TeamRead(p) \/ TeamSelect(p) \/ TeamSave(p) \/ SosSelect(p) \/ SosSave(p)
    \/ HandlerError(p)

Arriving(p) ==
    \/ \E s \in Sos : HandleSosCreated(p, s) \/ OfferTimeout(p, s) \/ AssignAuto(p, s)
    \/ \E s \in Sos, t \in Teams : AssignManual(p, s, t)
    \/ \E s \in Sos, new \in NewStatuses : UpdateStatus(p, s, new)
    \/ \E s \in Sos, byStaff \in BOOLEAN : Cancel(p, s, byStaff)
    \/ \E t \in Teams :
          \E status \in EditStatuses \cup {team[t].status}, cases \in EditCases \cup {team[t].cases} :
             TeamEdit(p, t, status, cases)

Working ==
    \/ WorkerScan
    \/ \E s \in Sos : WorkerRetry(s)
    \/ WorkerError
    \/ WorkerRoundEnds

Next ==
    \/ \E s \in Sos : Create(s) \/ ListenerError(s)
    \/ \E s \in Sos, t \in Teams : HandleSosClaim(s, t)
    \/ \E p \in Calls : Dispatching(p)
    \/ \E p \in Procs : Arriving(p) \/ Handling(p)
    \/ Working
    \/ Restart

Spec == Init /\ [][Next]_vars

\* The interval keeps firing and its callbacks run to their end; a database
\* that the worker queries and commits to again and again does not fail every
\* time. Clients, timers and the other handlers owe nothing.
Fairness ==
    /\ WF_vars(WorkerScan)
    /\ \A s \in Sos : SF_vars(WorkerRetry(s))
    /\ WF_vars(WorkerRoundEnds)
    /\ WF_vars(Dispatching(Worker))
    /\ SF_vars(Fallback(Worker) \/ CommitAssign(Worker) \/ CommitQueue(Worker))

FairSpec == Spec /\ Fairness

-----------------------------------------------------------------------------
(* What holds.                                                             *)

\* The two columns of a team agree: a team that may be given work has none, a
\* DISPATCHED team has some -- over claims, dispatches, hand-offs, recounts and
\* every save of an object read earlier, the whole of which is written back.  Only
\* a save whose row changes between its own SELECT and its UPDATE sets the columns
\* apart, and an operator who asks for it.
LoadMatchesStatus == \A t \in Teams \ torn : LoadOK(team[t])

\* A request is at rest when it is closed and nobody holds an older copy of
\* it: no handler, no event, no entry of the worker's list, no queue row.
AtRest(s) ==
    /\ sos[s].status \in Closed
    /\ s \notin events \cup batch
    /\ \A p \in Calls : ctx[p].sos # s
    /\ \A e \in queue : e.sos # s

\* A closed request at rest stays so: armed timers, late claims, new REST calls
\* and later rounds of the worker never bring it back. What does bring closed
\* requests back is an older copy or a queue row.
ClosedAtRestIsFinal == [][\A s \in Sos : AtRest(s) => AtRest(s)']_vars

\* Does the order of the ranking decide whether s asks for the refused count?
Mixed(s, free) ==
    s \in NeedsEquipment /\ \E t, u \in free : Mismatch[s][t] = 0 /\ Mismatch[s][u] > 0

\* No request waits for ever beside teams that stay free, although offers,
\* timers and whole processes are lost: the retry worker gets to it.  Left out is
\* the one request it gets to in vain: one that needs equipment while a specialist
\* and another team are free, for every dispatch that ranks the other team first
\* is rolled back.
NoRequestStarves ==
    \A s \in Sos, free \in SUBSET Teams \ {{}} :
        ~Mixed(s, free) => ~<>[](Unassigned(s) /\ FreeIn(s) = free)

-----------------------------------------------------------------------------
(* What the documents or comments say and the code does not do.            *)

\* sos-request.service.ts:259: the status of a request that is resolved or
\* cancelled cannot be changed.
ClosedIsFinal ==
    [][\A s \in Sos : sos[s].status \in Closed => sos'[s].status = sos[s].status]_vars
=============================================================================
