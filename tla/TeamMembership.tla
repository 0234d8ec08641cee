--------------------------- MODULE TeamMembership ---------------------------
(***************************************************************************)
(* The members of rescue teams and the leader each team names, as          *)
(* addMember, removeMember, updateMemberRole and leaveTeam change them.    *)
(* None of the four uses a transaction or a lock: every query is a step,   *)
(* other calls come between, and a call may fail after any of them.        *)
(*                                                                         *)
(* An update of a row is three steps.  The repository reads the row;       *)
(* TypeORM's save SELECTs it again and then UPDATEs the columns of the     *)
(* object that differ from what it SELECTed.                               *)
(***************************************************************************)
EXTENDS FiniteSets, Naturals

CONSTANTS
    Teams, Users, Citizens, \* people with an account, and without
    Ids,            \* bound: member rows that are ever created
    Procs,          \* calls in flight at once
    NoTeam, NoId, Nobody,
    PageSize        \* the rows findByTeamId returns when no page is asked for

Persons == Users \cup Citizens
Roles == {"LEADER", "DEPUTY_LEADER", "MEMBER"}

ASSUME MembershipAssumption ==
    /\ Users \cap Citizens = {}
    /\ NoTeam \notin Teams /\ NoId \notin Ids /\ Nobody \notin Persons
    /\ IsFiniteSet(Ids)
    /\ PageSize \in Nat \ {0}

VARIABLES
    rows,      \* rescue_team_member rows
    leader,    \* leaderId and leaderCitizenName of every team
    ctx,       \* what each call in flight has read
    disturbed, \* history: teams where two successions got in each other's way
    doubled,   \* history: accounts that were added twice at once, or let back in
    outrun,    \* history: calls during which others left, after they had counted
    blind      \* history: calls during which others changed who commands the team

history == <<disturbed, doubled, outrun, blind>>
vars == <<rows, leader, ctx, disturbed, doubled, outrun, blind>>

Row == [team: Teams \cup {NoTeam}, person: Persons \cup {Nobody}, role: Roles,
        active: BOOLEAN]
Unused == [team |-> NoTeam, person |-> Nobody, role |-> "MEMBER", active |-> FALSE]
Leader == [user: Users \cup {Nobody}, citizen: Citizens \cup {Nobody}]
NoLeader == [user |-> Nobody, citizen |-> Nobody]

Ops   == {"add", "remove", "role", "leave"}
Steps == {"idle", "findLeader", "count", "findDeputy",
          "roleRead", "roleSelect", "roleSave", "teamRead", "teamSelect", "teamSave",
          "finish", "ownSelect", "ownSave"}
Idle == [pc |-> "idle", op |-> "add", team |-> NoTeam, id |-> NoId,
         person |-> Nobody, role |-> "MEMBER", other |-> NoId,
         row |-> Unused, seen |-> Unused, lead |-> NoLeader, seenLead |-> NoLeader]
\* op on member id of team; person becomes the leader the team names; other
\* is the row demoted or promoted on the way.  row, lead: what update read,
\* row with the role it is to have; seen, seenLead: what its save SELECTed.
Ctx == [pc: Steps, op: Ops, team: Teams \cup {NoTeam}, id: Ids \cup {NoId},
        person: Persons \cup {Nobody}, role: Roles, other: Ids \cup {NoId},
        row: Row, seen: Row, lead: Leader, seenLead: Leader]

TypeOK ==
    /\ rows \in [Ids -> Row]
    /\ leader \in [Teams -> Leader]
    /\ ctx \in [Procs -> Ctx]
    /\ disturbed \subseteq Teams /\ doubled \subseteq Users
    /\ outrun \subseteq Procs /\ blind \subseteq Procs

Init ==
    /\ rows = [i \in Ids |-> Unused]
    /\ leader = [t \in Teams |-> NoLeader]
    /\ ctx = [p \in Procs |-> Idle]
    /\ disturbed = {} /\ doubled = {} /\ outrun = {} /\ blind = {}

-----------------------------------------------------------------------------
Active(t) == {i \in Ids : rows[i].team = t /\ rows[i].active}
WithRole(t, role) == {i \in Active(t) : rows[i].role = role}
Leaders(t) == WithRole(t, "LEADER")
Deputies(t) == WithRole(t, "DEPUTY_LEADER")

\* Mutant of Clashes: only members of this team count.
ClashesHere(t, person) == {i \in Active(t) : rows[i].person = person}

\* findByUserId looks in every team, findByCitizenInfo in this one.
Clashes(t, person) ==
    {i \in Ids : /\ rows[i].active /\ rows[i].person = person
                 /\ person \in Citizens => rows[i].team = t}

\* What findByTeamId may return: a page, in no order.
Pages(t) == {P \in SUBSET Active(t) :
                \/ P = Active(t) /\ Cardinality(P) <= PageSize
                \/ P # Active(t) /\ Cardinality(P) = PageSize}

\* A column after a save: old was SELECTed, new is the object's, now the row's.
Written(old, new, now) == IF new # old THEN new ELSE now

\* The calls that give the team a leader, or take its leader away.
Appoints(c) == c.role = "LEADER"

\* A call goes on, and keeps nothing of what it read for a save.
Goto(p, pc) ==
    ctx' = [ctx EXCEPT ![p] = [@ EXCEPT !.pc = pc, !.row = Unused, !.seen = Unused,
                                        !.lead = NoLeader, !.seenLead = NoLeader]]
Start(p, pc, op, t, i, person, role) ==
    /\ ctx[p].pc = "idle"
    /\ ctx' = [ctx EXCEPT ![p] =
          [Idle EXCEPT !.pc = pc, !.op = op, !.team = t, !.id = i,
                       !.person = person, !.role = role]]

-----------------------------------------------------------------------------
(* The four calls up to their first await.                                 *)

AddMember(p, t, person, role) ==
    /\ Clashes(t, person) = {}
    /\ Start(p, IF role = "LEADER" THEN "findLeader" ELSE "finish",
             "add", t, NoId, person, role)
    /\ UNCHANGED <<rows, leader>>

\* The row may be a former member's; its role is the one read here, whatever
\* happens to it later.
RemoveMember(p, t, i) ==
    /\ rows[i].team = t
    /\ Start(p, "count", "remove", t, i, Nobody, rows[i].role)
    /\ UNCHANGED <<rows, leader>>

UpdateMemberRole(p, t, i, role) ==
    /\ rows[i].team = t
    /\ Start(p, IF role = "LEADER" THEN "findLeader" ELSE "finish",
             "role", t, i, rows[i].person, role)
    /\ UNCHANGED <<rows, leader>>

LeaveTeam(p, i) ==
    /\ rows[i].active /\ rows[i].person \in Users
    /\ Start(p, "count", "leave", rows[i].team, i, Nobody, rows[i].role)
    /\ UNCHANGED <<rows, leader>>

-----------------------------------------------------------------------------
(* The steps that follow.                                                  *)

\* Mutant of FindLeader: the leader of before keeps the role.
FindLeaderBlind(p) ==
    /\ ctx[p].pc = "findLeader"
    /\ Goto(p, "teamRead")
    /\ UNCHANGED <<rows, leader>>

\* A leader already there is demoted before the new one is named.
FindLeader(p) ==
    /\ ctx[p].pc = "findLeader"
    /\ \/ /\ Leaders(ctx[p].team) = {}
          /\ Goto(p, "teamRead")
       \/ \E i \in Leaders(ctx[p].team) :
             ctx' = [ctx EXCEPT ![p].pc = "roleRead", ![p].other = i]
    /\ UNCHANGED <<rows, leader>>

Count(p, least) ==
    LET c == ctx[p]  few == Cardinality(Active(c.team)) <= least IN
    /\ c.pc = "count"
    /\ \/ /\ c.op = "remove" /\ few
          /\ ctx' = [ctx EXCEPT ![p] = Idle]
       \/ /\ c.op = "remove" => ~few
          /\ Goto(p, IF c.role = "LEADER" /\ ~few THEN "findDeputy" ELSE "finish")
    /\ UNCHANGED <<rows, leader>>

\* Mutant of CountMembers: off by one.
CountOneLess(p) == Count(p, 0)

\* The last member cannot be removed, but may leave.
CountMembers(p) == Count(p, 1)

\* Mutant of FindDeputy: nobody takes over.
FindNobody(p) ==
    /\ ctx[p].pc = "findDeputy"
    /\ Goto(p, "finish")
    /\ UNCHANGED <<rows, leader>>

\* A leader goes: the first deputy of the page takes over.  The fields of the
\* team are set to undefined before or instead, which writes nothing.
FindDeputy(p) ==
    LET t == ctx[p].team IN
    /\ ctx[p].pc = "findDeputy"
    /\ \E page \in Pages(t) :
          \/ /\ page \cap Deputies(t) = {}
             /\ Goto(p, "finish")
          \/ \E i \in page \cap Deputies(t) :
                ctx' = [ctx EXCEPT ![p].pc = "roleRead", ![p].other = i,
                                   ![p].person = rows[i].person]
    /\ UNCHANGED <<rows, leader>>

\* memberRepo.update reads the row and sets the role that is given.
ReadRow(p, from, i, role, to) ==
    /\ ctx[p].pc = from
    /\ ctx' = [ctx EXCEPT ![p].pc = to, ![p].row = [rows[i] EXCEPT !.role = role]]
    /\ UNCHANGED <<rows, leader>>

\* save SELECTs it.
SelectRow(p, from, i, to) ==
    /\ ctx[p].pc = from
    /\ ctx' = [ctx EXCEPT ![p].pc = to, ![p].seen = rows[i]]
    /\ UNCHANGED <<rows, leader>>

\* save UPDATEs it: the role, and what others changed since it was read.
SaveRow(c, i) ==
    rows' = [rows EXCEPT ![i].role = Written(c.seen.role, c.row.role, @),
                         ![i].active = Written(c.seen.active, c.row.active, @)]

\* memberRepo.update of the leader found or of the deputy.
RoleRead(p) ==
    ReadRow(p, "roleRead", ctx[p].other,
            IF ctx[p].op \in {"add", "role"} THEN "MEMBER" ELSE "LEADER", "roleSelect")
RoleSelect(p) == SelectRow(p, "roleSelect", ctx[p].other, "roleSave")
RoleSave(p) ==
    /\ ctx[p].pc = "roleSave"
    /\ SaveRow(ctx[p], ctx[p].other)
    /\ Goto(p, "teamRead")
    /\ UNCHANGED leader

\* teamRepo.update.
TeamRead(p) ==
    /\ ctx[p].pc = "teamRead"
    /\ ctx' = [ctx EXCEPT ![p].pc = "teamSelect", ![p].lead = leader[ctx[p].team]]
    /\ UNCHANGED <<rows, leader>>

TeamSelect(p) ==
    /\ ctx[p].pc = "teamSelect"
    /\ ctx' = [ctx EXCEPT ![p].pc = "teamSave", ![p].seenLead = leader[ctx[p].team]]
    /\ UNCHANGED <<rows, leader>>

\* Mutant of Names: a citizen is not stored.
NamesUsersOnly(read, seen, person) ==
    IF person \in Users THEN [read EXCEPT !.user = person] ELSE seen

\* The fields of the object that is saved.  leaderCitizenName is not cleared
\* when a user leads; when a citizen does, leaderId is undefined and not written.
Names(read, seen, person) ==
    IF person \in Users THEN [read EXCEPT !.user = person]
    ELSE [seen EXCEPT !.citizen = person]

TeamSave(p) ==
    LET c == ctx[p]  saved == Names(c.lead, c.seenLead, c.person) IN
    /\ c.pc = "teamSave"
    /\ leader' = [leader EXCEPT
          ![c.team].user = Written(c.seenLead.user, saved.user, @),
          ![c.team].citizen = Written(c.seenLead.citizen, saved.citizen, @)]
    /\ Goto(p, "finish")
    /\ UNCHANGED rows

\* memberRepo.create.
CreateRow(p) ==
    LET c == ctx[p] IN
    /\ c.pc = "finish" /\ c.op = "add"
    /\ \E i \in Ids :
          /\ rows[i] = Unused
          /\ rows' = [rows EXCEPT ![i] = [team |-> c.team, person |-> c.person,
                                          role |-> c.role, active |-> TRUE]]
    /\ ctx' = [ctx EXCEPT ![p] = Idle]
    /\ UNCHANGED leader

\* memberRepo.softDelete writes one column and reads nothing.
SoftDelete(p) ==
    /\ ctx[p].pc = "finish" /\ ctx[p].op \in {"remove", "leave"}
    /\ rows' = [rows EXCEPT ![ctx[p].id].active = FALSE]
    /\ ctx' = [ctx EXCEPT ![p] = Idle]
    /\ UNCHANGED leader

\* memberRepo.update of the member whose role was asked for.
OwnRoleRead(p) ==
    /\ ctx[p].op = "role"
    /\ ReadRow(p, "finish", ctx[p].id, ctx[p].role, "ownSelect")
OwnRoleSelect(p) == SelectRow(p, "ownSelect", ctx[p].id, "ownSave")
OwnRoleSave(p) ==
    /\ ctx[p].pc = "ownSave"
    /\ SaveRow(ctx[p], ctx[p].id)
    /\ ctx' = [ctx EXCEPT ![p] = Idle]
    /\ UNCHANGED leader

\* A query fails, or the process stops: what was written stays.
Fails(p) ==
    /\ ctx[p].pc # "idle"
    /\ ctx' = [ctx EXCEPT ![p] = Idle]
    /\ UNCHANGED <<rows, leader>>

-----------------------------------------------------------------------------
(* The histories.                                                          *)

\* p begins while another call gives t a leader or takes it away, or it takes
\* away a leader of before.
Overlaps(p) ==
    {t \in Teams :
        /\ ctx'[p].team = t /\ Appoints(ctx'[p])
        /\ \/ \E q \in Procs \ {p} : ctx[q].team = t /\ Appoints(ctx[q])
           \/ ctx'[p].op = "remove" /\ ~rows[ctx'[p].id].active}

\* p's save brings a former member back, who has the role LEADER.
LetsBackIn(p) ==
    {t \in Teams :
        /\ ~Appoints(ctx[p])
        /\ \E i \in Ids : /\ rows[i].team = t /\ ~rows[i].active
                          /\ rows'[i].active /\ rows'[i].role = "LEADER"}

\* p fails with the deputy promoted and the leader still there.
HalfDone(p) ==
    {t \in Teams :
        /\ ctx[p].team = t /\ ctx[p].op \in {"remove", "leave"} /\ ctx[p].other # NoId
        /\ ctx[p].pc \in {"teamRead", "teamSelect", "teamSave", "finish"}}

\* p adds an account that another call is adding, or lets it back in.
Doubles(p) ==
    {u \in Users :
        \/ /\ ctx'[p].op = "add" /\ ctx'[p].person = u
           /\ \E q \in Procs \ {p} : ctx[q].op = "add" /\ ctx[q].person = u
        \/ \E i \in Ids : rows[i].person = u /\ ~rows[i].active /\ rows'[i].active}

\* A member of q's team goes, by a call other than q, which has counted them.
Outruns(q) ==
    /\ ctx[q].pc \notin {"idle", "count"}
    /\ \E t \in Teams : ctx[q].team = t /\ ~(Active(t) \subseteq Active(t)')

\* Another call than q changes who leads q's team or deputises.
Confuses(q) ==
    \E t \in Teams : /\ ctx[q].team = t
                     /\ Leaders(t)' # Leaders(t) \/ Deputies(t)' # Deputies(t)

\* p looks for a deputy on a page that does not hold the team.
LooksAtPart(p) ==
    ctx[p].pc = "findDeputy" /\ Cardinality(Active(ctx[p].team)) > PageSize

Remember(p, teams) ==
    /\ disturbed' = disturbed \cup teams
    /\ doubled' = doubled \cup Doubles(p)
    /\ outrun' = {q \in Procs : ctx'[q].pc # "idle" /\ (q \in outrun \/ (q # p /\ Outruns(q)))}
    /\ blind' = {q \in Procs : /\ ctx'[q].pc # "idle"
                               /\ \/ q \in blind
                                  \/ IF q = p THEN LooksAtPart(q) ELSE Confuses(q)}

Call(p) ==
    \/ \E t \in Teams, person \in Persons, role \in Roles : AddMember(p, t, person, role)
    \/ \E t \in Teams, i \in Ids : RemoveMember(p, t, i)
    \/ \E t \in Teams, i \in Ids, role \in Roles : UpdateMemberRole(p, t, i, role)
    \/ \E i \in Ids : LeaveTeam(p, i)

Step(p) ==
    \/ FindLeader(p) \/ CountMembers(p) \/ FindDeputy(p)
    \/ RoleRead(p) \/ RoleSelect(p) \/ RoleSave(p)
    \/ TeamRead(p) \/ TeamSelect(p) \/ TeamSave(p)
    \/ CreateRow(p) \/ SoftDelete(p)
    \/ OwnRoleRead(p) \/ OwnRoleSelect(p) \/ OwnRoleSave(p)

Next == \E p \in Procs :
    \/ Call(p) /\ Remember(p, Overlaps(p))
    \/ Step(p) /\ Remember(p, LetsBackIn(p))
    \/ Fails(p) /\ Remember(p, HalfDone(p))
Spec == Init /\ [][Next]_vars

-----------------------------------------------------------------------------
(* Properties.                                                             *)

Settled(t) == \A p \in Procs : ctx[p].team = t => ~Appoints(ctx[p])

\* Appointing a leader demotes the one before, and a leader who goes is
\* replaced by one deputy: between such calls a team never has two leaders,
\* whatever other calls do to its members meanwhile.  Only a succession that
\* overlapped another, broke off half way, took away a leader of before or met
\* a save that let one back in leaves two.
OneLeader ==
    \A t \in Teams \ disturbed : Settled(t) => Cardinality(Leaders(t)) <= 1

\* The team row names the member who leads, so that dispatch, which looks at
\* leaderId and leaderCitizenName only, sees the team as led: with stale saves
\* of member rows in between, and with calls that failed before they were done.
LeaderIsNamed ==
    \A t \in Teams \ disturbed : Settled(t) =>
        \A i \in Leaders(t) : rows[i].person \in {leader[t].user, leader[t].citizen}

\* An account is an active member of one team at most, across the check of
\* addMember and its insert, which are separate queries, unless two additions
\* of it overlapped or a stale save made a former row of it active again.
UserInOneTeam ==
    \A u \in Users \ doubled :
        Cardinality({i \in Ids : rows[i].active /\ rows[i].person = u}) <= 1

\* A removal or departure writes the row of the member who goes.
Goes(p) == /\ ctx[p].pc = "finish" /\ ctx[p].op \in {"remove", "leave"}
           /\ ctx'[p].pc = "idle" /\ rows' # rows

\* removeMember never empties a team: it counts the members long before it
\* removes one, and the count is good as long as nobody else goes meanwhile.
RemovalLeavesSomeone ==
    [][\A p \in Procs \ outrun, t \in Teams :
          Goes(p) /\ ctx[p].op = "remove" /\ ctx[p].team = t => Active(t)' # {}]_vars

\* When a leader goes, a team with an active deputy has a leader after, unless
\* the deputies did not fit the page, or other calls changed who leads or
\* deputises meanwhile.
DeputyTakesOver ==
    [][\A p \in Procs \ blind, t \in Teams :
          Goes(p) /\ ctx[p].role = "LEADER" /\ ctx[p].team = t =>
             Deputies(t)' = {} \/ Leaders(t)' # {}]_vars
=============================================================================
