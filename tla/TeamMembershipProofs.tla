------------------------ MODULE TeamMembershipProofs ------------------------
(***************************************************************************)
(* Proofs about TeamMembership, for any number of teams, people, rows and  *)
(* calls in flight, in any order of their steps and with failures between  *)
(* them: one leader, who is the one named; nobody in two teams; no removal *)
(* of the last member; a deputy in the place of a leader who goes.  What   *)
(* the histories leave out is all that they leave out.                     *)
(***************************************************************************)
EXTENDS TeamMembership, FiniteSetTheorems, TLAPS

AtMostOne(S) == \A i, j \in S : i = j
Departs(c) == c.op \in {"remove", "leave"}
OfRole == {"roleRead", "roleSelect", "roleSave"}
OfTeam == {"teamRead", "teamSelect", "teamSave"}

\* Every member is of a team.
RowsOK == \A i \in Ids : rows[i].active => rows[i].team \in Teams

\* A call in flight knows its team and the rows it is about.
Operands(c, rs) ==
    /\ c.pc = "idle" => c = Idle
    /\ c.pc # "idle" => c.team \in Teams
    /\ c.pc # "idle" /\ c.op # "add" => c.id \in Ids /\ rs[c.id].team = c.team
    /\ c.other # NoId => rs[c.other].team = c.team
    /\ c.pc \in OfRole => c.other # NoId
    /\ c.pc \in {"ownSelect", "ownSave"} => c.op = "role"
    /\ c.pc \in {"count", "findDeputy"} => Departs(c)
    /\ c.pc = "findLeader" => ~Departs(c)

Base ==
    /\ TypeOK
    /\ RowsOK
    /\ \A p \in Procs : Operands(ctx[p], rows)

\* A row that is somebody's stays that person's and that team's.
RowsStay == \A i \in Ids : rows[i].team \in Teams =>
    rows'[i].team = rows[i].team /\ rows'[i].person = rows[i].person

Acts(p) == Call(p) \/ Step(p) \/ Fails(p)
-----------------------------------------------------------------------------
(* Types.                                                                  *)

\* The idle context is a context.
LEMMA NothingRead == Unused \in Row /\ NoLeader \in Leader
  BY DEF Row, Unused, Leader, NoLeader, Roles

LEMMA IdleTyped ==
  /\ Idle \in Ctx
  /\ Idle.pc = "idle" /\ Idle.op = "add" /\ Idle.other = NoId /\ Idle.role = "MEMBER"
  /\ Idle.team = NoTeam /\ Idle.person = Nobody
  BY NothingRead DEF Ctx, Idle, Steps, Ops, Roles

\* Types hold at first.
LEMMA BaseInit == Init => Base
  <1> SUFFICES ASSUME Init PROVE Base
    OBVIOUS
  <1>1. TypeOK
    BY NothingRead, IdleTyped DEF Init, TypeOK
  <1>2. RowsOK
    BY DEF Init, RowsOK, Unused
  <1>3. ASSUME NEW p \in Procs PROVE Operands(ctx[p], rows)
    <2>1. ctx[p] = Idle
      BY DEF Init
    <2> QED
      BY <2>1, IdleTyped DEF Operands, OfRole
  <1> QED
    BY <1>1, <1>2, <1>3 DEF Base

\* A step gives its own call a new context and leaves the others alone.
LEMMA BaseKept ==
  ASSUME Base, NEW p \in Procs, NEW c \in Ctx, Operands(c, rows'),
         ctx' = [ctx EXCEPT ![p] = c],
         rows' \in [Ids -> Row], RowsOK', RowsStay, leader' \in [Teams -> Leader],
         NEW S \in SUBSET Teams, Remember(p, S)
  PROVE  Base'
  <1>1. ctx' \in [Procs -> Ctx]
    BY DEF Base, TypeOK
  <1>2. ASSUME NEW q \in Procs PROVE Operands(ctx'[q], rows')
    <2>1. CASE q = p
      BY <2>1 DEF Base, TypeOK
    <2>2. CASE q # p
      <3>1. ctx'[q] = ctx[q] /\ ctx[q] \in Ctx /\ Operands(ctx[q], rows)
        BY <2>2 DEF Base, TypeOK
      <3>2. ctx[q].other # NoId => ctx[q].other \in Ids
        BY <3>1 DEF Ctx
      <3>3. ctx[q].other # NoId => ctx[q].team \in Teams
        BY <3>1 DEF Operands, Idle
      <3> QED
        BY <3>1, <3>2, <3>3 DEF Operands, RowsStay
    <2> QED
      BY <2>1, <2>2
  <1>3. /\ disturbed' \subseteq Teams /\ doubled' \subseteq Users
        /\ outrun' \subseteq Procs /\ blind' \subseteq Procs
    BY DEF Remember, Doubles, Base, TypeOK
  <1> QED
    BY <1>1, <1>2, <1>3 DEF Base, TypeOK

\* A call that goes on, as Goto has it.
Further(c, pc) ==
    [c EXCEPT !.pc = pc, !.row = Unused, !.seen = Unused, !.lead = NoLeader,
              !.seenLead = NoLeader]

LEMMA FurtherTyped ==
  ASSUME NEW c \in Ctx, NEW pc \in Steps
  PROVE  /\ Further(c, pc) \in Ctx
         /\ Further(c, pc).pc = pc
         /\ Further(c, pc).op = c.op /\ Further(c, pc).team = c.team
         /\ Further(c, pc).id = c.id /\ Further(c, pc).person = c.person
         /\ Further(c, pc).role = c.role /\ Further(c, pc).other = c.other
  <1> DEFINE a == [c EXCEPT !.pc = pc, !.row = Unused, !.seen = Unused]
  <1>1. /\ a \in Ctx /\ a.pc = pc /\ a.op = c.op /\ a.team = c.team /\ a.id = c.id
        /\ a.person = c.person /\ a.role = c.role /\ a.other = c.other
    BY NothingRead DEF Ctx
  <1>2. Further(c, pc) = [a EXCEPT !.lead = NoLeader, !.seenLead = NoLeader]
    BY DEF Further
  <1> HIDE DEF a
  <1> QED
    BY <1>1, <1>2, NothingRead DEF Ctx

\* What a call begins with.
Begins(p) ==
    LET c == ctx'[p] IN
    /\ UNCHANGED <<rows, leader>>
    /\ ctx[p] = Idle
    /\ ctx' = [ctx EXCEPT ![p] = c]
    /\ c \in Ctx
    /\ c.pc # "idle" /\ c.team \in Teams /\ c.other = NoId
    /\ Departs(c) => /\ c.pc = "count" /\ c.role = rows[c.id].role
                     /\ c.op = "leave" => rows[c.id].active
    /\ ~Departs(c) => c.pc = IF c.role = "LEADER" THEN "findLeader" ELSE "finish"
    /\ c.op # "add" => c.id \in Ids /\ rows[c.id].team = c.team
    /\ c.op = "role" => c.person = rows[c.id].person
    /\ c.op = "add" => Clashes(c.team, c.person) = {}

LEMMA CallBegins == ASSUME Base, NEW p \in Procs, Call(p) PROVE Begins(p)
  <1> DEFINE Begun(pc, op, t, i, person, role) ==
               [Idle EXCEPT !.pc = pc, !.op = op, !.team = t, !.id = i,
                            !.person = person, !.role = role]
  <1>1. ASSUME NEW pc \in {"findLeader", "finish", "count"}, NEW op \in Ops, NEW t \in Teams,
               NEW i \in Ids \cup {NoId}, NEW person \in Persons \cup {Nobody},
               NEW role \in Roles, Start(p, pc, op, t, i, person, role)
        PROVE  /\ ctx[p] = Idle
               /\ ctx' = [ctx EXCEPT ![p] = ctx'[p]]
               /\ ctx'[p] \in Ctx
               /\ ctx'[p].pc = pc /\ ctx'[p].op = op /\ ctx'[p].team = t /\ ctx'[p].id = i
               /\ ctx'[p].person = person /\ ctx'[p].role = role /\ ctx'[p].other = NoId
    <2>1. ctx[p] = Idle
      BY <1>1 DEF Start, Base, Operands
    <2>2. ctx' = [ctx EXCEPT ![p] = Begun(pc, op, t, i, person, role)]
      BY <1>1 DEF Start
    <2>3. Begun(pc, op, t, i, person, role) \in Ctx
      BY IdleTyped DEF Ctx, Idle, Steps
    <2>4. ctx'[p] = Begun(pc, op, t, i, person, role)
      BY <2>2 DEF Base, TypeOK
    <2>5. ctx' = [ctx EXCEPT ![p] = ctx'[p]]
      BY <2>2, <2>4
    <2> QED
      BY <2>1, <2>3, <2>4, <2>5 DEF Idle
  <1>2. \A i \in Ids : rows[i].role \in Roles /\ rows[i].person \in Persons \cup {Nobody}
    BY DEF Base, TypeOK, Row
  <1> HIDE DEF Begun
  <1>3. ASSUME NEW t \in Teams, NEW person \in Persons, NEW role \in Roles,
               AddMember(p, t, person, role)
        PROVE  Begins(p)
    BY <1>3, <1>1 DEF AddMember, Begins, Ops, Departs
  <1>4. ASSUME NEW t \in Teams, NEW i \in Ids, RemoveMember(p, t, i) PROVE Begins(p)
    BY <1>4, <1>2, <1>1 DEF RemoveMember, Begins, Ops, Departs
  <1>5. ASSUME NEW t \in Teams, NEW i \in Ids, NEW role \in Roles,
               UpdateMemberRole(p, t, i, role)
        PROVE  Begins(p)
    BY <1>5, <1>2, <1>1 DEF UpdateMemberRole, Begins, Ops, Departs
  <1>6. ASSUME NEW i \in Ids, LeaveTeam(p, i) PROVE Begins(p)
    <2>1. rows[i].team \in Teams
      BY <1>6 DEF LeaveTeam, Base, RowsOK
    <2>2. /\ Start(p, "count", "leave", rows[i].team, i, Nobody, rows[i].role)
          /\ UNCHANGED <<rows, leader>> /\ rows[i].active
      BY <1>6 DEF LeaveTeam
    <2>3. /\ ctx[p] = Idle
          /\ ctx' = [ctx EXCEPT ![p] = ctx'[p]]
          /\ ctx'[p] \in Ctx
          /\ ctx'[p].pc = "count" /\ ctx'[p].op = "leave" /\ ctx'[p].team = rows[i].team
          /\ ctx'[p].id = i /\ ctx'[p].role = rows[i].role /\ ctx'[p].other = NoId
      BY <1>2, <1>1, <2>1, <2>2 DEF Ops
    <2> QED
      BY <2>1, <2>2, <2>3 DEF Begins, Departs
  <1> QED
    BY <1>3, <1>4, <1>5, <1>6 DEF Call

\* Every call works with the rows and fields of one team, and keeps its own
\* operands till it ends.
KeepsOperands(p) ==
    LET c == ctx[p]  d == ctx'[p] IN
    /\ ctx' = [ctx EXCEPT ![p] = d]
    /\ d \in Ctx
    /\ c.pc # "idle"
    /\ d = Idle \/ (d.op = c.op /\ d.team = c.team /\ d.id = c.id /\ d.role = c.role)

\* A save leaves the row to its person and team, and other rows alone.
LEMMA RowSaved ==
  ASSUME Base, NEW c \in Ctx, NEW i \in Ids, SaveRow(c, i), rows[i].team \in Teams
  PROVE  /\ rows' \in [Ids -> Row] /\ RowsOK' /\ RowsStay
         /\ \A j \in Ids \ {i} : rows'[j] = rows[j]
         /\ rows'[i].team = rows[i].team /\ rows'[i].person = rows[i].person
         /\ rows'[i].role = Written(c.seen.role, c.row.role, rows[i].role)
         /\ rows'[i].active = Written(c.seen.active, c.row.active, rows[i].active)
  <1>1. /\ rows \in [Ids -> Row] /\ rows[i] \in Row /\ c.row \in Row /\ c.seen \in Row
    BY DEF Base, TypeOK, Ctx
  <1> DEFINE r == [rows[i] EXCEPT !.role = Written(c.seen.role, c.row.role, rows[i].role),
                                  !.active = Written(c.seen.active, c.row.active, rows[i].active)]
  <1>2. rows' = [rows EXCEPT ![i] = r]
    BY <1>1 DEF SaveRow
  <1>3. r \in Row
    BY <1>1 DEF Row, Written
  <1>4. /\ r.team = rows[i].team /\ r.person = rows[i].person
        /\ r.role = Written(c.seen.role, c.row.role, rows[i].role)
        /\ r.active = Written(c.seen.active, c.row.active, rows[i].active)
    BY <1>1 DEF Row
  <1> HIDE DEF r
  <1>5. rows' \in [Ids -> Row] /\ rows'[i] = r /\ \A j \in Ids \ {i} : rows'[j] = rows[j]
    BY <1>1, <1>2, <1>3
  <1> QED
    BY <1>4, <1>5 DEF RowsOK, RowsStay, Base

\* What a step does to its call (c before, d after) and to the rows, action by
\* action; the fields of a call that it does not name stay as they were.
Effect(p, c, d) ==
    \/ Fails(p) /\ ~Step(p) /\ d = Idle /\ UNCHANGED <<rows, leader>>
    \/ /\ c.pc = "findLeader" /\ UNCHANGED <<rows, leader>> /\ d.person = c.person
       /\ \/ Leaders(c.team) = {} /\ d.pc = "teamRead" /\ d.other = c.other
          \/ d.other \in Leaders(c.team) /\ d.pc = "roleRead"
    \/ /\ c.pc = "count" /\ UNCHANGED <<rows, leader>>
       /\ \/ c.op = "remove" /\ Cardinality(Active(c.team)) <= 1 /\ d = Idle
          \/ /\ d.other = c.other
             /\ IF Cardinality(Active(c.team)) <= 1
                THEN c.op # "remove" /\ d.pc = "finish"
                ELSE d.pc = IF c.role = "LEADER" THEN "findDeputy" ELSE "finish"
    \/ /\ c.pc = "findDeputy" /\ UNCHANGED <<rows, leader>>
       /\ \/ /\ d.pc = "finish" /\ d.other = c.other
             /\ \E page \in Pages(c.team) : page \cap Deputies(c.team) = {}
          \/ /\ d.pc = "roleRead" /\ d.other \in Deputies(c.team)
             /\ d.person = rows[d.other].person
    \/ /\ c.pc = "roleRead" /\ UNCHANGED <<rows, leader>>
       /\ d.pc = "roleSelect" /\ d.other = c.other /\ d.person = c.person
       /\ d.row = [rows[c.other] EXCEPT !.role = IF Departs(c) THEN "LEADER" ELSE "MEMBER"]
    \/ /\ c.pc = "roleSelect" /\ UNCHANGED <<rows, leader>>
       /\ d.pc = "roleSave" /\ d.other = c.other /\ d.person = c.person
       /\ d.row = c.row /\ d.seen = rows[c.other]
    \/ /\ c.pc = "roleSave" /\ leader' = leader /\ SaveRow(c, c.other)
       /\ d.pc = "teamRead" /\ d.other = c.other /\ d.person = c.person
    \/ /\ c.pc = "teamRead" /\ UNCHANGED <<rows, leader>>
       /\ d.pc = "teamSelect" /\ d.other = c.other /\ d.person = c.person
       /\ d.lead = leader[c.team]
    \/ /\ c.pc = "teamSelect" /\ UNCHANGED <<rows, leader>>
       /\ d.pc = "teamSave" /\ d.other = c.other /\ d.person = c.person
       /\ d.lead = c.lead /\ d.seenLead = leader[c.team]
    \/ /\ c.pc = "teamSave" /\ TeamSave(p) /\ rows' = rows
       /\ d.pc = "finish" /\ d.other = c.other /\ d.person = c.person
    \/ c.pc = "finish" /\ c.op = "add" /\ CreateRow(p) /\ d = Idle /\ leader' = leader
    \/ c.pc = "finish" /\ Departs(c) /\ SoftDelete(p) /\ d = Idle /\ leader' = leader
    \/ /\ c.pc = "finish" /\ c.op = "role" /\ UNCHANGED <<rows, leader>>
       /\ d.pc = "ownSelect" /\ d.other = c.other /\ d.person = c.person
       /\ d.row = [rows[c.id] EXCEPT !.role = c.role]
    \/ /\ c.pc = "ownSelect" /\ UNCHANGED <<rows, leader>>
       /\ d.pc = "ownSave" /\ d.other = c.other /\ d.person = c.person
       /\ d.row = c.row /\ d.seen = rows[c.id]
    \/ c.pc = "ownSave" /\ d = Idle /\ leader' = leader /\ SaveRow(c, c.id)

LEMMA StepEffect ==
  ASSUME Base, NEW p \in Procs, Step(p) \/ Fails(p)
  PROVE  KeepsOperands(p) /\ Effect(p, ctx[p], ctx'[p])
  <1> SUFFICES ASSUME NEW c, c = ctx[p], NEW d, d = ctx'[p]
               PROVE  KeepsOperands(p) /\ Effect(p, c, d)
    OBVIOUS
  <1> USE DEF Effect
  <1>1. /\ ctx \in [Procs -> Ctx] /\ c \in Ctx /\ rows \in [Ids -> Row]
        /\ leader \in [Teams -> Leader] /\ Operands(c, rows)
    BY DEF Base, TypeOK
  <1>2. ASSUME NEW e \in Ctx, ctx' = [ctx EXCEPT ![p] = e]
        PROVE  ctx' = [ctx EXCEPT ![p] = d] /\ d = e /\ d \in Ctx
    BY <1>1, <1>2
  <1>3. CASE Fails(p) /\ ~Step(p)
    BY <1>1, <1>2, <1>3, IdleTyped DEF Fails, KeepsOperands
  <1>4. ASSUME NEW pc \in Steps, Goto(p, pc), c.pc # "idle"
        PROVE  /\ KeepsOperands(p)
               /\ d.pc = pc /\ d.other = c.other /\ d.person = c.person
    <2>1. ctx' = [ctx EXCEPT ![p] = Further(c, pc)]
      BY <1>4 DEF Goto, Further
    <2> QED
      BY <1>1, <1>2, <1>4, <2>1, FurtherTyped DEF KeepsOperands
  <1>5. ASSUME ctx' = [ctx EXCEPT ![p] = Idle], c.pc # "idle"
        PROVE  KeepsOperands(p) /\ d = Idle
    BY <1>2, <1>5, IdleTyped DEF KeepsOperands
  <1>6. ASSUME NEW pc \in Steps, NEW i \in Ids, NEW person \in Persons \cup {Nobody},
               ctx' = [ctx EXCEPT ![p].pc = pc, ![p].other = i, ![p].person = person],
               c.pc # "idle"
        PROVE  KeepsOperands(p) /\ d.pc = pc /\ d.other = i /\ d.person = person
    <2> DEFINE e == [c EXCEPT !.pc = pc, !.other = i, !.person = person]
    <2>1. e \in Ctx /\ e.op = c.op /\ e.team = c.team /\ e.id = c.id /\ e.role = c.role
          /\ e.pc = pc /\ e.other = i /\ e.person = person
      BY <1>1 DEF Ctx
    <2>2. ctx' = [ctx EXCEPT ![p] = e]
      BY <1>1, <1>6
    <2> HIDE DEF e
    <2> QED
      BY <1>2, <1>6, <2>1, <2>2 DEF KeepsOperands
  <1>7a. ASSUME NEW pc \in Steps, NEW x \in Row,
               ctx' = [ctx EXCEPT ![p].pc = pc, ![p].row = x], c.pc # "idle"
        PROVE  /\ KeepsOperands(p)
               /\ d.pc = pc /\ d.other = c.other /\ d.person = c.person
               /\ d.row = x /\ d.seen = c.seen /\ d.lead = c.lead /\ d.seenLead = c.seenLead
    <2> DEFINE e == [c EXCEPT !.pc = pc, !.row = x]
    <2>1. /\ e \in Ctx /\ e.op = c.op /\ e.team = c.team /\ e.id = c.id /\ e.role = c.role
          /\ e.pc = pc /\ e.other = c.other /\ e.person = c.person
          /\ e.row = x /\ e.seen = c.seen /\ e.lead = c.lead /\ e.seenLead = c.seenLead
      BY <1>1, <1>7a DEF Ctx
    <2>2. ctx' = [ctx EXCEPT ![p] = e]
      BY <1>1, <1>7a
    <2> HIDE DEF e
    <2> QED
      BY <1>2, <1>7a, <2>1, <2>2 DEF KeepsOperands
  <1>7b. ASSUME NEW pc \in Steps, NEW x \in Row,
               ctx' = [ctx EXCEPT ![p].pc = pc, ![p].seen = x], c.pc # "idle"
        PROVE  /\ KeepsOperands(p)
               /\ d.pc = pc /\ d.other = c.other /\ d.person = c.person
               /\ d.seen = x /\ d.row = c.row /\ d.lead = c.lead /\ d.seenLead = c.seenLead
    <2> DEFINE e == [c EXCEPT !.pc = pc, !.seen = x]
    <2>1. /\ e \in Ctx /\ e.op = c.op /\ e.team = c.team /\ e.id = c.id /\ e.role = c.role
          /\ e.pc = pc /\ e.other = c.other /\ e.person = c.person
          /\ e.seen = x /\ e.row = c.row /\ e.lead = c.lead /\ e.seenLead = c.seenLead
      BY <1>1, <1>7b DEF Ctx
    <2>2. ctx' = [ctx EXCEPT ![p] = e]
      BY <1>1, <1>7b
    <2> HIDE DEF e
    <2> QED
      BY <1>2, <1>7b, <2>1, <2>2 DEF KeepsOperands
  <1>7c. ASSUME NEW pc \in Steps, NEW x \in Leader,
               ctx' = [ctx EXCEPT ![p].pc = pc, ![p].lead = x], c.pc # "idle"
        PROVE  /\ KeepsOperands(p)
               /\ d.pc = pc /\ d.other = c.other /\ d.person = c.person
               /\ d.lead = x /\ d.row = c.row /\ d.seen = c.seen /\ d.seenLead = c.seenLead
    <2> DEFINE e == [c EXCEPT !.pc = pc, !.lead = x]
    <2>1. /\ e \in Ctx /\ e.op = c.op /\ e.team = c.team /\ e.id = c.id /\ e.role = c.role
          /\ e.pc = pc /\ e.other = c.other /\ e.person = c.person
          /\ e.lead = x /\ e.row = c.row /\ e.seen = c.seen /\ e.seenLead = c.seenLead
      BY <1>1, <1>7c DEF Ctx
    <2>2. ctx' = [ctx EXCEPT ![p] = e]
      BY <1>1, <1>7c
    <2> HIDE DEF e
    <2> QED
      BY <1>2, <1>7c, <2>1, <2>2 DEF KeepsOperands
  <1>7d. ASSUME NEW pc \in Steps, NEW x \in Leader,
               ctx' = [ctx EXCEPT ![p].pc = pc, ![p].seenLead = x], c.pc # "idle"
        PROVE  /\ KeepsOperands(p)
               /\ d.pc = pc /\ d.other = c.other /\ d.person = c.person
               /\ d.seenLead = x /\ d.row = c.row /\ d.seen = c.seen /\ d.lead = c.lead
    <2> DEFINE e == [c EXCEPT !.pc = pc, !.seenLead = x]
    <2>1. /\ e \in Ctx /\ e.op = c.op /\ e.team = c.team /\ e.id = c.id /\ e.role = c.role
          /\ e.pc = pc /\ e.other = c.other /\ e.person = c.person
          /\ e.seenLead = x /\ e.row = c.row /\ e.seen = c.seen /\ e.lead = c.lead
      BY <1>1, <1>7d DEF Ctx
    <2>2. ctx' = [ctx EXCEPT ![p] = e]
      BY <1>1, <1>7d
    <2> HIDE DEF e
    <2> QED
      BY <1>2, <1>7d, <2>1, <2>2 DEF KeepsOperands
  <1>8. /\ c.row \in Row /\ c.seen \in Row /\ c.lead \in Leader /\ c.seenLead \in Leader
        /\ c.person \in Persons \cup {Nobody} /\ c.role \in Roles
        /\ c.other # NoId => c.other \in Ids
        /\ c.pc # "idle" => c.team \in Teams
        /\ c.pc \in OfRole => c.other # NoId
        /\ c.pc \in {"ownSelect", "ownSave"} => c.op = "role"
        /\ c.pc # "idle" /\ c.op # "add" => c.id \in Ids
    BY <1>1 DEF Ctx, Operands
  <1> USE DEF Steps
  <1>9. CASE FindLeader(p)
    <2>1. CASE Leaders(c.team) = {} /\ Goto(p, "teamRead")
      BY <1>9, <1>4, <2>1 DEF FindLeader
    <2>2. ASSUME NEW i \in Leaders(c.team),
                 ctx' = [ctx EXCEPT ![p].pc = "roleRead", ![p].other = i]
          PROVE  KeepsOperands(p) /\ d.pc = "roleRead" /\ d.other = i /\ d.person = c.person
      <3>1. i \in Ids
        BY DEF Leaders, WithRole, Active
      <3> DEFINE e == [c EXCEPT !.pc = "roleRead", !.other = i]
      <3>2. e \in Ctx /\ e.op = c.op /\ e.team = c.team /\ e.id = c.id /\ e.role = c.role
            /\ e.pc = "roleRead" /\ e.other = i /\ e.person = c.person
        BY <1>1, <3>1 DEF Ctx
      <3>3. ctx' = [ctx EXCEPT ![p] = e]
        BY <1>1, <2>2
      <3> HIDE DEF e
      <3> QED
        BY <1>2, <1>9, <3>2, <3>3 DEF KeepsOperands, FindLeader
    <2> QED
      BY <1>9, <2>1, <2>2 DEF FindLeader
  <1>10. CASE CountMembers(p)
    <2>1. c.pc # "idle"
      BY <1>10 DEF CountMembers, Count
    <2>2. CASE c.op = "remove" /\ Cardinality(Active(c.team)) <= 1 /\ ctx' = [ctx EXCEPT ![p] = Idle]
      BY <1>5, <1>10, <2>1, <2>2 DEF CountMembers, Count
    <2> DEFINE few == Cardinality(Active(c.team)) <= 1
               pc == IF c.role = "LEADER" /\ ~few THEN "findDeputy" ELSE "finish"
    <2>3. CASE (c.op = "remove" => ~few) /\ Goto(p, pc)
      <3>1. pc \in Steps
        OBVIOUS
      <3> HIDE DEF pc
      <3>2. KeepsOperands(p) /\ d.pc = pc /\ d.other = c.other
        BY <1>4, <2>1, <2>3, <3>1
      <3> QED
        BY <1>10, <2>3, <3>2 DEF CountMembers, Count, pc
    <2> QED
      BY <1>10, <2>2, <2>3 DEF CountMembers, Count
  <1>11. CASE FindDeputy(p)
    <2>1. PICK page \in Pages(c.team) :
             \/ page \cap Deputies(c.team) = {} /\ Goto(p, "finish")
             \/ \E i \in page \cap Deputies(c.team) :
                   ctx' = [ctx EXCEPT ![p].pc = "roleRead", ![p].other = i,
                                      ![p].person = rows[i].person]
      BY <1>11 DEF FindDeputy
    <2>2. ASSUME NEW i \in page \cap Deputies(c.team),
                 ctx' = [ctx EXCEPT ![p].pc = "roleRead", ![p].other = i,
                                    ![p].person = rows[i].person]
          PROVE  KeepsOperands(p) /\ d.pc = "roleRead" /\ d.other = i
                 /\ d.person = rows[i].person
      <3>1. i \in Ids
        BY DEF Deputies, WithRole, Active
      <3>2. rows[i].person \in Persons \cup {Nobody}
        BY <1>1, <3>1 DEF Row
      <3>3. c.pc = "findDeputy" /\ "roleRead" \in Steps
        BY <1>11 DEF FindDeputy
      <3> DEFINE who == rows[i].person
      <3>4. ctx' = [ctx EXCEPT ![p].pc = "roleRead", ![p].other = i, ![p].person = who]
        BY <2>2
      <3> HIDE DEF who
      <3>5. who \in Persons \cup {Nobody}
        BY <3>2 DEF who
      <3>6. KeepsOperands(p) /\ d.pc = "roleRead" /\ d.other = i /\ d.person = who
        BY <1>6, <3>1, <3>3, <3>4, <3>5, Zenon
      <3> QED
        BY <3>6 DEF who
    <2>3. CASE page \cap Deputies(c.team) = {} /\ Goto(p, "finish")
      BY <1>4, <1>11, <2>3 DEF FindDeputy
    <2> QED
      BY <1>11, <2>1, <2>2, <2>3 DEF FindDeputy
  <1>12. CASE RoleRead(p)
    <2> DEFINE row == [rows[c.other] EXCEPT !.role = IF Departs(c) THEN "LEADER" ELSE "MEMBER"]
    <2>1. c.pc = "roleRead" /\ rows[c.other] \in Row
      BY <1>1, <1>8, <1>12 DEF RoleRead, ReadRow, OfRole
    <2>2. row \in Row
      BY <2>1 DEF Row, Roles
    <2>3. c.op \in Ops
      BY <1>1 DEF Ctx
    <2>4. ctx' = [ctx EXCEPT ![p].pc = "roleSelect", ![p].row = row]
      BY <1>12, <2>3 DEF RoleRead, ReadRow, Departs, Ops
    <2>6. KeepsOperands(p) /\ d.pc = "roleSelect" /\ d.other = c.other
          /\ d.person = c.person /\ d.row = row
      BY <1>7a, <2>1, <2>2, <2>4
    <2> QED
      BY <1>12, <2>6 DEF RoleRead, ReadRow
  <1>13. CASE RoleSelect(p)
    <2>1. c.pc = "roleSelect" /\ rows[c.other] \in Row
      BY <1>1, <1>8, <1>13 DEF RoleSelect, SelectRow, OfRole
    <2>2. ctx' = [ctx EXCEPT ![p].pc = "roleSave", ![p].seen = rows[c.other]]
      BY <1>13 DEF RoleSelect, SelectRow
    <2> QED
      BY <1>7b, <1>13, <2>1, <2>2 DEF RoleSelect, SelectRow
  <1>14. CASE RoleSave(p)
    BY <1>4, <1>14 DEF RoleSave
  <1>15. CASE TeamRead(p)
    <2>1. c.pc = "teamRead" /\ leader[c.team] \in Leader
      BY <1>1, <1>8, <1>15 DEF TeamRead
    <2>2. ctx' = [ctx EXCEPT ![p].pc = "teamSelect", ![p].lead = leader[c.team]]
      BY <1>15 DEF TeamRead
    <2> QED
      BY <1>7c, <1>15, <2>1, <2>2 DEF TeamRead
  <1>16. CASE TeamSelect(p)
    <2>1. c.pc = "teamSelect" /\ leader[c.team] \in Leader
      BY <1>1, <1>8, <1>16 DEF TeamSelect
    <2>2. ctx' = [ctx EXCEPT ![p].pc = "teamSave", ![p].seenLead = leader[c.team]]
      BY <1>16 DEF TeamSelect
    <2> QED
      BY <1>7d, <1>16, <2>1, <2>2 DEF TeamSelect
  <1>17. CASE TeamSave(p)
    BY <1>4, <1>17 DEF TeamSave
  <1>18. CASE CreateRow(p)
    BY <1>5, <1>18 DEF CreateRow, Departs
  <1>19. CASE SoftDelete(p)
    BY <1>5, <1>19 DEF SoftDelete, Departs
  <1>20. CASE OwnRoleRead(p)
    <2> DEFINE row == [rows[c.id] EXCEPT !.role = c.role]
    <2>1. c.pc = "finish" /\ c.op = "role" /\ rows[c.id] \in Row
      BY <1>1, <1>8, <1>20 DEF OwnRoleRead, ReadRow
    <2>2. row \in Row
      BY <1>8, <2>1 DEF Row
    <2>3. ctx' = [ctx EXCEPT ![p].pc = "ownSelect", ![p].row = row]
      BY <1>20 DEF OwnRoleRead, ReadRow
    <2>4. KeepsOperands(p) /\ d.pc = "ownSelect" /\ d.other = c.other
          /\ d.person = c.person /\ d.row = row
      BY <1>7a, <2>1, <2>2, <2>3
    <2> QED
      BY <1>20, <2>4 DEF OwnRoleRead, ReadRow
  <1>21. CASE OwnRoleSelect(p)
    <2>1. c.pc = "ownSelect" /\ rows[c.id] \in Row
      BY <1>1, <1>8, <1>21 DEF OwnRoleSelect, SelectRow
    <2>2. ctx' = [ctx EXCEPT ![p].pc = "ownSave", ![p].seen = rows[c.id]]
      BY <1>21 DEF OwnRoleSelect, SelectRow
    <2> QED
      BY <1>7b, <1>21, <2>1, <2>2 DEF OwnRoleSelect, SelectRow
  <1>22. CASE OwnRoleSave(p)
    BY <1>5, <1>22 DEF OwnRoleSave
  <1> QED
    BY <1>3, <1>9, <1>10, <1>11, <1>12, <1>13, <1>14, <1>15, <1>16, <1>17, <1>18, <1>19, <1>20,
       <1>21, <1>22 DEF Step

\* create takes an unused row.
LEMMA RowCreated ==
  ASSUME Base, NEW p \in Procs, CreateRow(p)
  PROVE  /\ rows' \in [Ids -> Row] /\ RowsOK' /\ RowsStay
         /\ \E i \in Ids :
               /\ rows[i] = Unused
               /\ \A j \in Ids \ {i} : rows'[j] = rows[j]
               /\ rows'[i].team = ctx[p].team /\ rows'[i].person = ctx[p].person
               /\ rows'[i].role = ctx[p].role /\ rows'[i].active
  <1> DEFINE c == ctx[p]
             r == [team |-> c.team, person |-> c.person, role |-> c.role, active |-> TRUE]
  <1>1. PICK i \in Ids : rows[i] = Unused /\ rows' = [rows EXCEPT ![i] = r]
    BY DEF CreateRow
  <1>2. c \in Ctx /\ c.team \in Teams
    BY DEF Base, TypeOK, Operands, CreateRow
  <1>3. r \in Row /\ r.team = c.team /\ r.person = c.person /\ r.role = c.role /\ r.active
    BY <1>2 DEF Row, Ctx
  <1>4. rows \in [Ids -> Row]
    BY DEF Base, TypeOK
  <1> HIDE DEF r
  <1>5. rows' \in [Ids -> Row] /\ rows'[i] = r /\ \A j \in Ids \ {i} : rows'[j] = rows[j]
    BY <1>1, <1>3, <1>4
  <1>6. rows[i].team \notin Teams
    BY <1>1, MembershipAssumption DEF Unused
  <1>7. RowsOK' /\ RowsStay
    BY <1>2, <1>3, <1>5, <1>6 DEF RowsOK, RowsStay, Base
  <1> QED
    BY <1>1, <1>3, <1>5, <1>7

\* softDelete makes one row a former member's.
LEMMA RowDeleted ==
  ASSUME Base, NEW p \in Procs, SoftDelete(p)
  PROVE  /\ ctx[p].id \in Ids
         /\ rows' \in [Ids -> Row] /\ RowsOK' /\ RowsStay
         /\ \A j \in Ids \ {ctx[p].id} : rows'[j] = rows[j]
         /\ ~rows'[ctx[p].id].active
         /\ \A j \in Ids : rows'[j].role = rows[j].role
  <1> DEFINE i == ctx[p].id
             r == [rows[i] EXCEPT !.active = FALSE]
  <1>1. rows' = [rows EXCEPT ![i] = r]
    BY DEF SoftDelete
  <1>2. i \in Ids /\ rows[i].team \in Teams
    BY DEF SoftDelete, Base, Operands
  <1>3. rows \in [Ids -> Row] /\ rows[i] \in Row
    BY <1>2 DEF Base, TypeOK
  <1>4. /\ r \in Row /\ ~r.active /\ r.team = rows[i].team /\ r.person = rows[i].person
        /\ r.role = rows[i].role
    BY <1>3 DEF Row
  <1> HIDE DEF i, r
  <1>5. rows' \in [Ids -> Row] /\ rows'[i] = r /\ \A j \in Ids \ {i} : rows'[j] = rows[j]
    BY <1>1, <1>2, <1>3, <1>4
  <1>6. RowsOK' /\ RowsStay
    BY <1>2, <1>4, <1>5 DEF RowsOK, RowsStay, Base
  <1> QED
    BY <1>2, <1>4, <1>5, <1>6 DEF i

\* teamRepo.update writes the fields of one team.
LEMMA LeaderSaved ==
  ASSUME Base, NEW p \in Procs, TeamSave(p), NEW c, c = ctx[p],
         NEW saved, saved = Names(c.lead, c.seenLead, c.person)
  PROVE  /\ leader' \in [Teams -> Leader]
         /\ c.team \in Teams
         /\ \A t \in Teams \ {c.team} : leader'[t] = leader[t]
         /\ leader'[c.team].user =
               Written(c.seenLead.user, saved.user, leader[c.team].user)
         /\ leader'[c.team].citizen =
               Written(c.seenLead.citizen, saved.citizen, leader[c.team].citizen)
         /\ c.person \in Users => saved.user = c.person
         /\ c.person \notin Users => saved.citizen = c.person
  <1>1. c \in Ctx /\ c.team \in Teams /\ leader \in [Teams -> Leader]
    BY DEF Base, TypeOK, Operands, TeamSave
  <1>2. /\ c.lead \in Leader /\ c.seenLead \in Leader
        /\ c.person \in Persons \cup {Nobody} /\ leader[c.team] \in Leader
    BY <1>1 DEF Ctx
  <1>3. /\ saved \in Leader
        /\ c.person \in Users => saved.user = c.person
        /\ c.person \notin Users => saved.citizen = c.person
    BY <1>2 DEF Leader, Names, Persons
  <1> DEFINE user == Written(c.seenLead.user, saved.user, leader[c.team].user)
             citizen == Written(c.seenLead.citizen, saved.citizen, leader[c.team].citizen)
             l == [leader[c.team] EXCEPT !.user = user, !.citizen = citizen]
  <1>4. user \in Users \cup {Nobody} /\ citizen \in Citizens \cup {Nobody}
    BY <1>2, <1>3 DEF Written, Leader
  <1>5. leader' = [leader EXCEPT ![c.team] = l]
    BY <1>1, <1>2 DEF TeamSave
  <1> HIDE DEF user, citizen
  <1>6. l \in Leader /\ l.user = user /\ l.citizen = citizen
    BY <1>2, <1>4 DEF Leader
  <1> HIDE DEF l
  <1>7. /\ leader' \in [Teams -> Leader] /\ leader'[c.team] = l
        /\ \A t \in Teams \ {c.team} : leader'[t] = leader[t]
    BY <1>1, <1>5, <1>6
  <1> QED
    BY <1>1, <1>3, <1>6, <1>7 DEF user, citizen

\* No step changes whose row a row is; all keep the types.
LEMMA StepFrame ==
  ASSUME Base, NEW p \in Procs, Step(p) \/ Fails(p)
  PROVE  /\ rows' \in [Ids -> Row] /\ RowsOK' /\ RowsStay
         /\ leader' \in [Teams -> Leader]
         /\ Operands(ctx'[p], rows')
  <1> DEFINE c == ctx[p]
             d == ctx'[p]
  <1>1. /\ c \in Ctx /\ Operands(c, rows)
        /\ rows \in [Ids -> Row] /\ RowsOK /\ leader \in [Teams -> Leader]
    BY DEF Base, TypeOK
  <1>2. UNCHANGED rows => rows' \in [Ids -> Row] /\ RowsOK' /\ RowsStay
    BY <1>1 DEF RowsOK, RowsStay
  <1>3. KeepsOperands(p)
    BY StepEffect
  <1>4. c.pc # "idle" /\ c.team \in Teams
    BY <1>1, <1>3 DEF KeepsOperands, Operands
  <1>5. c.other # NoId => c.other \in Ids
    BY <1>1 DEF Ctx
  <1>6. Operands(Idle, rows')
    BY IdleTyped DEF Operands, OfRole
  <1>7. ASSUME RowsStay, d # Idle,
               d.other = c.other \/ (d.other \in Ids /\ rows[d.other].team = c.team),
               d.pc # "idle", d.pc \in OfRole => d.other # NoId,
               d.pc \in {"ownSelect", "ownSave"} => c.op = "role",
               d.pc = "findDeputy" => Departs(c), d.pc \notin {"findLeader", "count"}
        PROVE  Operands(d, rows')
    <2>1. d.op = c.op /\ d.team = c.team /\ d.id = c.id
      BY <1>3, <1>7 DEF KeepsOperands
    <2>2. d.other # NoId => rows'[d.other].team = c.team
      BY <1>1, <1>4, <1>5, <1>7 DEF RowsStay, Operands
    <2>3. d.op # "add" => d.id \in Ids /\ rows'[d.id].team = c.team
      BY <1>1, <1>4, <1>7, <2>1 DEF RowsStay, Operands
    <2> QED
      BY <1>4, <1>7, <2>1, <2>2, <2>3 DEF Operands, Departs
  <1>8. \A t \in Teams : \A i \in Leaders(t) \cup Deputies(t) : i \in Ids /\ rows[i].team = t
    BY DEF Leaders, Deputies, WithRole, Active
  <1>9. c.pc \in OfRole => c.other # NoId
    BY <1>1 DEF Operands
  <1>10. d = Idle => Operands(d, rows')
    BY <1>6
  <1> USE DEF OfRole
  <1>11. CASE Fails(p)
    <2>1. d = Idle /\ UNCHANGED <<rows, leader>>
      BY <1>1, <1>11 DEF Fails, Base, TypeOK
    <2> QED
      BY <1>1, <1>2, <1>10, <2>1
  <1>12. CASE /\ UNCHANGED <<rows, leader>>
             /\ d = Idle
    BY <1>1, <1>2, <1>10, <1>12
  <1>13. CASE /\ UNCHANGED <<rows, leader>>
              /\ d.other = c.other
              /\ \/ d.pc = "finish"
                 \/ d.pc \in OfTeam
                 \/ d.pc \in {"roleSelect", "roleSave"} /\ c.pc \in OfRole
                 \/ d.pc \in {"ownSelect", "ownSave"} /\ c.op = "role"
                 \/ d.pc = "findDeputy" /\ Departs(c)
    <2>1. d.pc # "idle" /\ d # Idle
      BY <1>13, IdleTyped DEF OfTeam
    <2>2. Operands(d, rows')
      BY <1>2, <1>7, <1>9, <1>13, <2>1 DEF OfTeam
    <2> QED
      BY <1>1, <1>2, <1>13, <2>2
  <1>14. CASE /\ UNCHANGED <<rows, leader>> /\ d.pc = "roleRead"
              /\ d.other \in Leaders(c.team) \cup Deputies(c.team)
    <2>1. d.other \in Ids /\ rows[d.other].team = c.team /\ d.other # NoId
      BY <1>4, <1>8, <1>14, MembershipAssumption
    <2>2. d # Idle
      BY <1>14, IdleTyped
    <2>3. Operands(d, rows')
      BY <1>2, <1>7, <1>14, <2>1, <2>2
    <2> QED
      BY <1>1, <1>2, <1>14, <2>3
  <1>15. CASE /\ leader' = leader /\ SaveRow(c, c.other) /\ c.pc = "roleSave"
              /\ d.pc = "teamRead" /\ d.other = c.other
    <2>1. c.other \in Ids /\ rows[c.other].team \in Teams
      BY <1>1, <1>4, <1>5, <1>9, <1>15 DEF Operands
    <2>2. rows' \in [Ids -> Row] /\ RowsOK' /\ RowsStay
      BY <1>1, <1>15, <2>1, RowSaved
    <2>3. d # Idle
      BY <1>15, IdleTyped
    <2>4. Operands(d, rows')
      BY <1>7, <1>15, <2>2, <2>3
    <2> QED
      BY <1>1, <1>15, <2>2, <2>4
  <1>16. CASE TeamSave(p) /\ rows' = rows /\ d.pc = "finish" /\ d.other = c.other
    <2>1. leader' \in [Teams -> Leader]
      BY <1>16, LeaderSaved
    <2>2. d # Idle
      BY <1>16, IdleTyped
    <2>3. Operands(d, rows')
      BY <1>2, <1>7, <1>16, <2>2
    <2> QED
      BY <1>2, <1>16, <2>1, <2>3
  <1>17. CASE CreateRow(p) /\ d = Idle /\ leader' = leader
    BY <1>1, <1>10, <1>17, RowCreated
  <1>18. CASE SoftDelete(p) /\ d = Idle /\ leader' = leader
    BY <1>1, <1>10, <1>18, RowDeleted
  <1>19. CASE c.pc = "ownSave" /\ d = Idle /\ leader' = leader /\ SaveRow(c, c.id)
    <2>1. c.id \in Ids /\ rows[c.id].team \in Teams
      BY <1>1, <1>4, <1>19 DEF Operands
    <2> QED
      BY <1>1, <1>10, <1>19, <2>1, RowSaved
  <1>20. c.pc \in {"count", "findDeputy"} => Departs(c)
    BY <1>1 DEF Operands
  <1>21. c.pc \in {"ownSelect", "ownSave"} => c.op = "role"
    BY <1>1 DEF Operands
  <1> HIDE DEF c, d, OfRole
  <1>22. Effect(p, c, d)
    BY StepEffect DEF c, d
  <1> QED
    BY <1>12, <1>13, <1>14, <1>15, <1>16, <1>17, <1>18, <1>19, <1>20, <1>21, <1>22
       DEF OfRole, OfTeam, Effect, c, d

\* Every step keeps the types.
LEMMA BaseStep ==
  ASSUME Base, NEW p \in Procs, Acts(p), NEW S \in SUBSET Teams, Remember(p, S)
  PROVE  /\ Base' /\ RowsStay
         /\ ctx' = [ctx EXCEPT ![p] = ctx'[p]]
         /\ \A q \in Procs \ {p} : ctx'[q] = ctx[q]
  <1>1. CASE Call(p)
    <2>1. Begins(p)
      BY <1>1, CallBegins
    <2>2. Operands(ctx'[p], rows')
      BY <2>1 DEF Begins, Operands, OfRole, Departs
    <2>3. /\ rows' \in [Ids -> Row] /\ RowsOK' /\ RowsStay /\ leader' \in [Teams -> Leader]
      BY <2>1 DEF Begins, Base, TypeOK, RowsOK, RowsStay
    <2>4. ctx' = [ctx EXCEPT ![p] = ctx'[p]] /\ ctx'[p] \in Ctx
      BY <2>1 DEF Begins
    <2>5. Base'
      BY <2>2, <2>3, <2>4, BaseKept
    <2> QED
      BY <2>3, <2>4, <2>5 DEF Base, TypeOK
  <1>2. CASE Step(p) \/ Fails(p)
    <2>1. ctx' = [ctx EXCEPT ![p] = ctx'[p]] /\ ctx'[p] \in Ctx
      BY <1>2, StepEffect DEF KeepsOperands
    <2>2. Base' /\ RowsStay
      BY <1>2, <2>1, StepFrame, BaseKept
    <2> QED
      BY <2>1, <2>2 DEF Base, TypeOK
  <1> QED
    BY <1>1, <1>2 DEF Acts

\* A step of Next is one call's, and is remembered.
LEMMA NextActs ==
  ASSUME Next
  PROVE  \E p \in Procs, S \in SUBSET Teams : Acts(p) /\ Remember(p, S)
  BY DEF Next, Acts, Overlaps, LetsBackIn, HalfDone

LEMMA BaseNext == Base /\ [Next]_vars => Base'
  <1>1. ASSUME Base, Next PROVE Base'
    BY <1>1, NextActs, BaseStep
  <1>2. ASSUME Base, UNCHANGED vars PROVE Base'
    BY <1>2 DEF Base, TypeOK, RowsOK, vars
  <1> QED
    BY <1>1, <1>2

\* T7.  Rows, leader fields, contexts and histories keep their types, wherever
\* calls fail and whatever rows they name.
THEOREM MembershipTypeCorrect == Spec => []TypeOK
  <1>1. Base => TypeOK
    BY DEF Base
  <1> QED
    BY BaseInit, BaseNext, <1>1, PTL DEF Spec

-----------------------------------------------------------------------------
(* Counting members.                                                       *)

\* A team of one member has no other.
LEMMA FewMembers ==
  ASSUME NEW t, NEW i \in Active(t), Cardinality(Active(t)) <= 1
  PROVE  \A j \in Active(t) : j = i
  <1>1. Active(t) \subseteq Ids /\ IsFiniteSet(Active(t))
    BY FS_Subset, MembershipAssumption DEF Active
  <1>2. ASSUME NEW j \in Active(t), j # i PROVE FALSE
    <2>1. Cardinality({i} \cup {j}) = 2
      <3>1. IsFiniteSet({i}) /\ Cardinality({i}) = 1
        BY FS_Singleton
      <3>2. j \notin {i}
        BY <1>2
      <3>3. Cardinality({i} \cup {j}) = Cardinality({i}) + 1
        BY <3>1, <3>2, FS_AddElement
      <3> QED
        BY <3>1, <3>3
    <2>2. {i} \cup {j} \in SUBSET Active(t)
      BY <1>2
    <2>3. Cardinality({i} \cup {j}) <= Cardinality(Active(t))
      BY <1>1, <2>2, FS_Subset
    <2>4. Cardinality(Active(t)) \in Nat
      BY <1>1, FS_CardinalityType
    <2> QED
      BY <2>1, <2>3, <2>4
  <1> QED
    BY <1>2

\* A team of more has two.
LEMMA SeveralMembers ==
  ASSUME NEW t, ~(Cardinality(Active(t)) <= 1)
  PROVE  \E i, j \in Active(t) : i # j
  <1>1. SUFFICES ASSUME \A i, j \in Active(t) : i = j PROVE FALSE
    OBVIOUS
  <1>2. CASE Active(t) = {}
    BY <1>2, FS_EmptySet
  <1>3. ASSUME NEW i \in Active(t) PROVE FALSE
    <2>1. Active(t) = {i}
      BY <1>1
    <2>2. Cardinality({i}) = 1
      BY FS_Singleton
    <2> QED
      BY <2>1, <2>2
  <1> QED
    BY <1>2, <1>3

\* A set without two different members has at most one.
LEMMA AtMostOneCounted ==
  ASSUME NEW S, AtMostOne(S) PROVE Cardinality(S) <= 1
  <1>1. CASE S = {}
    BY <1>1, FS_EmptySet
  <1>2. ASSUME NEW i \in S PROVE Cardinality(S) <= 1
    <2>1. S = {i}
      BY DEF AtMostOne
    <2> QED
      BY <2>1, FS_Singleton
  <1> QED
    BY <1>1, <1>2

\* A page that can hold every member does.
LEMMA WholePage ==
  ASSUME NEW t, NEW page \in Pages(t), ~(Cardinality(Active(t)) > PageSize)
  PROVE  page = Active(t)
  <1>1. Active(t) \subseteq Ids /\ IsFiniteSet(Active(t)) /\ page \subseteq Active(t)
    BY FS_Subset, MembershipAssumption DEF Active, Pages
  <1>2. SUFFICES ASSUME page # Active(t) PROVE FALSE
    OBVIOUS
  <1>3. Cardinality(page) = PageSize
    BY <1>2 DEF Pages
  <1>4. /\ Cardinality(page) <= Cardinality(Active(t))
        /\ Cardinality(page) # Cardinality(Active(t))
    BY <1>1, <1>2, FS_Subset
  <1>5. Cardinality(Active(t)) \in Nat
    BY <1>1, FS_CardinalityType
  <1> QED
    BY <1>3, <1>4, <1>5, MembershipAssumption

-----------------------------------------------------------------------------
(* A removal leaves someone.                                               *)

\* Since a removal counted, its team has two members; whom it promotes is one.
Counted(q) ==
    LET c == ctx[q] IN
    c.op = "remove" /\ c.pc \notin {"idle", "count"} =>
       /\ \E i, j \in Active(c.team) : i # j
       /\ c.pc \in OfRole => c.other \in Active(c.team)
       /\ c.pc \in {"roleSelect", "roleSave"} => c.row.active

RemovalInv == \A q \in Procs \ outrun : Counted(q)

\* A call that is not outrun keeps what it counted while others act.
LEMMA CountStands ==
  ASSUME NEW p \in Procs, NEW q \in Procs \ {p}, NEW S, Remember(p, S),
         ctx'[q] = ctx[q], ctx[q].pc # "idle" => ctx[q].team \in Teams,
         q \notin outrun => Counted(q), q \notin outrun'
  PROVE  Counted(q)'
  <1>1. SUFFICES ASSUME ctx[q].op = "remove", ctx[q].pc \notin {"idle", "count"},
                        NEW t \in Teams, t = ctx[q].team
                 PROVE  Counted(q)'
    BY DEF Counted
  <1>2. q \notin outrun /\ ~Outruns(q)
    BY <1>1 DEF Remember
  <1>3. Active(t) \subseteq Active(t)'
    BY <1>1, <1>2 DEF Outruns
  <1>4. /\ \E i, j \in Active(t) : i # j
        /\ ctx[q].pc \in OfRole => ctx[q].other \in Active(t)
        /\ ctx[q].pc \in {"roleSelect", "roleSave"} => ctx[q].row.active
    BY <1>1, <1>2 DEF Counted
  <1>5. /\ \E i, j \in Active(t)' : i # j
        /\ ctx'[q].pc \in OfRole => ctx'[q].other \in Active(t)'
        /\ ctx'[q].pc \in {"roleSelect", "roleSave"} => ctx'[q].row.active
    BY <1>3, <1>4
  <1>6. ctx'[q].team = t
    BY <1>1
  <1> QED
    BY <1>5, <1>6 DEF Counted

\* A removal's own steps before the last one take nobody away.
LEMMA RemovalKeeps ==
  ASSUME Base, NEW p \in Procs, Step(p) \/ Fails(p), Counted(p)
  PROVE  Counted(p)'
  <1>1. SUFFICES ASSUME NEW c \in Ctx, c = ctx[p], NEW d, d = ctx'[p], NEW t \in Teams, t = c.team,
                        d.op = "remove", d.pc \notin {"idle", "count"},
                        c.op = "remove", c.pc # "idle", d.team = t, d # Idle
                 PROVE  Counted(p)'
    <2>1. KeepsOperands(p) /\ ctx[p] \in Ctx /\ Operands(ctx[p], rows)
      BY StepEffect DEF Base, TypeOK
    <2> QED
      BY <2>1, IdleTyped DEF Counted, KeepsOperands, Operands
  <1>2. Effect(p, c, d)
    BY <1>1, StepEffect
  <1>3. Operands(c, rows) /\ rows \in [Ids -> Row]
    BY <1>1 DEF Base, TypeOK
  <1>4. /\ c.pc # "count" => \E i, j \in Active(t) : i # j
        /\ c.pc \in OfRole => c.other \in Active(t)
        /\ c.pc \in {"roleSelect", "roleSave"} => c.row.active
    <2>1. /\ c.pc # "count" => \E i, j \in Active(c.team) : i # j
          /\ c.pc \in OfRole => c.other \in Active(c.team)
          /\ c.pc \in {"roleSelect", "roleSave"} => c.row.active
      BY <1>1 DEF Counted, OfRole
    <2> QED
      BY <1>1, <2>1
  <1>5. c.pc # "findLeader" /\ c.pc \notin {"ownSelect", "ownSave"}
    BY <1>1, <1>3 DEF Operands, Departs
  <1>6. ASSUME Active(t) \subseteq Active(t)', \E i, j \in Active(t) : i # j,
               d.pc \in OfRole => d.other \in Active(t)',
               d.pc \in {"roleSelect", "roleSave"} => d.row.active
        PROVE  Counted(p)'
    <2>1. \E i, j \in Active(t)' : i # j
      BY <1>6
    <2> QED
      BY <1>1, <1>6, <2>1 DEF Counted
  <1>7. rows' = rows => Active(t)' = Active(t)
    BY DEF Active
  <1>8. Deputies(t) \subseteq Active(t)
    BY DEF Deputies, WithRole
  <1> USE DEF OfRole
  <1>9. CASE c.pc = "count"
    <2>1. rows' = rows /\ ~(Cardinality(Active(t)) <= 1) /\ d.pc \in {"findDeputy", "finish"}
      BY <1>1, <1>2, <1>9 DEF Effect
    <2>2. \E i, j \in Active(t) : i # j
      BY <2>1, SeveralMembers
    <2> QED
      BY <1>6, <1>7, <2>1, <2>2
  <1>10. CASE c.pc = "findDeputy"
    <2>1. rows' = rows
      BY <1>1, <1>2, <1>10 DEF Effect
    <2>2. d.pc = "finish" \/ (d.pc = "roleRead" /\ d.other \in Deputies(t))
      BY <1>1, <1>2, <1>10 DEF Effect
    <2> QED
      BY <1>4, <1>6, <1>7, <1>8, <1>10, <2>1, <2>2
  <1>11. CASE c.pc = "roleRead"
    <2>1. rows' = rows /\ d.pc = "roleSelect" /\ d.other = c.other
      BY <1>1, <1>2, <1>11 DEF Effect
    <2>2. c.other \in Ids /\ rows[c.other] \in Row /\ rows[c.other].active
      BY <1>3, <1>4, <1>11 DEF Active
    <2>3. d.row.active
      BY <1>1, <1>2, <1>11, <2>2 DEF Effect, Row
    <2> QED
      BY <1>4, <1>6, <1>7, <1>11, <2>1, <2>3
  <1>12. CASE c.pc = "roleSelect"
    <2>1. rows' = rows /\ d.pc = "roleSave" /\ d.other = c.other /\ d.row = c.row
      BY <1>1, <1>2, <1>12 DEF Effect
    <2> QED
      BY <1>4, <1>6, <1>7, <1>12, <2>1
  <1>13. CASE c.pc = "roleSave"
    <2>1. SaveRow(c, c.other) /\ d.pc = "teamRead" /\ d.other = c.other
      BY <1>1, <1>2, <1>13 DEF Effect
    <2>2. c.other \in Ids /\ rows[c.other].active /\ rows[c.other].team = t
      BY <1>4, <1>13 DEF Active
    <2>3. /\ \A j \in Ids \ {c.other} : rows'[j] = rows[j]
          /\ rows'[c.other].team = t
          /\ rows'[c.other].active = Written(c.seen.active, c.row.active, rows[c.other].active)
      BY <1>1, <2>1, <2>2, RowSaved
    <2>4. rows'[c.other].active
      BY <1>4, <1>13, <2>2, <2>3 DEF Written
    <2>5. Active(t) \subseteq Active(t)'
      BY <2>2, <2>3, <2>4 DEF Active
    <2> QED
      BY <1>4, <1>6, <1>13, <2>1, <2>5
  <1>14. CASE c.pc \in OfTeam
    <2>1. rows' = rows /\ d.pc \in OfTeam \cup {"finish"}
      BY <1>1, <1>2, <1>14 DEF Effect, OfTeam
    <2> QED
      BY <1>4, <1>6, <1>7, <1>14, <2>1 DEF OfTeam
  <1> QED
    BY <1>1, <1>2, <1>5, <1>9, <1>10, <1>11, <1>12, <1>13, <1>14 DEF Effect, OfTeam

\* Every step keeps what the calls that are not outrun counted.
LEMMA RemovalStep ==
  ASSUME Base, RemovalInv, NEW p \in Procs, Acts(p), NEW S \in SUBSET Teams, Remember(p, S)
  PROVE  RemovalInv'
  <1>1. SUFFICES ASSUME NEW q \in Procs, q \notin outrun' PROVE Counted(q)'
    BY DEF RemovalInv
  <1>2. q \notin outrun => Counted(q)
    BY DEF RemovalInv
  <1>3. CASE q # p
    <2>1. ctx'[q] = ctx[q]
      BY <1>3, BaseStep
    <2>2. ctx[q].pc # "idle" => ctx[q].team \in Teams
      BY DEF Base, Operands
    <2> QED
      BY <1>1, <1>2, <1>3, <2>1, <2>2, CountStands
  <1>4. CASE q = p /\ Call(p)
    <2>1. ctx'[p].op = "remove" => ctx'[p].pc = "count"
      BY <1>4, CallBegins DEF Begins, Departs
    <2> QED
      BY <1>4, <2>1 DEF Counted
  <1>5. CASE q = p /\ (Step(p) \/ Fails(p))
    <2>1. CASE ctx'[p].pc = "idle"
      BY <1>5, <2>1 DEF Counted
    <2>2. CASE ctx'[p].pc # "idle"
      <3>1. p \notin outrun
        BY <1>1, <1>5, <2>2 DEF Remember
      <3> QED
        BY <1>2, <1>5, <3>1, RemovalKeeps
    <2> QED
      BY <2>1, <2>2
  <1> QED
    BY <1>3, <1>4, <1>5 DEF Acts

\* T11.  removeMember never takes the last member of a team that nobody else
\* left since it counted, long before.
THEOREM SomeoneStays == Spec => RemovalLeavesSomeone
  <1> DEFINE Stays == \A p \in Procs \ outrun, t \in Teams :
                         Goes(p) /\ ctx[p].op = "remove" /\ ctx[p].team = t => Active(t)' # {}
  <1>1. Init => RemovalInv
    BY DEF Init, RemovalInv, Counted, Idle
  <1>2. ASSUME Base, RemovalInv, [Next]_vars PROVE RemovalInv'
    <2>1. CASE Next
      BY <1>2, <2>1, NextActs, RemovalStep
    <2>2. CASE UNCHANGED vars
      BY <1>2, <2>2 DEF vars, RemovalInv, Counted, Active
    <2> QED
      BY <1>2, <2>1, <2>2
  <1>3. ASSUME Base, RemovalInv, [Next]_vars PROVE [Stays]_vars
    <2>1. SUFFICES ASSUME Next, NEW p \in Procs \ outrun, NEW t \in Teams,
                          Goes(p), ctx[p].op = "remove", ctx[p].team = t
                   PROVE  Active(t)' # {}
      BY <1>3
    <2>2. \E i, j \in Active(t) : i # j
      BY <1>3, <2>1 DEF RemovalInv, Counted, Goes
    <2>3. PICK q \in Procs : Acts(q) /\ \A r \in Procs \ {q} : ctx'[r] = ctx[r]
      BY <1>3, <2>1, NextActs, BaseStep
    <2>4. q = p
      BY <2>1, <2>3 DEF Goes
    <2>5. Step(p) \/ Fails(p)
      BY <1>3, <2>1, <2>3, <2>4, CallBegins, IdleTyped DEF Acts, Begins, Goes
    <2>6. SoftDelete(p)
      <3>1. Effect(p, ctx[p], ctx'[p])
        BY <1>3, <2>5, StepEffect
      <3> QED
        BY <2>1, <3>1 DEF Effect, Goes
    <2>7. \A j \in Ids \ {ctx[p].id} : rows'[j] = rows[j]
      BY <1>3, <2>6, RowDeleted
    <2> QED
      BY <2>2, <2>7 DEF Active
  <1>4. Spec => []Base
    BY BaseInit, BaseNext, PTL DEF Spec
  <1> QED
    BY <1>1, <1>2, <1>3, <1>4, PTL DEF Spec, RemovalLeavesSomeone

-----------------------------------------------------------------------------
(* A deputy takes over.                                                    *)

\* What a call that takes the leader away relies on: it promotes a deputy, who
\* leads from then on, or there is none.
Succeeds(q) ==
    LET c == ctx[q]  t == c.team IN
    Departs(c) /\ c.role = "LEADER" =>
       /\ c.id \notin Deputies(t)
       /\ c.pc = "count" /\ c.op = "leave" => c.id \in Leaders(t)
       /\ c.pc \in {"count", "findDeputy"} => c.other = NoId
       /\ c.pc \in OfRole => c.other \in Deputies(t)
       /\ c.pc \in {"roleSelect", "roleSave"} => c.row.active /\ c.row.role = "LEADER"
       /\ c.pc = "roleSave" => c.seen.role # "LEADER"
       /\ c.pc \in OfTeam => c.other \in Leaders(t) \ {c.id}
       /\ c.pc = "finish" => IF c.other = NoId THEN Deputies(t) = {}
                             ELSE c.other \in Leaders(t) \ {c.id}

SuccessionInv == \A q \in Procs \ blind : Succeeds(q)

\* A call that is not blind relies on it while others act.
LEMMA SuccessionStands ==
  ASSUME NEW p \in Procs, NEW q \in Procs \ {p}, NEW S, Remember(p, S),
         ctx'[q] = ctx[q], ctx[q].pc = "idle" => ctx[q] = Idle,
         ctx[q].pc # "idle" => ctx[q].team \in Teams,
         q \notin blind => Succeeds(q), q \notin blind'
  PROVE  Succeeds(q)'
  <1>1. SUFFICES ASSUME Departs(ctx[q]), ctx[q].pc # "idle",
                        NEW t \in Teams, t = ctx[q].team
                 PROVE  Succeeds(q)'
    BY IdleTyped DEF Succeeds, Departs
  <1>2. q \notin blind /\ ~Confuses(q)
    BY <1>1 DEF Remember
  <1>3. Leaders(t)' = Leaders(t) /\ Deputies(t)' = Deputies(t)
    BY <1>1, <1>2 DEF Confuses
  <1>4. ctx'[q].team = t
    BY <1>1
  <1> QED
    BY <1>1, <1>2, <1>3, <1>4 DEF Succeeds, Departs

\* Its own steps, of which all but the look for a deputy are sure.
LEMMA SuccessionKeeps ==
  ASSUME Base, NEW p \in Procs, Step(p) \/ Fails(p), Succeeds(p), ~LooksAtPart(p)
  PROVE  Succeeds(p)'
  <1>1. SUFFICES ASSUME NEW c \in Ctx, c = ctx[p], NEW d, d = ctx'[p], NEW t \in Teams, t = c.team,
                        Departs(c), Departs(d), c.role = "LEADER", d.role = "LEADER",
                        c.pc # "idle", d.team = t, d.id = c.id, d.op = c.op, d # Idle
                 PROVE  Succeeds(p)'
    <2>1. KeepsOperands(p) /\ ctx[p] \in Ctx /\ Operands(ctx[p], rows)
      BY StepEffect DEF Base, TypeOK
    <2> QED
      BY <2>1, IdleTyped DEF Succeeds, KeepsOperands, Operands, Departs
  <1>2. Effect(p, c, d)
    BY <1>1, StepEffect
  <1>3. /\ Operands(c, rows) /\ rows \in [Ids -> Row]
        /\ c.id \in Ids /\ rows[c.id].team = t
    BY <1>1 DEF Base, TypeOK, Operands, Departs
  <1>4. /\ c.id \notin Deputies(t)
        /\ c.pc = "count" /\ c.op = "leave" => c.id \in Leaders(t)
        /\ c.pc \in {"count", "findDeputy"} => c.other = NoId
        /\ c.pc \in OfRole => c.other \in Deputies(t)
        /\ c.pc \in {"roleSelect", "roleSave"} => c.row.active /\ c.row.role = "LEADER"
        /\ c.pc = "roleSave" => c.seen.role # "LEADER"
        /\ c.pc \in OfTeam => c.other \in Leaders(t) \ {c.id}
    BY <1>1 DEF Succeeds
  <1>5. c.pc # "findLeader" /\ c.pc \notin {"ownSelect", "ownSave"}
    BY <1>1, <1>3 DEF Operands, Departs
  <1>6. ASSUME c.id \notin Deputies(t)', d.pc \notin {"count", "findDeputy"} \/ d.other = NoId,
               d.pc # "count",
               d.pc \in OfRole => d.other \in Deputies(t)',
               d.pc \in {"roleSelect", "roleSave"} => d.row.active /\ d.row.role = "LEADER",
               d.pc = "roleSave" => d.seen.role # "LEADER",
               d.pc \in OfTeam => d.other \in Leaders(t)' \ {c.id},
               d.pc = "finish" => IF d.other = NoId THEN Deputies(t)' = {}
                                  ELSE d.other \in Leaders(t)' \ {c.id}
        PROVE  Succeeds(p)'
    BY <1>1, <1>6 DEF Succeeds
  <1>7. rows' = rows => Leaders(t)' = Leaders(t) /\ Deputies(t)' = Deputies(t)
    BY DEF Leaders, Deputies, WithRole, Active
  <1>8. /\ \A i \in Deputies(t) : /\ i \in Active(t) /\ i \in Ids /\ rows[i].role = "DEPUTY_LEADER"
                                  /\ rows[i].active /\ rows[i].team = t
        /\ \A i \in Leaders(t) : i \in Active(t) /\ rows[i].role = "LEADER"
    BY DEF Deputies, Leaders, WithRole, Active
  <1>9. NoId \notin Ids
    BY MembershipAssumption
  <1> USE DEF OfRole, OfTeam
  <1>10. CASE c.pc = "count"
    <2>1. rows' = rows /\ d.other = NoId /\ d.pc \in {"findDeputy", "finish"}
      BY <1>1, <1>2, <1>4, <1>10 DEF Effect
    <2>2. CASE d.pc = "findDeputy"
      BY <1>4, <1>6, <1>7, <2>1, <2>2
    <2>3. CASE d.pc = "finish"
      <3>1. Cardinality(Active(t)) <= 1 /\ c.op = "leave"
        BY <1>1, <1>2, <1>10, <2>3 DEF Effect, Departs
      <3>2. c.id \in Active(t) /\ c.id \in Leaders(t)
        BY <1>4, <1>8, <1>10, <3>1
      <3>3. \A j \in Active(t) : j = c.id
        BY <3>1, <3>2, FewMembers
      <3>4. Deputies(t) = {}
        BY <1>4, <1>8, <3>3
      <3> QED
        BY <1>4, <1>6, <1>7, <2>1, <2>3, <3>4
    <2> QED
      BY <2>1, <2>2, <2>3
  <1>11. CASE c.pc = "findDeputy"
    <2>1. rows' = rows
      BY <1>1, <1>2, <1>11 DEF Effect
    <2>2. CASE /\ d.pc = "finish" /\ d.other = c.other
               /\ \E page \in Pages(t) : page \cap Deputies(t) = {}
      <3>1. ~(Cardinality(Active(t)) > PageSize)
        BY <1>1, <1>11 DEF LooksAtPart
      <3>2. Active(t) \cap Deputies(t) = {}
        BY <2>2, <3>1, WholePage
      <3>3. Deputies(t) = {}
        BY <1>8, <3>2
      <3> QED
        BY <1>4, <1>6, <1>7, <1>11, <2>1, <2>2, <3>3
    <2>3. CASE d.pc = "roleRead" /\ d.other \in Deputies(t)
      BY <1>4, <1>6, <1>7, <2>1, <2>3
    <2> QED
      BY <1>1, <1>2, <1>11, <2>2, <2>3 DEF Effect
  <1>12. CASE c.pc = "roleRead"
    <2>1. rows' = rows /\ d.pc = "roleSelect" /\ d.other = c.other
      BY <1>1, <1>2, <1>12 DEF Effect
    <2>2. c.other \in Ids /\ rows[c.other] \in Row /\ rows[c.other].active
      BY <1>3, <1>4, <1>8, <1>12
    <2>3. d.row = [rows[c.other] EXCEPT !.role = "LEADER"]
      BY <1>1, <1>2, <1>12 DEF Effect
    <2>4. d.row.active /\ d.row.role = "LEADER"
      BY <2>2, <2>3 DEF Row
    <2> QED
      BY <1>4, <1>6, <1>7, <1>12, <2>1, <2>4
  <1>13. CASE c.pc = "roleSelect"
    <2>1. rows' = rows /\ d.pc = "roleSave" /\ d.other = c.other /\ d.row = c.row
          /\ d.seen = rows[c.other]
      BY <1>1, <1>2, <1>13 DEF Effect
    <2>2. d.seen.role # "LEADER"
      BY <1>4, <1>8, <1>13, <2>1
    <2> QED
      BY <1>4, <1>6, <1>7, <1>13, <2>1, <2>2
  <1>14. CASE c.pc = "roleSave"
    <2>1. SaveRow(c, c.other) /\ d.pc = "teamRead" /\ d.other = c.other
      BY <1>1, <1>2, <1>14 DEF Effect
    <2>2. c.other \in Ids /\ rows[c.other].active /\ rows[c.other].team = t /\ c.other # c.id
      BY <1>4, <1>8, <1>14
    <2>3. /\ \A j \in Ids \ {c.other} : rows'[j] = rows[j]
          /\ rows'[c.other].team = t
          /\ rows'[c.other].role = Written(c.seen.role, c.row.role, rows[c.other].role)
          /\ rows'[c.other].active = Written(c.seen.active, c.row.active, rows[c.other].active)
      BY <1>1, <2>1, <2>2, RowSaved
    <2>4. rows'[c.other].active /\ rows'[c.other].role = "LEADER"
      BY <1>4, <1>14, <2>2, <2>3 DEF Written
    <2>5. c.other \in Leaders(t)'
      BY <2>2, <2>3, <2>4 DEF Leaders, WithRole, Active
    <2>6. c.id \notin Deputies(t)'
      BY <1>3, <1>4, <2>2, <2>3 DEF Deputies, WithRole, Active
    <2> QED
      BY <1>6, <2>1, <2>2, <2>5, <2>6
  <1>15. CASE c.pc \in OfTeam
    <2>1. rows' = rows /\ d.pc \in {"teamSelect", "teamSave", "finish"} /\ d.other = c.other
      BY <1>1, <1>2, <1>15 DEF Effect
    <2>2. c.other # NoId
      BY <1>4, <1>9, <1>15 DEF Leaders, WithRole, Active
    <2> QED
      BY <1>4, <1>6, <1>7, <1>15, <2>1, <2>2
  <1> QED
    BY <1>1, <1>2, <1>5, <1>10, <1>11, <1>12, <1>13, <1>14, <1>15 DEF Effect, Departs

\* Every step keeps what the calls that are not blind rely on.
LEMMA SuccessionStep ==
  ASSUME Base, SuccessionInv, NEW p \in Procs, Acts(p), NEW S \in SUBSET Teams, Remember(p, S)
  PROVE  SuccessionInv'
  <1>1. SUFFICES ASSUME NEW q \in Procs, q \notin blind' PROVE Succeeds(q)'
    BY DEF SuccessionInv
  <1>2. q \notin blind => Succeeds(q)
    BY DEF SuccessionInv
  <1>3. CASE q # p
    <2>1. ctx'[q] = ctx[q]
      BY <1>3, BaseStep
    <2>2. /\ ctx[q].pc # "idle" => ctx[q].team \in Teams
          /\ ctx[q].pc = "idle" => ctx[q] = Idle
      BY DEF Base, Operands
    <2> QED
      BY <1>1, <1>2, <1>3, <2>1, <2>2, SuccessionStands
  <1>4. CASE q = p /\ Call(p)
    <2>1. SUFFICES ASSUME NEW d \in Ctx, d = ctx'[p], Departs(d), d.role = "LEADER",
                          NEW t \in Teams, t = d.team
                   PROVE  Succeeds(p)'
      BY <1>4, CallBegins DEF Begins, Succeeds
    <2>2. /\ d.pc = "count" /\ d.other = NoId /\ rows' = rows
          /\ d.id \in Ids /\ rows[d.id].team = t /\ rows[d.id].role = "LEADER"
          /\ d.op = "leave" => rows[d.id].active
      BY <1>4, <2>1, CallBegins DEF Begins, Departs
    <2>3. d.id \notin Deputies(t)' /\ (d.op = "leave" => d.id \in Leaders(t)')
      BY <2>2 DEF Deputies, Leaders, WithRole, Active
    <2> QED
      BY <1>4, <2>1, <2>2, <2>3 DEF Succeeds, OfRole, OfTeam
  <1>5. CASE q = p /\ (Step(p) \/ Fails(p))
    <2>1. CASE ctx'[p].pc = "idle"
      <3>1. ctx'[p] = Idle
        BY <2>1, BaseStep DEF Base, Operands
      <3> QED
        BY <1>5, <3>1, IdleTyped DEF Succeeds, Departs
    <2>2. CASE ctx'[p].pc # "idle"
      <3>1. p \notin blind /\ ~LooksAtPart(p)
        BY <1>1, <1>5, <2>2 DEF Remember
      <3> QED
        BY <1>2, <1>5, <3>1, SuccessionKeeps
    <2> QED
      BY <2>1, <2>2
  <1> QED
    BY <1>3, <1>4, <1>5 DEF Acts

\* T12.  A leader who goes is followed by another wherever there is a deputy, in
\* every call that saw the whole team and beside which no other call changed
\* who leads it or deputises.
THEOREM ADeputyTakesOver == Spec => DeputyTakesOver
  <1> DEFINE Follows == \A p \in Procs \ blind, t \in Teams :
                           Goes(p) /\ ctx[p].role = "LEADER" /\ ctx[p].team = t =>
                              Deputies(t)' = {} \/ Leaders(t)' # {}
  <1>1. Init => SuccessionInv
    BY IdleTyped DEF Init, SuccessionInv, Succeeds, Departs
  <1>2. ASSUME Base, SuccessionInv, [Next]_vars PROVE SuccessionInv'
    <2>1. CASE Next
      BY <1>2, <2>1, NextActs, SuccessionStep
    <2>2. CASE UNCHANGED vars
      BY <1>2, <2>2 DEF vars, SuccessionInv, Succeeds, Leaders, Deputies, WithRole, Active
    <2> QED
      BY <1>2, <2>1, <2>2
  <1>3. ASSUME Base, SuccessionInv, [Next]_vars PROVE [Follows]_vars
    <2>1. SUFFICES ASSUME Next, NEW p \in Procs \ blind, NEW t \in Teams,
                          Goes(p), ctx[p].role = "LEADER", ctx[p].team = t
                   PROVE  Deputies(t)' = {} \/ Leaders(t)' # {}
      BY <1>3
    <2>2. IF ctx[p].other = NoId THEN Deputies(t) = {}
          ELSE ctx[p].other \in Leaders(t) \ {ctx[p].id}
      BY <1>3, <2>1 DEF SuccessionInv, Succeeds, Goes, Departs
    <2>3. PICK q \in Procs : Acts(q) /\ \A r \in Procs \ {q} : ctx'[r] = ctx[r]
      BY <1>3, <2>1, NextActs, BaseStep
    <2>4. q = p
      BY <2>1, <2>3 DEF Goes
    <2>5. Step(p) \/ Fails(p)
      BY <1>3, <2>1, <2>3, <2>4, CallBegins, IdleTyped DEF Acts, Begins, Goes
    <2>6. SoftDelete(p)
      <3>1. Effect(p, ctx[p], ctx'[p])
        BY <1>3, <2>5, StepEffect
      <3> QED
        BY <2>1, <3>1 DEF Effect, Goes
    <2>7. /\ \A j \in Ids \ {ctx[p].id} : rows'[j] = rows[j]
          /\ ~rows'[ctx[p].id].active
      BY <1>3, <2>6, RowDeleted
    <2> QED
      BY <2>2, <2>7 DEF Leaders, Deputies, WithRole, Active
  <1>4. Spec => []Base
    BY BaseInit, BaseNext, PTL DEF Spec
  <1> QED
    BY <1>1, <1>2, <1>3, <1>4, PTL DEF Spec, DeputyTakesOver

-----------------------------------------------------------------------------
(* Accounts and teams.                                                     *)

\* What a step writes of the rows: a save or softDelete one of the call's
\* team, create an unused one.
LEMMA RowsWritten ==
  ASSUME Base, NEW p \in Procs, Step(p) \/ Fails(p), NEW c, c = ctx[p], NEW i \in Ids,
         rows'[i] # rows[i]
  PROVE  \/ /\ c.pc = "roleSave" /\ i = c.other /\ SaveRow(c, i) /\ rows[i].team = c.team
         \/ /\ c.pc = "ownSave" /\ i = c.id /\ SaveRow(c, i) /\ rows[i].team = c.team
            /\ c.op = "role"
         \/ /\ c.pc = "finish" /\ Departs(c) /\ i = c.id /\ SoftDelete(p)
            /\ rows[i].team = c.team
         \/ /\ c.pc = "finish" /\ c.op = "add" /\ CreateRow(p) /\ rows[i] = Unused
            /\ rows'[i].team = c.team /\ rows'[i].person = c.person
            /\ rows'[i].role = c.role /\ rows'[i].active
  <1>1. /\ Effect(p, c, ctx'[p]) /\ KeepsOperands(p)
    BY StepEffect
  <1>2. c \in Ctx /\ Operands(c, rows) /\ c.pc # "idle"
    BY <1>1 DEF Base, TypeOK, KeepsOperands
  <1>3. c.other # NoId => c.other \in Ids
    BY <1>2 DEF Ctx
  <1>4. CASE c.pc = "roleSave" /\ SaveRow(c, c.other)
    <2>1. c.other \in Ids /\ rows[c.other].team = c.team /\ c.team \in Teams
      BY <1>2, <1>3, <1>4 DEF Operands, OfRole
    <2>2. i = c.other
      BY <1>2, <1>4, <2>1, RowSaved
    <2> QED
      BY <1>4, <2>1, <2>2
  <1>5. CASE c.pc = "ownSave" /\ SaveRow(c, c.id)
    <2>1. c.id \in Ids /\ rows[c.id].team = c.team /\ c.team \in Teams /\ c.op = "role"
      BY <1>2, <1>5 DEF Operands
    <2>2. i = c.id
      BY <1>2, <1>5, <2>1, RowSaved
    <2> QED
      BY <1>5, <2>1, <2>2
  <1>6. CASE c.pc = "finish" /\ Departs(c) /\ SoftDelete(p)
    <2>1. c.id \in Ids /\ rows[c.id].team = c.team
      BY <1>2, <1>6 DEF Operands, Departs
    <2>2. i = c.id
      BY <1>6, RowDeleted
    <2> QED
      BY <1>6, <2>1, <2>2
  <1>7. CASE c.pc = "finish" /\ c.op = "add" /\ CreateRow(p)
    BY <1>7, RowCreated
  <1>8. rows' # rows
    OBVIOUS
  <1> QED
    BY <1>1, <1>4, <1>5, <1>6, <1>7, <1>8 DEF Effect

Held(u) == {i \in Ids : rows[i].active /\ rows[i].person = u}
Adding(q, u) == ctx[q].op = "add" /\ ctx[q].person = u

\* An account that is being added has no active row, and no second addition.
Single(u) ==
    /\ AtMostOne(Held(u))
    /\ \A p, q \in Procs : Adding(p, u) /\ Adding(q, u) => p = q
    /\ (\E p \in Procs : Adding(p, u)) => Held(u) = {}

UserInv == \A u \in Users \ doubled : Single(u)

\* A step that lets the account not back in and does not create its row gives
\* it none.
LEMMA HeldShrinks ==
  ASSUME Base, NEW p \in Procs, Step(p) \/ Fails(p), NEW u \in Users, u \notin Doubles(p),
         ~(CreateRow(p) /\ Adding(p, u))
  PROVE  Held(u)' \subseteq Held(u)
  <1>1. SUFFICES ASSUME NEW i \in Ids, rows'[i].active, rows'[i].person = u
                 PROVE  rows[i].active /\ rows[i].person = u
    BY DEF Held
  <1>2. CASE rows'[i] = rows[i]
    BY <1>1, <1>2
  <1>3. CASE rows'[i] # rows[i]
    <2> DEFINE c == ctx[p]
    <2>1. c.team \in Teams
      BY StepEffect DEF Base, Operands, KeepsOperands
    <2>2. rows[i].team = c.team \/ (CreateRow(p) /\ c.op = "add" /\ rows'[i].person = c.person)
      BY <1>3, RowsWritten
    <2>3. rows[i].team \in Teams
      BY <1>1, <2>1, <2>2 DEF Adding
    <2>4. rows[i].person = u
      BY <1>1, <2>3, StepFrame DEF RowsStay
    <2>5. rows[i].active
      BY <1>1, <2>4 DEF Doubles
    <2> QED
      BY <2>4, <2>5
  <1> QED
    BY <1>2, <1>3

\* Additions begin one at a time, and only of those who are in no team.
LEMMA UserStep ==
  ASSUME Base, UserInv, NEW p \in Procs, Acts(p), NEW S \in SUBSET Teams, Remember(p, S)
  PROVE  UserInv'
  <1>1. SUFFICES ASSUME NEW u \in Users, u \notin doubled' PROVE Single(u)'
    BY DEF UserInv
  <1>2. u \notin doubled /\ u \notin Doubles(p) /\ Single(u)
    BY <1>1 DEF Remember, UserInv
  <1>3. \A q \in Procs \ {p} : ctx'[q] = ctx[q]
    BY BaseStep
  <1>4. ASSUME Held(u)' \subseteq Held(u), Adding(p, u)' => Adding(p, u)
        PROVE  Single(u)'
    <2>1. \A q \in Procs : Adding(q, u)' => Adding(q, u)
      BY <1>3, <1>4 DEF Adding
    <2> QED
      BY <1>2, <1>4, <2>1 DEF Single, AtMostOne
  <1>5. CASE Call(p)
    <2>1. Begins(p)
      BY <1>5, CallBegins
    <2>2. Held(u)' = Held(u)
      BY <2>1 DEF Begins, Held
    <2>3. CASE Adding(p, u)'
      <3>1. \A q \in Procs \ {p} : ~Adding(q, u)
        BY <1>2, <2>3 DEF Doubles, Adding
      <3>2. Clashes(ctx'[p].team, u) = {}
        BY <2>1, <2>3 DEF Begins, Adding
      <3>3. Held(u) = {}
        BY <3>2, MembershipAssumption DEF Clashes, Held
      <3>4. \A q \in Procs : Adding(q, u)' => q = p
        BY <1>3, <3>1 DEF Adding
      <3> QED
        BY <2>2, <3>3, <3>4 DEF Single, AtMostOne
    <2>4. CASE ~Adding(p, u)'
      BY <1>4, <2>2, <2>4
    <2> QED
      BY <2>3, <2>4
  <1>6. CASE Step(p) \/ Fails(p)
    <2>1. KeepsOperands(p) /\ Effect(p, ctx[p], ctx'[p]) /\ Operands(ctx[p], rows)
      BY <1>6, StepEffect DEF Base
    <2>2. Adding(p, u)' => Adding(p, u)
      <3>1. ctx'[p] = Idle => ~Adding(p, u)'
        BY IdleTyped, MembershipAssumption DEF Adding, Persons
      <3>2. ASSUME ctx'[p] # Idle, ctx'[p].op = "add" PROVE ctx'[p].person = ctx[p].person
        <4>1. ctx[p].op = "add" /\ ctx[p].pc \notin {"count", "findDeputy"}
          BY <2>1, <3>2 DEF KeepsOperands, Operands, Departs
        <4> QED
          BY <2>1, <3>2, <4>1 DEF Effect
      <3> QED
        BY <2>1, <3>1, <3>2 DEF Adding, KeepsOperands
    <2>3. CASE CreateRow(p) /\ Adding(p, u)
      <3>1. Held(u) = {} /\ \A q \in Procs \ {p} : ~Adding(q, u)
        BY <1>2, <2>3 DEF Single
      <3>2. ctx'[p] = Idle
        BY <2>3, IdleTyped DEF CreateRow, Base, TypeOK
      <3>3. \A q \in Procs : ~Adding(q, u)'
        BY <1>3, <3>1, <3>2, IdleTyped, MembershipAssumption DEF Adding, Persons
      <3>4. PICK i \in Ids : \A j \in Ids \ {i} : rows'[j] = rows[j]
        BY <2>3, RowCreated
      <3>5. Held(u)' \subseteq {i}
        BY <3>1, <3>4 DEF Held
      <3> QED
        BY <3>3, <3>5 DEF Single, AtMostOne
    <2>4. CASE ~(CreateRow(p) /\ Adding(p, u))
      BY <1>2, <1>4, <1>6, <2>2, <2>4, HeldShrinks
    <2> QED
      BY <2>3, <2>4
  <1> QED
    BY <1>5, <1>6 DEF Acts

\* T9.  An account is an active member of one team at most, though nothing
\* locks between the check and the insert, unless it was added twice at once
\* or a stale save let it back in.
THEOREM NeverInTwoTeams == Spec => []UserInOneTeam
  <1>1. Init => UserInv
    <2>1. ASSUME Init, NEW u \in Users PROVE Single(u)
      <3>1. Held(u) = {} /\ \A q \in Procs : ~Adding(q, u)
        BY <2>1, IdleTyped, MembershipAssumption DEF Init, Held, Unused, Adding, Persons
      <3> QED
        BY <3>1 DEF Single, AtMostOne
    <2> QED
      BY <2>1 DEF UserInv
  <1>2. ASSUME Base, UserInv, [Next]_vars PROVE UserInv'
    <2>1. CASE Next
      BY <1>2, <2>1, NextActs, UserStep
    <2>2. CASE UNCHANGED vars
      <3>1. /\ \A u \in Users : Held(u)' = Held(u)
            /\ \A u \in Users, q \in Procs : Adding(q, u)' = Adding(q, u)
        BY <2>2 DEF vars, Held, Adding
      <3> QED
        BY <1>2, <2>2, <3>1 DEF vars, UserInv, Single, AtMostOne
    <2> QED
      BY <1>2, <2>1, <2>2
  <1>3. UserInv => UserInOneTeam
    <2>1. ASSUME NEW u \in Users, Single(u)
          PROVE  Cardinality({i \in Ids : rows[i].active /\ rows[i].person = u}) <= 1
      <3>1. Cardinality(Held(u)) <= 1
        BY <2>1, AtMostOneCounted DEF Single
      <3> QED
        BY <3>1 DEF Held
    <2> QED
      BY <2>1 DEF UserInv, UserInOneTeam
  <1>4. Spec => []Base
    BY BaseInit, BaseNext, PTL DEF Spec
  <1> QED
    BY <1>1, <1>2, <1>3, <1>4, PTL DEF Spec
-----------------------------------------------------------------------------
(* Leaders.                                                                *)

Appointing(p, t) == ctx[p].team = t /\ Appoints(ctx[p])
NamedIn(t) == {leader[t].user, leader[t].citizen}
AllNamed(t) == \A i \in Leaders(t) : rows[i].person \in NamedIn(t)
OfOwn == {"ownSelect", "ownSave"}

\* Calls that appoint nobody go straight to their own row.
Manner(c) ==
    /\ ~Appoints(c) => c.pc \in {"idle", "count", "finish"} \cup OfOwn
    /\ c.pc \in OfOwn => c.row.role = c.role

\* A leader goes: the deputy is promoted and named before the leader's row goes.
HandsOver(c, t) ==
    /\ c.pc \in {"count", "findDeputy"} => c.other = NoId
    /\ c.pc \in {"count", "findDeputy"} \cup OfRole => Leaders(t) \subseteq {c.id}
    /\ c.pc \in {"count", "findDeputy"} \cup OfRole \cup OfTeam =>
          rows[c.id].person \in NamedIn(t)
    /\ c.pc \in OfRole \cup OfTeam => c.other # NoId /\ rows[c.other].person = c.person
    /\ c.pc \in OfTeam => Leaders(t) \subseteq {c.id, c.other}
    /\ c.pc = "finish" =>
          IF c.other = NoId THEN Leaders(t) \subseteq {c.id} /\ rows[c.id].person \in NamedIn(t)
          ELSE Leaders(t) \subseteq {c.id, c.other} /\ rows[c.other].person \in NamedIn(t)

\* A leader comes: the one before is demoted and the new one named before the
\* new one's row is written.
TakesOver(c, t) ==
    /\ c.op = "role" => rows[c.id].person = c.person
    /\ c.pc = "findLeader" => AtMostOne(Leaders(t)) /\ AllNamed(t)
    /\ c.pc \in OfRole => Leaders(t) \subseteq {c.other} /\ AllNamed(t)
    /\ c.pc \in {"roleSelect", "roleSave"} => c.row.role = "MEMBER"
    /\ c.pc = "roleSave" /\ c.seen.role = "MEMBER" => rows[c.other].role # "LEADER"
    /\ c.pc \in OfTeam \cup {"finish"} \cup OfOwn => Leaders(t) = {}
    /\ c.pc \in {"finish"} \cup OfOwn => c.person \in NamedIn(t)

Hand(c, t) ==
    /\ Departs(c) => HandsOver(c, t)
    /\ ~Departs(c) => TakesOver(c, t)
    /\ c.pc = "teamSave" => c.seenLead = leader[t]

HandOf(p, t) == Hand(ctx[p], t)
InHand(t) == AtMostOne(Leaders(t)) /\ AllNamed(t)

\* One call at a time gives the team its leader or takes it away, and has it in
\* hand; at any other time the team is led by one, who is named, or by nobody.
Led(t) ==
    /\ \A p, q \in Procs : Appointing(p, t) /\ Appointing(q, t) => p = q
    /\ (\A p \in Procs : ~Appointing(p, t)) => InHand(t)
    /\ \A p \in Procs : Appointing(p, t) => HandOf(p, t)

LeadInv ==
    /\ \A p \in Procs : Manner(ctx[p])
    /\ \A t \in Teams \ disturbed : Led(t)

\* A step of somebody who does not appoint.
Quiet(t) ==
    /\ leader'[t] = leader[t]
    /\ Leaders(t)' \subseteq Leaders(t)
    /\ \A i \in Ids : rows[i].team = t =>
          /\ rows'[i].person = rows[i].person
          /\ rows'[i].role = "LEADER" => rows[i].role = "LEADER"

LEMMA MannerKept ==
  ASSUME Base, NEW p \in Procs, Acts(p), Manner(ctx[p])
  PROVE  Manner(ctx'[p])
  <1> DEFINE c == ctx[p]
             d == ctx'[p]
  <1>1. CASE Call(p)
    BY <1>1, CallBegins DEF Begins, Manner, Appoints, OfOwn
  <1>2. CASE Step(p) \/ Fails(p)
    <2>1. KeepsOperands(p) /\ Effect(p, c, d) /\ c \in Ctx /\ Operands(c, rows)
      BY <1>2, StepEffect DEF Base, TypeOK
    <2>2. d = Idle => Manner(d)
      BY IdleTyped DEF Manner, OfOwn
    <2>3. ASSUME d # Idle PROVE d.role = c.role
      BY <2>1, <2>3 DEF KeepsOperands
    <2>4. CASE c.pc = "finish" /\ d.pc = "ownSelect" /\ d.row = [rows[c.id] EXCEPT !.role = c.role]
               /\ c.op = "role"
      <3>1. rows[c.id] \in Row
        BY <2>1, <2>4 DEF Base, TypeOK, Operands
      <3>2. d.row.role = c.role
        BY <2>4, <3>1 DEF Row
      <3> QED
        BY <2>2, <2>3, <2>4, <3>2 DEF Manner, OfOwn
    <2>5. CASE c.pc = "ownSelect" /\ d.pc = "ownSave" /\ d.row = c.row
      BY <2>2, <2>3, <2>5 DEF Manner, OfOwn
    <2>6. CASE d.pc = "finish"
      BY <2>6 DEF Manner, OfOwn
    <2>7. CASE d.pc \in {"findDeputy", "roleRead", "roleSelect", "roleSave", "teamRead",
                         "teamSelect", "teamSave"} /\ Appoints(c)
      BY <2>2, <2>3, <2>7 DEF Manner, OfOwn, Appoints
    <2> HIDE DEF c, d
    <2>8. Appoints(c) \/ c.pc \in {"idle", "count", "finish", "ownSelect", "ownSave"}
      BY DEF Manner, OfOwn, c
    <2> QED
      BY <2>1, <2>2, <2>4, <2>5, <2>6, <2>7, <2>8 DEF Effect, Appoints, c, d
  <1> QED
    BY <1>1, <1>2 DEF Acts

\* Who does not appoint in a team adds no leader to it.
LEMMA OthersQuiet ==
  ASSUME Base, NEW p \in Procs, Acts(p), Manner(ctx[p]), NEW t \in Teams,
         ~Appointing(p, t), Fails(p) \/ t \notin LetsBackIn(p)
  PROVE  Quiet(t)
  <1>1. CASE UNCHANGED <<rows, leader>>
    BY <1>1 DEF Quiet, Leaders, WithRole, Active
  <1>2. CASE Call(p)
    BY <1>1, <1>2, CallBegins DEF Begins
  <1>3. CASE Fails(p)
    BY <1>1, <1>3 DEF Fails
  <1>4. CASE Step(p) /\ t \notin LetsBackIn(p)
    <2> DEFINE c == ctx[p]
    <2>1. c \in Ctx /\ Operands(c, rows) /\ KeepsOperands(p) /\ Effect(p, c, ctx'[p])
      BY <1>4, StepEffect DEF Base, TypeOK
    <2>2. c.team \in Teams /\ RowsStay
      BY <1>4, <2>1, StepFrame DEF Operands, KeepsOperands
    <2>3. leader'[t] = leader[t]
      <3>1. CASE leader' = leader
        BY <3>1
      <3>2. CASE c.pc = "teamSave" /\ TeamSave(p)
        <4>1. c.team # t
          BY <3>2 DEF Manner, Appointing, OfOwn
        <4> QED
          BY <3>2, <4>1, LeaderSaved
      <3> QED
        BY <2>1, <3>1, <3>2 DEF Effect
    <2>4. ASSUME NEW i \in Ids, rows[i].team = t
          PROVE  /\ rows'[i].person = rows[i].person /\ rows'[i].team = t
                 /\ rows'[i].role = "LEADER" => rows[i].role = "LEADER"
                 /\ rows'[i].active /\ rows'[i].role = "LEADER" => rows[i].active
      <3>1. rows'[i].person = rows[i].person /\ rows'[i].team = t
        BY <2>2, <2>4 DEF RowsStay
      <3>2. CASE rows'[i] = rows[i]
        BY <3>1, <3>2
      <3>3. CASE rows'[i] # rows[i] /\ c.team = t
        <4>1. ~Appoints(c) /\ c.pc # "roleSave"
          BY <3>3 DEF Appointing, Manner, OfOwn
        <4>2. CASE c.pc = "ownSave" /\ i = c.id /\ SaveRow(c, i)
          <5>1. c.row.role # "LEADER"
            BY <4>1, <4>2 DEF Manner, OfOwn, Appoints
          <5>2. rows'[i].role = Written(c.seen.role, c.row.role, rows[i].role)
            BY <2>1, <2>4, <4>2, RowSaved
          <5>3. rows'[i].role = "LEADER" => rows[i].role = "LEADER"
            BY <5>1, <5>2 DEF Written
          <5>4. rows'[i].active /\ rows'[i].role = "LEADER" => rows[i].active
            BY <1>4, <2>4, <4>1 DEF LetsBackIn
          <5> QED
            BY <3>1, <5>3, <5>4
        <4>3. CASE c.pc = "finish" /\ SoftDelete(p)
          BY <3>1, <4>3, RowDeleted, <3>3
        <4>4. CASE rows[i] = Unused
          BY <2>4, <4>4, MembershipAssumption DEF Unused
        <4> QED
          BY <1>4, <3>3, <4>1, <4>2, <4>3, <4>4, RowsWritten
      <3>4. CASE rows'[i] # rows[i] /\ c.team # t
        <4>1. rows[i] # Unused
          BY <2>4, MembershipAssumption DEF Unused
        <4> QED
          BY <1>4, <2>4, <3>4, <4>1, RowsWritten
      <3> QED
        BY <3>2, <3>3, <3>4
    <2>5. ASSUME NEW i \in Leaders(t)' PROVE i \in Leaders(t)
      <3>1. i \in Ids /\ rows'[i].team = t /\ rows'[i].active /\ rows'[i].role = "LEADER"
        BY <2>5 DEF Leaders, WithRole, Active
      <3>2. CASE rows[i].team = t
        BY <2>4, <3>1, <3>2 DEF Leaders, WithRole, Active
      <3>3. CASE rows[i].team # t
        <4>1. rows'[i] # rows[i]
          BY <3>1, <3>3
        <4>2. ~(rows[i].team \in Teams)
          BY <2>2, <3>1, <3>3 DEF RowsStay
        <4>3. rows'[i].team = c.team /\ rows'[i].role = c.role
          BY <1>4, <2>2, <3>1, <4>1, <4>2, RowsWritten
        <4> QED
          BY <3>1, <4>3 DEF Appointing, Appoints
      <3> QED
        BY <3>2, <3>3
    <2> QED
      BY <2>3, <2>4, <2>5 DEF Quiet
  <1> QED
    BY <1>2, <1>3, <1>4 DEF Acts
\* Others leave a succession in hand.
LEMMA HandStands ==
  ASSUME Base, NEW c \in Ctx, NEW t \in Teams, Operands(c, rows), c.team = t, c.pc # "idle",
         Quiet(t), Hand(c, t)
  PROVE  Hand(c, t)'
  <1>1. /\ leader'[t] = leader[t]
        /\ Leaders(t)' \subseteq Leaders(t)
        /\ \A i \in Ids : rows[i].team = t =>
              /\ rows'[i].person = rows[i].person
              /\ rows'[i].role = "LEADER" => rows[i].role = "LEADER"
    BY DEF Quiet
  <1>2. \A i \in Leaders(t) : i \in Ids /\ rows[i].team = t
    BY DEF Leaders, WithRole, Active
  <1>3. NamedIn(t)' = NamedIn(t)
    BY <1>1 DEF NamedIn
  <1>4. AllNamed(t) => AllNamed(t)'
    BY <1>1, <1>2, <1>3 DEF AllNamed
  <1>5. AtMostOne(Leaders(t)) => AtMostOne(Leaders(t)')
    BY <1>1 DEF AtMostOne
  <1>6. c.other # NoId => c.other \in Ids /\ rows[c.other].team = t
    BY DEF Operands, Ctx
  <1>7. c.op # "add" => c.id \in Ids /\ rows[c.id].team = t
    BY DEF Operands
  <1>8. ASSUME Departs(c), HandsOver(c, t) PROVE HandsOver(c, t)'
    BY <1>1, <1>3, <1>6, <1>7, <1>8 DEF HandsOver, Departs
  <1>9. ASSUME TakesOver(c, t) PROVE TakesOver(c, t)'
    <2>1. c.pc = "roleSave" => c.other # NoId
      BY DEF Operands, OfRole
    <2> QED
      BY <1>1, <1>3, <1>4, <1>5, <1>6, <1>7, <1>9, <2>1 DEF TakesOver
  <1> QED
    BY <1>1, <1>8, <1>9 DEF Hand

\* The team's own call when nothing of it was written.
LEMMA SameLeaders ==
  ASSUME NEW t, UNCHANGED <<rows, leader>>
  PROVE  /\ Leaders(t)' = Leaders(t) /\ NamedIn(t)' = NamedIn(t)
         /\ AllNamed(t)' = AllNamed(t) /\ InHand(t)' = InHand(t)
  BY DEF Leaders, WithRole, Active, NamedIn, AllNamed, InHand, AtMostOne

\* A call that names somebody in the team's row has done so after its save.
LEMMA PersonNamed ==
  ASSUME Base, NEW p \in Procs, TeamSave(p), NEW c, c = ctx[p], NEW t, t = c.team,
         c.seenLead = leader[t]
  PROVE  c.person \in NamedIn(t)'
  <1> DEFINE saved == Names(c.lead, c.seenLead, c.person)
  <1>1. /\ leader'[t].user = Written(c.seenLead.user, saved.user, leader[t].user)
        /\ leader'[t].citizen = Written(c.seenLead.citizen, saved.citizen, leader[t].citizen)
        /\ c.person \in Users => saved.user = c.person
        /\ c.person \notin Users => saved.citizen = c.person
    BY LeaderSaved
  <1> HIDE DEF saved
  <1>2. leader'[t].user = saved.user /\ leader'[t].citizen = saved.citizen
    BY <1>1 DEF Written
  <1> QED
    BY <1>1, <1>2 DEF NamedIn

\* A departure goes on.
LEMMA HandsOverOn ==
  ASSUME Base, NEW p \in Procs, Step(p) \/ Fails(p), NEW c \in Ctx, c = ctx[p],
         NEW d \in Ctx, d = ctx'[p], NEW t \in Teams, t = c.team, Appoints(c), Departs(c),
         Hand(c, t), Step(p) \/ t \notin HalfDone(p)
  PROVE  IF d = Idle THEN InHand(t)' ELSE Hand(d, t)'
  <1>1. Effect(p, c, d) /\ Operands(c, rows) /\ c.pc # "idle"
        /\ (d = Idle \/ (d.op = c.op /\ d.team = t /\ d.id = c.id /\ d.role = c.role))
    BY StepEffect DEF Base, KeepsOperands
  <1>2. c.id \in Ids /\ rows[c.id].team = t
    BY <1>1 DEF Operands, Departs
  <1>3. c.other # NoId => c.other \in Ids /\ rows[c.other].team = t
    BY <1>1 DEF Operands, Ctx
  <1>4. HandsOver(c, t) /\ c.op # "role" /\ c.op # "add" /\ c.pc \notin {"findLeader"} \cup OfOwn
    BY <1>1 DEF Hand, Operands, OfOwn, Departs
  <1>5. d # Idle => Departs(d)
    BY <1>1 DEF Departs
  <1>6. UNCHANGED <<rows, leader>> =>
           Leaders(t)' = Leaders(t) /\ NamedIn(t)' = NamedIn(t) /\ InHand(t)' = InHand(t)
    BY SameLeaders
  <1>7. ASSUME HandsOver(d, t)', d.pc # "teamSave", d # Idle
        PROVE  IF d = Idle THEN InHand(t)' ELSE Hand(d, t)'
    BY <1>5, <1>7 DEF Hand
  <1>8. ASSUME Leaders(t) \subseteq {c.id}, rows[c.id].person \in NamedIn(t) PROVE InHand(t)
    BY <1>8 DEF InHand, AtMostOne, AllNamed
  <1>9. ASSUME d.pc # "idle" PROVE d # Idle
    BY <1>9, IdleTyped
  <1> USE DEF OfRole, OfTeam
  <1>10. CASE ~Step(p) /\ d = Idle /\ UNCHANGED <<rows, leader>>
    <2>1. ~(c.other # NoId /\ c.pc \in {"teamRead", "teamSelect", "teamSave", "finish"})
      BY <1>10 DEF HalfDone, Departs
    <2>2. Leaders(t) \subseteq {c.id} /\ rows[c.id].person \in NamedIn(t)
      BY <1>1, <1>4, <2>1 DEF HandsOver, Ctx, Steps, OfOwn
    <2> QED
      BY <1>6, <1>8, <1>10, <2>2
  <1>11. CASE c.pc = "count"
    <2>1. UNCHANGED <<rows, leader>>
      BY <1>1, <1>11 DEF Effect, Fails
    <2>2. Leaders(t) \subseteq {c.id} /\ rows[c.id].person \in NamedIn(t) /\ c.other = NoId
      BY <1>4, <1>11 DEF HandsOver
    <2>3. CASE d = Idle
      BY <1>6, <1>8, <2>1, <2>2, <2>3
    <2>4. CASE d # Idle
      <3>1. d.pc \in {"findDeputy", "finish"} /\ d.other = NoId /\ d.id = c.id
        BY <1>1, <1>11, <2>2, <2>4 DEF Effect
      <3> QED
        BY <1>6, <1>7, <2>1, <2>2, <2>4, <3>1 DEF HandsOver
    <2> QED
      BY <2>3, <2>4
  <1>12. CASE c.pc = "findDeputy" /\ d # Idle
    <2>1. UNCHANGED <<rows, leader>> /\ d.id = c.id
      BY <1>1, <1>12 DEF Effect, Fails
    <2>2. Leaders(t) \subseteq {c.id} /\ rows[c.id].person \in NamedIn(t) /\ c.other = NoId
      BY <1>4, <1>12 DEF HandsOver
    <2>3. CASE d.pc = "finish" /\ d.other = c.other
      BY <1>6, <1>7, <1>12, <2>1, <2>2, <2>3 DEF HandsOver
    <2>4. CASE d.pc = "roleRead" /\ d.other \in Deputies(t) /\ d.person = rows[d.other].person
      <3>1. d.other # NoId
        BY <2>4, MembershipAssumption DEF Deputies, WithRole, Active
      <3> QED
        BY <1>6, <1>7, <1>12, <2>1, <2>2, <2>4, <3>1 DEF HandsOver
    <2> QED
      BY <1>1, <1>12, <2>3, <2>4 DEF Effect
  <1>13. CASE c.pc \in {"roleRead", "roleSelect"} /\ d # Idle
    <2>1. /\ UNCHANGED <<rows, leader>> /\ d.id = c.id
          /\ d.pc \in {"roleSelect", "roleSave"} /\ d.other = c.other /\ d.person = c.person
      BY <1>1, <1>13 DEF Effect
    <2> QED
      BY <1>4, <1>6, <1>7, <1>13, <2>1 DEF HandsOver
  <1>14. CASE c.pc = "roleSave" /\ d # Idle
    <2>1. /\ leader' = leader /\ SaveRow(c, c.other) /\ d.id = c.id
          /\ d.pc = "teamRead" /\ d.other = c.other /\ d.person = c.person
      BY <1>1, <1>14 DEF Effect
    <2>2. /\ Leaders(t) \subseteq {c.id} /\ rows[c.id].person \in NamedIn(t)
          /\ c.other # NoId /\ rows[c.other].person = c.person
      BY <1>4, <1>14 DEF HandsOver
    <2>3. /\ \A j \in Ids \ {c.other} : rows'[j] = rows[j]
          /\ rows'[c.other].person = rows[c.other].person
      BY <1>3, <2>1, <2>2, RowSaved
    <2>4. Leaders(t)' \subseteq {c.id, c.other}
      BY <2>2, <2>3 DEF Leaders, WithRole, Active
    <2>5. rows'[c.id].person = rows[c.id].person
      BY <1>2, <2>3
    <2>6. NamedIn(t)' = NamedIn(t)
      BY <2>1 DEF NamedIn
    <2> QED
      BY <1>7, <1>14, <2>1, <2>2, <2>3, <2>4, <2>5, <2>6 DEF HandsOver
  <1>15. CASE c.pc \in {"teamRead", "teamSelect"} /\ d # Idle
    <2>1. /\ UNCHANGED <<rows, leader>> /\ d.id = c.id
          /\ d.pc \in {"teamSelect", "teamSave"} /\ d.other = c.other /\ d.person = c.person
          /\ d.pc = "teamSave" => d.seenLead = leader[t]
      BY <1>1, <1>15 DEF Effect
    <2>2. HandsOver(d, t)'
      BY <1>4, <1>6, <1>15, <2>1 DEF HandsOver
    <2>3. d.pc = "teamSave" => d.seenLead = leader'[t]
      BY <2>1
    <2> QED
      BY <1>5, <1>15, <2>2, <2>3 DEF Hand
  <1>16. CASE c.pc = "teamSave" /\ d # Idle
    <2>1. /\ TeamSave(p) /\ rows' = rows /\ d.id = c.id
          /\ d.pc = "finish" /\ d.other = c.other /\ d.person = c.person
      BY <1>1, <1>16 DEF Effect
    <2>2. Leaders(t) \subseteq {c.id, c.other} /\ c.other # NoId
          /\ rows[c.other].person = c.person /\ c.seenLead = leader[t]
      BY <1>4, <1>16 DEF HandsOver, Hand
    <2>3. c.person \in NamedIn(t)'
      BY <2>1, <2>2, PersonNamed
    <2>4. Leaders(t)' = Leaders(t)
      BY <2>1 DEF Leaders, WithRole, Active
    <2> QED
      BY <1>7, <1>16, <2>1, <2>2, <2>3, <2>4 DEF HandsOver
  <1>17. CASE c.pc = "finish" /\ SoftDelete(p) /\ d = Idle /\ leader' = leader
    <2>1. /\ \A j \in Ids \ {c.id} : rows'[j] = rows[j]
          /\ ~rows'[c.id].active
      BY <1>17, RowDeleted
    <2>2. Leaders(t)' \subseteq Leaders(t) \ {c.id}
      BY <2>1 DEF Leaders, WithRole, Active
    <2>3. NamedIn(t)' = NamedIn(t)
      BY <1>17 DEF NamedIn
    <2>4. CASE c.other = NoId
      <3>1. Leaders(t)' = {}
        BY <1>4, <1>17, <2>2, <2>4 DEF HandsOver
      <3> QED
        BY <1>17, <3>1 DEF InHand, AtMostOne, AllNamed
    <2>5. CASE c.other # NoId
      <3>1. Leaders(t) \subseteq {c.id, c.other} /\ rows[c.other].person \in NamedIn(t)
        BY <1>4, <1>17, <2>5 DEF HandsOver
      <3>2. \A i \in Leaders(t)' : i = c.other /\ rows'[i].person \in NamedIn(t)'
        BY <1>3, <2>1, <2>2, <2>3, <2>5, <3>1
      <3> QED
        BY <1>17, <3>2 DEF InHand, AtMostOne, AllNamed
    <2> QED
      BY <2>4, <2>5
  <1>18. d = Idle => (~Step(p) /\ UNCHANGED <<rows, leader>>) \/ c.pc \in {"count", "finish"}
    BY <1>1, <1>4, IdleTyped DEF Effect, OfOwn
  <1>19. c.pc = "finish" => (~Step(p) /\ UNCHANGED <<rows, leader>> /\ d = Idle)
                            \/ (SoftDelete(p) /\ d = Idle /\ leader' = leader)
    BY <1>1, <1>4 DEF Effect
  <1>20. c.pc \in {"count", "findDeputy", "finish"} \cup OfRole \cup OfTeam
    BY <1>1, <1>4 DEF Ctx, Steps, OfOwn
  <1> QED
    BY <1>10, <1>11, <1>12, <1>13, <1>14, <1>15, <1>16, <1>17, <1>18, <1>19, <1>20
\* An appointment goes on.
LEMMA TakesOverOn ==
  ASSUME Base, NEW p \in Procs, Step(p) \/ Fails(p), NEW c \in Ctx, c = ctx[p],
         NEW d \in Ctx, d = ctx'[p], NEW t \in Teams, t = c.team, Appoints(c), ~Departs(c),
         Hand(c, t)
  PROVE  IF d = Idle THEN InHand(t)' ELSE Hand(d, t)'
  <1>1. Effect(p, c, d) /\ Operands(c, rows) /\ c.pc # "idle"
        /\ (d = Idle \/ (d.op = c.op /\ d.team = t /\ d.id = c.id /\ d.role = c.role))
    BY StepEffect DEF Base, KeepsOperands
  <1>2. c.op = "role" => c.id \in Ids /\ rows[c.id].team = t
    BY <1>1 DEF Operands
  <1>3. c.pc \in OfRole => c.other \in Ids /\ rows[c.other].team = t /\ rows[c.other] \in Row
    BY <1>1 DEF Operands, Ctx, Base, TypeOK
  <1>4. TakesOver(c, t) /\ c.pc \notin {"count", "findDeputy"}
    BY <1>1 DEF Hand, Operands
  <1>5. d # Idle => ~Departs(d)
    BY <1>1 DEF Departs
  <1>6. UNCHANGED <<rows, leader>> =>
           /\ Leaders(t)' = Leaders(t) /\ NamedIn(t)' = NamedIn(t)
           /\ AllNamed(t)' = AllNamed(t) /\ InHand(t)' = InHand(t)
    BY SameLeaders
  <1>7. ASSUME TakesOver(d, t)', d.pc # "teamSave", d # Idle
        PROVE  IF d = Idle THEN InHand(t)' ELSE Hand(d, t)'
    BY <1>5, <1>7 DEF Hand
  <1>8. RowsStay
    BY StepFrame
  <1>9. c.op = "role" => rows'[c.id].person = c.person /\ rows[c.id].person = c.person
    BY <1>2, <1>4, <1>8 DEF TakesOver, RowsStay
  <1> USE DEF OfRole, OfTeam, OfOwn
  <1>10. CASE Fails(p) /\ d = Idle /\ UNCHANGED <<rows, leader>>
    <2>1. CASE c.pc = "findLeader"
      BY <1>4, <1>6, <1>10, <2>1 DEF TakesOver, InHand
    <2>2. CASE c.pc \in OfRole
      BY <1>4, <1>6, <1>10, <2>2 DEF TakesOver, InHand, AtMostOne
    <2>3. CASE c.pc \in OfTeam \cup {"finish"} \cup OfOwn
      BY <1>4, <1>6, <1>10, <2>3 DEF TakesOver, InHand, AtMostOne, AllNamed
    <2> QED
      BY <1>1, <1>4, <2>1, <2>2, <2>3 DEF Ctx, Steps
  <1>11. CASE c.pc = "findLeader" /\ d # Idle
    <2>1. UNCHANGED <<rows, leader>> /\ d.id = c.id /\ d.op = c.op /\ d.person = c.person
      BY <1>1, <1>11 DEF Effect
    <2>2. AtMostOne(Leaders(t)) /\ AllNamed(t)
      BY <1>4, <1>11 DEF TakesOver
    <2>3. CASE Leaders(t) = {} /\ d.pc = "teamRead"
      BY <1>6, <1>7, <1>9, <1>11, <2>1, <2>3 DEF TakesOver
    <2>4. CASE d.other \in Leaders(t) /\ d.pc = "roleRead"
      <3>1. Leaders(t) \subseteq {d.other}
        BY <2>2, <2>4 DEF AtMostOne
      <3> QED
        BY <1>6, <1>7, <1>9, <1>11, <2>1, <2>2, <2>4, <3>1 DEF TakesOver
    <2> QED
      BY <1>1, <1>11, <2>3, <2>4 DEF Effect
  <1>12. CASE c.pc = "roleRead" /\ d # Idle
    <2>1. /\ UNCHANGED <<rows, leader>> /\ d.id = c.id /\ d.op = c.op
          /\ d.pc = "roleSelect" /\ d.other = c.other /\ d.person = c.person
      BY <1>1, <1>12 DEF Effect
    <2>2. d.row = [rows[c.other] EXCEPT !.role = "MEMBER"]
      BY <1>1, <1>12 DEF Effect
    <2>3. d.row.role = "MEMBER"
      BY <1>3, <1>12, <2>2 DEF Row
    <2> QED
      BY <1>4, <1>6, <1>7, <1>9, <1>12, <2>1, <2>3 DEF TakesOver
  <1>13. CASE c.pc = "roleSelect" /\ d # Idle
    <2>1. /\ UNCHANGED <<rows, leader>> /\ d.id = c.id /\ d.op = c.op
          /\ d.pc = "roleSave" /\ d.other = c.other /\ d.person = c.person
          /\ d.row = c.row /\ d.seen = rows[c.other]
      BY <1>1, <1>13 DEF Effect
    <2> QED
      BY <1>4, <1>6, <1>7, <1>9, <1>13, <2>1 DEF TakesOver
  <1>14. CASE c.pc = "roleSave" /\ d # Idle
    <2>1. /\ leader' = leader /\ SaveRow(c, c.other) /\ d.id = c.id /\ d.op = c.op
          /\ d.pc = "teamRead" /\ d.other = c.other /\ d.person = c.person
      BY <1>1, <1>14 DEF Effect
    <2>2. /\ Leaders(t) \subseteq {c.other} /\ c.row.role = "MEMBER"
          /\ c.seen.role = "MEMBER" => rows[c.other].role # "LEADER"
      BY <1>4, <1>14 DEF TakesOver
    <2>3. /\ \A j \in Ids \ {c.other} : rows'[j] = rows[j]
          /\ rows'[c.other].role = Written(c.seen.role, c.row.role, rows[c.other].role)
      BY <1>3, <1>14, <2>1, RowSaved
    <2>4. rows'[c.other].role # "LEADER"
      BY <2>2, <2>3 DEF Written
    <2>5. Leaders(t)' = {}
      BY <2>2, <2>3, <2>4 DEF Leaders, WithRole, Active
    <2> QED
      BY <1>7, <1>9, <1>14, <2>1, <2>5 DEF TakesOver
  <1>15. CASE c.pc \in {"teamRead", "teamSelect"} /\ d # Idle
    <2>1. /\ UNCHANGED <<rows, leader>> /\ d.id = c.id /\ d.op = c.op
          /\ d.pc \in {"teamSelect", "teamSave"} /\ d.person = c.person
          /\ d.pc = "teamSave" => d.seenLead = leader[t]
      BY <1>1, <1>15 DEF Effect
    <2>2. TakesOver(d, t)'
      BY <1>4, <1>6, <1>9, <1>15, <2>1 DEF TakesOver
    <2>3. d.pc = "teamSave" => d.seenLead = leader'[t]
      BY <2>1
    <2> QED
      BY <1>5, <1>15, <2>2, <2>3 DEF Hand
  <1>16. CASE c.pc = "teamSave" /\ d # Idle
    <2>1. /\ TeamSave(p) /\ rows' = rows /\ d.id = c.id /\ d.op = c.op
          /\ d.pc = "finish" /\ d.person = c.person
      BY <1>1, <1>16 DEF Effect
    <2>2. Leaders(t) = {} /\ c.seenLead = leader[t]
      BY <1>4, <1>16 DEF TakesOver, Hand
    <2>3. c.person \in NamedIn(t)'
      BY <2>1, <2>2, PersonNamed
    <2>4. Leaders(t)' = Leaders(t)
      BY <2>1 DEF Leaders, WithRole, Active
    <2> QED
      BY <1>7, <1>9, <1>16, <2>1, <2>2, <2>3, <2>4 DEF TakesOver
  <1>17. CASE c.pc = "finish" /\ CreateRow(p) /\ d = Idle /\ leader' = leader
    <2>1. PICK i \in Ids : /\ \A j \in Ids \ {i} : rows'[j] = rows[j]
                           /\ rows'[i].person = c.person
      BY <1>17, RowCreated
    <2>2. Leaders(t) = {} /\ c.person \in NamedIn(t)
      BY <1>4, <1>17 DEF TakesOver
    <2>3. Leaders(t)' \subseteq {i}
      BY <2>1, <2>2 DEF Leaders, WithRole, Active
    <2>4. NamedIn(t)' = NamedIn(t)
      BY <1>17 DEF NamedIn
    <2> QED
      BY <1>17, <2>1, <2>2, <2>3, <2>4 DEF InHand, AtMostOne, AllNamed
  <1>18. CASE c.pc \in {"finish", "ownSelect"} /\ c.op = "role" /\ d # Idle
    <2>1. /\ UNCHANGED <<rows, leader>> /\ d.id = c.id /\ d.op = c.op
          /\ d.pc \in OfOwn /\ d.person = c.person
      BY <1>1, <1>4, <1>18 DEF Effect, Departs
    <2> QED
      BY <1>4, <1>6, <1>7, <1>9, <1>18, <2>1 DEF TakesOver
  <1>19. CASE c.pc = "ownSave" /\ d = Idle /\ leader' = leader /\ SaveRow(c, c.id)
    <2>1. c.op = "role"
      BY <1>1, <1>19 DEF Operands
    <2>2. \A j \in Ids \ {c.id} : rows'[j] = rows[j]
      BY <1>2, <1>19, <2>1, RowSaved
    <2>3. Leaders(t) = {} /\ c.person \in NamedIn(t)
      BY <1>4, <1>19 DEF TakesOver
    <2>4. Leaders(t)' \subseteq {c.id}
      BY <2>2, <2>3 DEF Leaders, WithRole, Active
    <2>5. NamedIn(t)' = NamedIn(t)
      BY <1>19 DEF NamedIn
    <2> QED
      BY <1>9, <1>19, <2>1, <2>3, <2>4, <2>5 DEF InHand, AtMostOne, AllNamed
  <1>20. \/ Fails(p) /\ d = Idle /\ UNCHANGED <<rows, leader>>
         \/ d # Idle /\ c.pc \in {"findLeader"} \cup OfRole \cup OfTeam
         \/ c.pc = "finish" /\ CreateRow(p) /\ d = Idle /\ leader' = leader
         \/ c.pc \in {"finish", "ownSelect"} /\ c.op = "role" /\ d # Idle
         \/ c.pc = "ownSave" /\ d = Idle /\ leader' = leader /\ SaveRow(c, c.id)
    <2>1. c.pc = "ownSelect" => c.op = "role"
      BY <1>1 DEF Operands
    <2> QED
      BY <1>1, <1>4, <2>1, IdleTyped DEF Effect
  <1> QED
    BY <1>10, <1>11, <1>12, <1>13, <1>14, <1>15, <1>16, <1>17, <1>18, <1>19, <1>20

\* A call begins to appoint, and no other is at it.
LEMMA HandBegins ==
  ASSUME Base, NEW p \in Procs, Call(p), NEW t \in Teams, Appointing(p, t)', InHand(t),
         t \notin Overlaps(p), NEW d \in Ctx, d = ctx'[p]
  PROVE  Hand(d, t)'
  <1>1. /\ UNCHANGED <<rows, leader>> /\ d.other = NoId /\ d.team = t /\ d.role = "LEADER"
        /\ Departs(d) => /\ d.pc = "count" /\ rows[d.id].role = "LEADER"
                         /\ d.op = "leave" => rows[d.id].active
        /\ ~Departs(d) => d.pc = "findLeader"
        /\ d.op # "add" => d.id \in Ids /\ rows[d.id].team = t
        /\ d.op = "role" => d.person = rows[d.id].person
    BY CallBegins DEF Begins, Appointing, Appoints
  <1>2. /\ Leaders(t)' = Leaders(t) /\ NamedIn(t)' = NamedIn(t)
        /\ AllNamed(t)' = AllNamed(t) /\ InHand(t)' = InHand(t)
    BY <1>1, SameLeaders
  <1>3. CASE Departs(d)
    <2>1. rows[d.id].active
      BY <1>1, <1>3 DEF Overlaps, Appoints, Departs
    <2>2. d.id \in Leaders(t)
      BY <1>1, <1>3, <2>1 DEF Leaders, WithRole, Active, Departs
    <2>3. Leaders(t) \subseteq {d.id} /\ rows[d.id].person \in NamedIn(t)
      BY <2>2 DEF InHand, AtMostOne, AllNamed
    <2>4. HandsOver(d, t)'
      BY <1>1, <1>2, <1>3, <2>3 DEF HandsOver, OfRole, OfTeam
    <2> QED
      BY <1>1, <1>3, <2>4 DEF Hand
  <1>4. CASE ~Departs(d)
    <2>1. TakesOver(d, t)'
      BY <1>1, <1>2, <1>4 DEF TakesOver, InHand, OfRole, OfTeam, OfOwn
    <2> QED
      BY <1>1, <1>4, <2>1 DEF Hand
  <1> QED
    BY <1>3, <1>4
\* What is in hand after a step is so for the call as it is after the step.
LEMMA HandMoves ==
  ASSUME NEW q, NEW t, NEW d, d = ctx'[q], Hand(d, t)'
  PROVE  HandOf(q, t)'
  BY DEF HandOf, Hand, HandsOver, TakesOver, Departs, AllNamed, AtMostOne, NamedIn, Leaders,
         WithRole, Active

\* A call's own step, in a team that it appoints in.
LEMMA LedByOwn ==
  ASSUME Base, NEW p \in Procs, Acts(p), NEW t \in Teams, Led(t), Appointing(p, t),
         \A q \in Procs \ {p} : ctx'[q] = ctx[q],
         Step(p) \/ t \notin HalfDone(p)
  PROVE  Led(t)'
  <1> SUFFICES ASSUME NEW c \in Ctx, c = ctx[p], NEW d \in Ctx, d = ctx'[p] PROVE Led(t)'
    BY CallBegins, StepEffect DEF Base, TypeOK, Begins, KeepsOperands, Acts
  <1>1. Step(p) \/ Fails(p)
    BY CallBegins, IdleTyped DEF Acts, Begins, Appointing, Appoints
  <1>2. t = c.team /\ Appoints(c) /\ Hand(c, t)
    BY DEF Appointing, Led, HandOf
  <1>3. IF d = Idle THEN InHand(t)' ELSE Hand(d, t)'
    BY <1>1, <1>2, HandsOverOn, TakesOverOn
  <1>4. d = Idle \/ (d.team = c.team /\ d.role = c.role)
    BY <1>1, StepEffect DEF KeepsOperands
  <1>5. \A q \in Procs \ {p} : ~Appointing(q, t)'
    BY DEF Led, Appointing
  <1>6. CASE d = Idle
    <2>1. ~Appointing(p, t)'
      BY <1>6, IdleTyped DEF Appointing, Appoints
    <2> QED
      BY <1>3, <1>5, <1>6, <2>1 DEF Led
  <1>7. CASE d # Idle
    <2>1. Appointing(p, t)'
      BY <1>2, <1>4, <1>7 DEF Appointing, Appoints
    <2>2. HandOf(p, t)'
      BY <1>3, <1>7, HandMoves
    <2> QED
      BY <1>5, <2>1, <2>2 DEF Led
  <1> QED
    BY <1>6, <1>7

\* A call begins to appoint in a team.
LEMMA LedByNew ==
  ASSUME Base, NEW p \in Procs, Call(p), NEW t \in Teams, Led(t), Appointing(p, t)',
         \A q \in Procs \ {p} : ctx'[q] = ctx[q], t \notin Overlaps(p)
  PROVE  Led(t)'
  <1>1. ~Appointing(p, t)
    BY CallBegins, IdleTyped DEF Begins, Appointing, Appoints
  <1>2. \A q \in Procs \ {p} : ~Appointing(q, t)
    BY DEF Appointing, Appoints, Overlaps
  <1>3. InHand(t)
    BY <1>1, <1>2 DEF Led
  <1>4. \A q \in Procs \ {p} : ~Appointing(q, t)'
    BY <1>2 DEF Appointing
  <1>5. SUFFICES ASSUME NEW d \in Ctx, d = ctx'[p] PROVE Led(t)'
    BY CallBegins DEF Begins
  <1>6. HandOf(p, t)'
    BY <1>3, <1>5, HandBegins, HandMoves
  <1> QED
    BY <1>4, <1>6 DEF Led

\* A step that has nothing to do with who leads the team.
LEMMA LedByOthers ==
  ASSUME Base, NEW p \in Procs, NEW t \in Teams, Led(t), Quiet(t),
         ~Appointing(p, t), ~Appointing(p, t)',
         \A q \in Procs \ {p} : ctx'[q] = ctx[q]
  PROVE  Led(t)'
  <1>1. \A q \in Procs : Appointing(q, t)' <=> Appointing(q, t)
    BY DEF Appointing
  <1>2. InHand(t) => InHand(t)'
    <2>1. \A i \in Leaders(t) : i \in Ids /\ rows[i].team = t
      BY DEF Leaders, WithRole, Active
    <2>2. NamedIn(t)' = NamedIn(t)
      BY DEF Quiet, NamedIn
    <2> QED
      BY <2>1, <2>2 DEF InHand, AtMostOne, AllNamed, Quiet
  <1>3. ASSUME NEW q \in Procs, Appointing(q, t) PROVE HandOf(q, t)'
    <2>1. SUFFICES ASSUME NEW c \in Ctx, c = ctx[q] PROVE HandOf(q, t)'
      BY DEF Base, TypeOK
    <2>2. ctx'[q] = c /\ Operands(c, rows) /\ c.team = t /\ Hand(c, t)
      BY <1>3, <2>1 DEF Base, Appointing, Led, HandOf
    <2>3. c.pc # "idle"
      BY <1>3, <2>1, <2>2, IdleTyped DEF Appointing, Appoints, Operands
    <2>4. Hand(c, t)'
      BY <2>2, <2>3, HandStands
    <2> QED
      BY <2>2, <2>4, HandMoves
  <1> QED
    BY <1>1, <1>2, <1>3 DEF Led

LEMMA LeadStep ==
  ASSUME Base, LeadInv, Next PROVE LeadInv'
  <1>1. PICK p \in Procs, S \in SUBSET Teams :
           /\ Acts(p) /\ Remember(p, S)
           /\ \/ Call(p) /\ S = Overlaps(p)
              \/ Step(p) /\ S = LetsBackIn(p)
              \/ Fails(p) /\ S = HalfDone(p)
    BY DEF Next, Acts, Overlaps, LetsBackIn, HalfDone
  <1>2. \A q \in Procs \ {p} : ctx'[q] = ctx[q]
    BY <1>1, BaseStep
  <1>3. ASSUME NEW q \in Procs PROVE Manner(ctx'[q])
    BY <1>1, <1>2, MannerKept DEF LeadInv
  <1>4. ASSUME NEW t \in Teams, t \notin disturbed' PROVE Led(t)'
    <2>1. t \notin disturbed /\ t \notin S /\ Led(t)
      BY <1>1, <1>4 DEF Remember, LeadInv
    <2>2. CASE Call(p) /\ S = Overlaps(p)
      <3>1. ~Appointing(p, t)
        BY <2>2, CallBegins, IdleTyped DEF Begins, Appointing, Appoints
      <3>2. Quiet(t)
        BY <2>2, CallBegins, SameLeaders DEF Begins, Quiet
      <3> QED
        BY <1>2, <2>1, <2>2, <3>1, <3>2, LedByNew, LedByOthers
    <2>3. CASE (Step(p) /\ S = LetsBackIn(p)) \/ (Fails(p) /\ S = HalfDone(p))
      <3>1. CASE Appointing(p, t) /\ Fails(p) /\ S = HalfDone(p)
        BY <1>1, <1>2, <2>1, <3>1, LedByOwn
      <3>2. CASE Appointing(p, t) /\ Step(p) /\ S = LetsBackIn(p)
        BY <1>1, <1>2, <2>1, <3>2, LedByOwn
      <3>3. CASE ~Appointing(p, t)
        <4>1. ~Appointing(p, t)'
          BY <2>3, <3>3, StepEffect, IdleTyped DEF KeepsOperands, Appointing, Appoints
        <4>2. Quiet(t)
          BY <1>1, <2>1, <2>3, <3>3, OthersQuiet DEF LeadInv
        <4> QED
          BY <1>2, <2>1, <3>3, <4>1, <4>2, LedByOthers
      <3> QED
        BY <2>3, <3>1, <3>2, <3>3
    <2> QED
      BY <1>1, <2>2, <2>3
  <1> QED
    BY <1>3, <1>4 DEF LeadInv

LEMMA LeadInit == Init => LeadInv
  <1> SUFFICES ASSUME Init PROVE LeadInv
    OBVIOUS
  <1>1. ASSUME NEW p \in Procs PROVE Manner(ctx[p]) /\ \A t \in Teams : ~Appointing(p, t)
    BY IdleTyped DEF Init, Manner, Appointing, Appoints, OfOwn
  <1>2. ASSUME NEW t \in Teams PROVE Leaders(t) = {}
    BY DEF Init, Leaders, WithRole, Active, Unused
  <1> QED
    BY <1>1, <1>2 DEF LeadInv, Led, InHand, AtMostOne, AllNamed

LEMMA LeadAlways == Spec => []LeadInv
  <1>1. ASSUME Base, LeadInv, [Next]_vars PROVE LeadInv'
    <2>1. CASE UNCHANGED vars
      BY <1>1, <2>1 DEF vars, LeadInv, Manner, Led, Appointing, HandOf, Hand, HandsOver,
         TakesOver, InHand, AllNamed, NamedIn, Leaders, WithRole, Active
    <2> QED
      BY <1>1, <2>1, LeadStep
  <1>2. Spec => []Base
    BY BaseInit, BaseNext, PTL DEF Spec
  <1> QED
    BY <1>1, <1>2, LeadInit, PTL DEF Spec

LEMMA SettledIsNone ==
  ASSUME NEW t \in Teams, Settled(t) PROVE \A p \in Procs : ~Appointing(p, t)
  BY DEF Settled, Appointing

\* T8.  Between the calls that give a team its leader or take it away, no team
\* has two leaders, whatever the others save of its rows meanwhile, unless two
\* such calls overlapped, one broke off half way, a leader of before was
\* removed or a stale save brought one back.
THEOREM NeverTwoLeaders == Spec => []OneLeader
  <1>1. LeadInv => OneLeader
    <2>1. ASSUME LeadInv, NEW t \in Teams \ disturbed, Settled(t)
          PROVE  Cardinality(Leaders(t)) <= 1
      BY <2>1, SettledIsNone, AtMostOneCounted DEF LeadInv, Led, InHand
    <2> QED
      BY <2>1 DEF OneLeader
  <1> QED
    BY <1>1, LeadAlways, PTL

\* T10.  Nor does any team have a leader whom its row does not name, with the
\* member's row and the team's saved apart and neither of them locked.
THEOREM TheLeaderIsNamed == Spec => []LeaderIsNamed
  <1>1. LeadInv => LeaderIsNamed
    BY SettledIsNone DEF LeadInv, Led, InHand, AllNamed, NamedIn, LeaderIsNamed
  <1> QED
    BY <1>1, LeadAlways, PTL
=============================================================================
