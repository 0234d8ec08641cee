------------------------------ MODULE Timeline ------------------------------
(* GET /sos-requests/:id/timeline: the story of one request, told from the *)
(* rows of sos_status_history that there are. A row is written beside the  *)
(* operation it is about, and an error of that INSERT is logged only: any  *)
(* row may be missing. What is missing is told from the request itself.    *)
(* Left out: requests made from a flood request, whose rows share the      *)
(* timestamp of one transaction and come in any order; operations that     *)
(* write over what another wrote since they read the request.              *)
(*                                                                         *)
(* A life is the operations on a request, one after the other. Operation i *)
(* begins at time 4i; the timestamps it leaves are at most three later.    *)
EXTENDS Naturals, Sequences, FiniteSets, SequencesExt

CONSTANTS Crews,     \* teams a request may be given to
          MaxOps     \* bound: operations after the request was made

ASSUME TimelineAssumption == Crews # {} /\ MaxOps \in Nat

NoOne == "none"

VARIABLE life   \* the operations on the request so far

Unborn == life = <<>>

-----------------------------------------------------------------------------
(* What the operations write.                                              *)

Op(name, arg) == [name |-> name, arg |-> arg]
Assigns == {"dispatch", "handoff", "assign"}
Unasked == {"dispatch", "queue", "fallback", "handoff"}
Ops == {Op("fallback", NoOne), Op("resolve", NoOne), Op("cancel", NoOne)}
       \cup {Op("update", s) : s \in {"ON_SITE", "DISPATCHED", "PENDING_SPECIALIST", "CANCELLED"}}
       \cup {Op(a, t) : a \in Assigns \cup {"queue"}, t \in Crews}

StatusAfter(o) ==
    CASE o.name = "update" -> o.arg
      [] o.name \in Assigns -> "DISPATCHED"
      [] o.name = "fallback" -> "PENDING_SPECIALIST"
      [] o.name = "resolve" -> "RESOLVED"
      [] o.name = "cancel" -> "CANCELLED"
      [] OTHER -> "PENDING"

\* One operation after the other. The calls of a user refuse a closed request; what
\* dispatching does by itself, for a copy read before or from a team's queue, opens it
\* again.
OperationDone ==
    \/ Unborn /\ life' = <<Op("create", NoOne)>>
    \/ /\ ~Unborn /\ Len(life) <= MaxOps
       /\ \E o \in Ops :
            /\ StatusAfter(Last(life)) \in {"RESOLVED", "CANCELLED"} => o.name \in Unasked
            /\ life' = Append(life, o)

Row(event, o, time) == [event |-> event, to |-> StatusAfter(o), time |-> time,
                        team |-> IF o.arg \in Crews THEN o.arg ELSE NoOne]

\* In a transaction the timestamp of a row is that of its beginning; the row of the
\* hand-off and of the fallback is not in it. assignTeam writes one of its own more.
Record(o, i) ==
    CASE o.name = "queue" -> <<Row("QUEUED", o, 4*i)>>
      [] o.name = "fallback" -> <<Row("SPECIALIST_PENDING", o, 4*i + 2)>>
      [] o.name = "dispatch" -> <<Row("TEAM_ASSIGNED", o, 4*i)>>
      [] o.name = "handoff" -> <<Row("TEAM_ASSIGNED", o, 4*i + 2)>>
      [] o.name = "assign" -> <<Row("TEAM_ASSIGNED", o, 4*i), Row("TEAM_ASSIGNED", o, 4*i + 2)>>
      [] o.name = "update" -> <<Row("STATUS_CHANGED", o, 4*i + 2)>>
      [] o.name = "resolve" -> <<Row("RESOLVED", o, 4*i + 2)>>
      [] o.name = "cancel" -> <<Row("CANCELLED", o, 4*i + 2)>>
      [] OTHER -> <<>>

\* The rows of a life by their timestamps. That of the creation is written after the
\* event that starts dispatching: late, it comes after the rows of the next operation.
History(l, late) ==
    LET created == <<Row("CREATED", l[1], IF late THEN 11 ELSE 6)>>
        rest(from) == FlattenSeq([i \in 1..Len(l) - from + 1 |-> Record(l[i + from - 1], i + from - 1)])
    IN  IF late /\ Len(l) > 1 THEN Record(l[2], 2) \o created \o rest(3) ELSE created \o rest(2)

\* The last operation of a life that is one of the names; 0 if there is none.
LastOf(l, names) ==
    SelectLastInSeq(l, LAMBDA o : o.name \in names)

\* The request's row when the life is over, assignedAt and the others 0 for null.
\* Nothing resets assignedAt or resolvedAt, whatever becomes of the request.
SosAfter(l) ==
    LET given == LastOf(l, Assigns)
        done == LastOf(l, {"resolve"})
        end == Len(l)
    IN  [status |-> StatusAfter(l[end]), createdAt |-> 4, updatedAt |-> 4*end + 1,
         assignedAt |-> IF given = 0 THEN 0 ELSE 4*given + 1,
         assignedTeam |-> IF given = 0 THEN NoOne ELSE l[given].arg,
         resolvedAt |-> IF done = 0 THEN 0 ELSE 4*done]

\* The rows logAction wrote for a life, if none failed; it logs an error only, so that
\* any of them may be missing. Dispatching on its own writes none.
AuditLog(l) ==
    SelectSeq([i \in DOMAIN l |-> [op |-> l[i], time |-> 4*i + 2]],
              LAMBDA x : x.op.name \in {"create", "assign", "update", "resolve", "cancel"})

-----------------------------------------------------------------------------
(* getTimeline                                                             *)

Moved(status) ==
    CASE status = "DISPATCHED" -> "moving"
      [] status = "ON_SITE" -> "arrived"
      [] OTHER -> "changed"

\* TEAM_REASSIGNED and TEAM_RELEASED have titles too, but nothing writes them.
Title(row) ==
    CASE row.event = "CREATED" -> "created"
      [] row.event = "TEAM_ASSIGNED" -> "assigned"
      [] row.event = "STATUS_CHANGED" ->
            IF row.to = "PENDING_SPECIALIST" THEN "specialist" ELSE Moved(row.to)
      [] row.event = "RESOLVED" -> "done"
      [] row.event = "CANCELLED" -> "cancelled"
      [] row.event = "QUEUED" -> "queued"
      [] row.event = "SPECIALIST_PENDING" -> "specialist"

Entry(title, crew, time) == [title |-> title, team |-> crew, time |-> time]
Has(title, entries) == \E i \in DOMAIN entries : entries[i].title = title

Mapped(history) ==
    [i \in DOMAIN history |-> Entry(Title(history[i]), history[i].team, history[i].time)]

WithCreated(row, mapped) ==
    IF Has("created", mapped) THEN mapped
    ELSE <<Entry("created", NoOne, row.createdAt)>> \o mapped

\* Mutant of AssignTime: the request was given to its team when it was made.
CreationTime(row) == row.createdAt

AssignTime(row) == IF row.assignedAt # 0 THEN row.assignedAt ELSE row.createdAt

\* Before the first entry that is later, or at the end.
WithAssigned(row, mapped) ==
    IF Has("assigned", mapped) \/ (row.assignedTeam = NoOne /\ row.assignedAt = 0) THEN mapped
    ELSE LET time == AssignTime(row)
             later == {i \in DOMAIN mapped : mapped[i].time > time}
             place == IF later = {} THEN Len(mapped) + 1
                      ELSE CHOOSE i \in later : \A j \in later : i <= j
         IN  InsertAt(mapped, place, Entry("assigned", row.assignedTeam, time))

\* The sort at the end is by time, and stable.
Sorted(entries) ==
    LET order == SortSeq([i \in DOMAIN entries |-> i], LAMBDA i, j :
                    \/ entries[i].time < entries[j].time
                    \/ entries[i].time = entries[j].time /\ i < j)
    IN  [k \in DOMAIN entries |-> entries[order[k]]]

LogTitle(o) ==
    CASE o.name = "create" -> "created"
      [] o.name = "assign" -> "assigned"
      [] o.name = "resolve" -> "done"
      [] o.name = "update" -> Moved(o.arg)
      [] o.name = "cancel" -> "cancelled"

FromLogs(logs) == [i \in DOMAIN logs |-> Entry(LogTitle(logs[i].op), NoOne, logs[i].time)]

FromRow(row) ==
       <<Entry("created", NoOne, row.createdAt)>>
    \o (IF row.assignedAt = 0 THEN <<>> ELSE <<Entry("assigned", row.assignedTeam, row.assignedAt)>>)
    \o (IF row.status = "ON_SITE" THEN <<Entry("arrived", NoOne, row.updatedAt)>> ELSE <<>>)
    \o (IF row.resolvedAt # 0 THEN <<Entry("done", NoOne, row.resolvedAt)>>
        ELSE IF row.status = "CANCELLED" THEN <<Entry("cancelled", NoOne, row.updatedAt)>> ELSE <<>>)

getTimeline(row, history, logs) ==
    IF history # <<>> THEN Sorted(WithAssigned(row, WithCreated(row, Mapped(history))))
    ELSE IF logs # <<>> THEN FromLogs(logs)
    ELSE FromRow(row)

-----------------------------------------------------------------------------
(* Properties *)

Told(entries) == [i \in DOMAIN entries |-> <<entries[i].title, entries[i].team>>]
Part(s, kept) == LET order == SetToSortSeq(kept, <) IN [k \in DOMAIN order |-> s[order[k]]]

\* What the rows kept and the request tell of a life: the rows kept, in the life's
\* order, and, when theirs are lost, its creation first and its last assignment
\* where it took place.
Tale(all, kept) ==
    LET assigned == {i \in DOMAIN all : all[i].event = "TEAM_ASSIGNED"}
        created == \E i \in kept : all[i].event = "CREATED"
        last == {i \in assigned : \A j \in assigned : j <= i}
        shown == kept \cup (IF kept \cap assigned = {} THEN last ELSE {})
    IN  (IF created THEN <<>> ELSE <<<<"created", NoOne>>>>) \o Told(Mapped(Part(all, shown)))

FromHistory(l) ==
    \A late \in BOOLEAN :
        LET all == History(l, late)
        IN  \A kept \in (SUBSET DOMAIN all) \ {{}} :
               Told(getTimeline(SosAfter(l), Part(all, kept), AuditLog(l))) = Tale(all, kept)

FromAudit(l) ==
    \A logs \in (SUBSET DOMAIN AuditLog(l)) \ {{}} :
        LET t == getTimeline(SosAfter(l), <<>>, Part(AuditLog(l), logs))
        IN  /\ \A i \in 2..Len(t) : t[i-1].time < t[i].time
            /\ Has("assigned", t) => SosAfter(l).assignedTeam # NoOne

Alone(l) ==
    LET t == getTimeline(SosAfter(l), <<>>, <<>>)
        given == LastOf(l, Assigns)
        done == LastOf(l, {"resolve"})
    IN  /\ t[1].title = "created"
        /\ Has("assigned", t) <=> given # 0
        /\ Has("done", t) <=> done # 0
        /\ done = 0 => (Has("cancelled", t) <=> StatusAfter(Last(l)) = "CANCELLED")
        /\ (\E i \in 2..Len(t) : t[i].time < t[i-1].time) <=>
             done # 0 /\ (given > done \/ StatusAfter(Last(l)) = "ON_SITE")

\* Whichever rows the fire-and-forget INSERTs lost, of the history and of the audit
\* log, the timeline is the tale of the request's life with nothing lost but those:
\* creation and assignment are filled in at their places, with the team that has it.
\* With no row of the history, what is left of the audit log is told as it is, in
\* order. With no row of either the timeline is told from the request: it begins with
\* the creation, names the assignment and the end, and is out of order only for a
\* request that a team was given, or reached, after it was resolved.
TimelineTellsLife == Unborn \/ (FromHistory(life) /\ FromAudit(life) /\ Alone(life))

=============================================================================
