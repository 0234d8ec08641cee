------------------------- MODULE FloodRequestProofs -------------------------
(***************************************************************************)
(* For any number of reports, requests, teams and calls in flight, however *)
(* they overlap: a flood report gets one SOS request at most unless a save *)
(* undid a change of it, only such a save leaves a final state, cases are  *)
(* counted and nobody who waits is forgotten.                              *)
(***************************************************************************)
EXTENDS FloodRequest, FiniteSetTheorems, SequenceTheorems, TLAPS

-----------------------------------------------------------------------------
(* The rows. *)

(* A team has at most as many cases counted as there are requests. *)
LEMMA CountTyped ==
    ASSUME NEW requests, NEW t, NEW cur
    PROVE  /\ ActiveOthers(requests, t, cur) \in 0..Cardinality(Sos)
           /\ ActiveOthers(requests, t, cur) \in Nat
<1> DEFINE C == {s \in Sos \ {cur} : /\ requests[s].team = t
                                     /\ requests[s].status \in Active}
<1>1. C \in SUBSET Sos
  OBVIOUS
<1>2. IsFiniteSet(C) /\ Cardinality(C) <= Cardinality(Sos)
  BY <1>1, FS_Subset, RowsAssumption
<1>3. Cardinality(C) \in Nat /\ Cardinality(Sos) \in Nat
  BY <1>2, FS_CardinalityType, RowsAssumption
<1>4. ActiveOthers(requests, t, cur) = Cardinality(C)
  BY DEF ActiveOthers
<1> HIDE DEF C
<1> QED
  BY <1>2, <1>3, <1>4

(* A recounted team is a row of the table. *)
LEMMA RecountedTyped ==
    ASSUME NEW n \in Nat
    PROVE  Recounted(n) \in TeamRow
BY DEF Recounted, TeamRow, TeamStatus

(* A team that takes a case stays a row of the table, the others are as before. *)
LEMMA TakesCaseTyped ==
    ASSUME NEW teams \in [Teams -> TeamRow], NEW t \in Teams
    PROVE  TakesCase(teams, t) \in [Teams -> TeamRow]
BY DEF TakesCase, TeamRow, TeamStatus

(* Assigning a team keeps the table of requests. *)
LEMMA AssignedTyped ==
    ASSUME NEW requests \in [Sos -> SosRow], NEW s, NEW t \in Teams
    PROVE  Assigned(requests, s, t) \in [Sos -> SosRow]
BY DEF Assigned, SosRow, SosStatus

(* The cases of a team depend on which requests have it and are active. *)
LEMMA SameCount ==
    ASSUME NEW old, NEW new, NEW t, NEW cur, NEW cur2,
           \A s \in Sos : /\ s # cur /\ old[s].team = t /\ old[s].status \in Active
                          <=> s # cur2 /\ new[s].team = t /\ new[s].status \in Active
    PROVE  ActiveOthers(old, t, cur) = ActiveOthers(new, t, cur2)
<1> DEFINE O == {s \in Sos \ {cur} : old[s].team = t /\ old[s].status \in Active}
           N == {s \in Sos \ {cur2} : new[s].team = t /\ new[s].status \in Active}
<1>1. O = N
  OBVIOUS
<1>2. ActiveOthers(old, t, cur) = Cardinality(O) /\ ActiveOthers(new, t, cur2) = Cardinality(N)
  BY DEF ActiveOthers
<1> QED
  BY <1>1, <1>2

(* A team that is given a request nobody had has one case more. *)
LEMMA OneMoreCase ==
    ASSUME NEW requests \in [Sos -> SosRow], NEW s \in Sos, NEW t \in Teams, NEW u \in Teams,
           requests[s].team = NoTeam
    PROVE  ActiveOthers(Assigned(requests, s, t), u, NoSos) =
               IF u = t THEN ActiveOthers(requests, u, NoSos) + 1
               ELSE ActiveOthers(requests, u, NoSos)
<1> DEFINE after == Assigned(requests, s, t)
           O == {x \in Sos \ {NoSos} : requests[x].team = u /\ requests[x].status \in Active}
           N == {x \in Sos \ {NoSos} : after[x].team = u /\ after[x].status \in Active}
<1>1. /\ after[s].team = t /\ after[s].status \in Active
      /\ \A x \in Sos \ {s} : after[x] = requests[x]
  BY DEF Assigned, Active
<1>2. s \in Sos \ {NoSos} /\ s \notin O
  BY RowsAssumption
<1>3. N = IF u = t THEN O \cup {s} ELSE O
  BY <1>1, <1>2
<1>4. IsFiniteSet(O)
  BY RowsAssumption, FS_Subset
<1>5. Cardinality(O \cup {s}) = Cardinality(O) + 1
  BY <1>2, <1>4, FS_AddElement
<1>6. ActiveOthers(requests, u, NoSos) = Cardinality(O)
  BY DEF ActiveOthers
<1>7. ActiveOthers(after, u, NoSos) = Cardinality(N)
  BY DEF ActiveOthers
<1> HIDE DEF O, N, after
<1>8. CASE u = t
  BY <1>3, <1>5, <1>6, <1>7, <1>8 DEF after
<1>9. CASE u # t
  BY <1>3, <1>6, <1>7, <1>9 DEF after
<1> QED
  BY <1>8, <1>9

Handles(p) == ctx[p].pc \in Dispatching

\* What a save makes of the row it read.
Reviewed(c) ==
    /\ c.read.status \in {"PENDING", "VERIFYING", "REJECTED"}
    /\ c.row.linked = c.read.linked
    /\ \/ c.row.status \in {"VERIFYING", "REJECTED"} /\ c.row.onMap = c.read.onMap
       \/ c.row.status = "APPROVED" /\ c.row.onMap /\ c.flood \notin Support

\* What a call holds: a dispatch, the row as it is now; a save, what it read, and what
\* it SELECTed, which made sense unless a save had undone something.
CallOK(c, now, undoings) ==
    /\ c.pc # "idle" => c.flood \in Floods
    /\ c.pc \in Saving => Reviewed(c)
    /\ c.pc = "update" /\ c.flood \notin undoings =>
          (c.seen.onMap <=> c.seen.status = "APPROVED")
    /\ c.pc \in Dispatching => c.row = now /\ now.status = "VERIFYING" /\ c.flood \in Support
    /\ c.pc = "manual" => c.team \in Teams

CallsOK == \A p \in Procs : CallOK(ctx[p], flood[ctx[p].flood], undone)

\* No two dispatches are about one report: the first has locked its row.
Apart == \A p, q \in Procs : p # q /\ Handles(p) /\ Handles(q) => ctx[p].flood # ctx[q].flood

FreshUnlinked == \A s \in Sos : sos[s].status = "NONE" => origin[s] = NoFlood

FloodTypes ==
    /\ TypeOK
    /\ \A p \in Procs :
          /\ ctx[p].pc = "manual" => ctx[p].team \in Teams
          /\ ctx[p].pc \in Saving => ctx[p].flood \in Floods

FloodInv ==
    /\ FreshUnlinked
    /\ LinkedBothWays
    /\ OnMapIsApproved
    /\ Apart
    /\ CallsOK

-----------------------------------------------------------------------------
(* Types.                                                                  *)

\* The idle context is a context.
LEMMA IdleTyped == Idle \in Ctx
  BY DEF Ctx, Idle, NoReport, FloodRow, FloodStatus

\* Types hold at first.
LEMMA TypeInit == Init => FloodTypes
  <1> SUFFICES ASSUME Init PROVE FloodTypes
    OBVIOUS
  <1>1. NoReport \in FloodRow
    BY DEF NoReport, FloodRow, FloodStatus
  <1>2. /\ flood \in [Floods -> FloodRow]
        /\ sos \in [Sos -> SosRow]
        /\ team \in [Teams -> TeamRow]
    BY <1>1 DEF Init, SosRow, SosStatus, TeamRow, TeamStatus
  <1>3. ctx \in [Procs -> Ctx] /\ \A p \in Procs : ctx[p] = Idle
    BY IdleTyped DEF Init
  <1>4. Idle.pc = "idle"
    BY DEF Idle
  <1>5. waits \subseteq Sos \X Teams /\ undone \subseteq Floods
    BY DEF Init
  <1>6. origin \in [Sos -> Floods \cup {NoFlood}]
    BY DEF Init
  <1> QED
    BY <1>2, <1>3, <1>4, <1>5, <1>6 DEF FloodTypes, TypeOK, Saving

\* A table stays one when one of its entries is replaced.
LEMMA CtxTyped ==
  ASSUME FloodTypes, NEW p \in Procs, NEW c \in Ctx, ctx' = [ctx EXCEPT ![p] = c],
         c.pc = "manual" => c.team \in Teams, c.pc \in Saving => c.flood \in Floods
  PROVE  /\ ctx' \in [Procs -> Ctx]
         /\ \A q \in Procs :
               /\ ctx'[q].pc = "manual" => ctx'[q].team \in Teams
               /\ ctx'[q].pc \in Saving => ctx'[q].flood \in Floods
  BY DEF FloodTypes, TypeOK

\* A report that a call works on is a report.
LEMMA MergedTyped ==
  ASSUME NEW old \in FloodRow, NEW new \in FloodRow, NEW now \in FloodRow
  PROVE  Merged(old, new, now) \in FloodRow
  BY DEF Merged, Written, FloodRow

\* The steps that review a report keep the types.
LEMMA ReviewTyped == ASSUME FloodTypes, NEW p \in Procs, Reviewing(p) PROVE FloodTypes'
  <1> USE DEF FloodTypes, Saving
  <1>1. ASSUME NEW f \in Floods, NEW row \in FloodRow, Saves(p, f, row),
               UNCHANGED <<flood, sos, team, waits, origin, undone>>
        PROVE  FloodTypes'
    <2> DEFINE c == [Idle EXCEPT !.pc = "save", !.flood = f, !.read = flood[f], !.row = row]
    <2>1. c \in Ctx /\ c.pc = "save" /\ c.flood = f
      BY IdleTyped DEF Ctx, Idle, TypeOK
    <2>2. ctx' = [ctx EXCEPT ![p] = c]
      BY <1>1 DEF Saves
    <2> HIDE DEF c
    <2> QED
      BY <1>1, <2>1, <2>2, CtxTyped DEF TypeOK
  <1>2. ASSUME NEW f \in Floods, ApproveMap(p, f) PROVE FloodTypes'
    <2> DEFINE row == [flood[f] EXCEPT !.status = "APPROVED", !.onMap = TRUE]
    <2>1. PICK now \in FloodRow : now = flood[f]
      BY DEF TypeOK
    <2>2. row \in FloodRow
      BY <2>1 DEF FloodRow, FloodStatus
    <2> QED
      BY <1>1, <1>2, <2>2 DEF ApproveMap
  <1>3. ASSUME NEW f \in Floods, NEW new \in {"VERIFYING", "REJECTED"}, UpdateStatus(p, f, new)
        PROVE  FloodTypes'
    <2> DEFINE row == [flood[f] EXCEPT !.status = new]
    <2>1. row \in FloodRow
      BY DEF TypeOK, FloodRow, FloodStatus
    <2> QED
      BY <1>1, <1>3, <2>1 DEF UpdateStatus
  <1>4. ASSUME SaveSelect(p) PROVE FloodTypes'
    <2> DEFINE c == [ctx[p] EXCEPT !.pc = "update", !.seen = flood[ctx[p].flood]]
    <2>1. ctx[p].flood \in Floods
      BY <1>4 DEF SaveSelect
    <2>2. c \in Ctx /\ c.pc = "update"
      BY <2>1 DEF TypeOK, Ctx
    <2>3. ctx' = [ctx EXCEPT ![p] = c]
      BY <1>4 DEF SaveSelect, TypeOK, Ctx
    <2> HIDE DEF c
    <2> QED
      BY <1>4, <2>2, <2>3, CtxTyped DEF TypeOK, SaveSelect
  <1>5. ASSUME SaveUpdate(p) PROVE FloodTypes'
    <2> DEFINE r == Merged(ctx[p].seen, ctx[p].row, flood[ctx[p].flood])
    <2>1. ctx[p].flood \in Floods
      BY <1>5 DEF SaveUpdate
    <2>2. r \in FloodRow
      BY <2>1, MergedTyped DEF TypeOK, Ctx
    <2>3. /\ flood' = [flood EXCEPT ![ctx[p].flood] = r] /\ ctx' = [ctx EXCEPT ![p] = Idle]
          /\ undone' \subseteq Floods
      BY <1>5, <2>1 DEF SaveUpdate, Returns, TypeOK
    <2> HIDE DEF r
    <2> QED
      BY <1>5, <2>2, <2>3, CtxTyped, IdleTyped DEF TypeOK, SaveUpdate, Idle
  <1> QED
    BY <1>2, <1>3, <1>4, <1>5 DEF Reviewing

\* The steps of a dispatch keep the types.
LEMMA DispatchTyped == ASSUME FloodTypes, NEW p \in Procs, DispatchingFlood(p) PROVE FloodTypes'
  <1> USE DEF FloodTypes, Saving
  <1>1. ASSUME NEW c \in Ctx, c.pc = "score" \/ (c.pc = "manual" /\ c.team \in Teams),
               ctx' = [ctx EXCEPT ![p] = c], UNCHANGED <<flood, sos, team, waits, origin, undone>>
        PROVE  FloodTypes'
    BY <1>1, CtxTyped DEF TypeOK
  <1>2. ASSUME NEW f \in Floods, DispatchBegin(p, f) PROVE FloodTypes'
    <2> DEFINE c == [Idle EXCEPT !.pc = "score", !.flood = f, !.row = flood[f]]
               d(t) == [Idle EXCEPT !.pc = "manual", !.flood = f, !.row = flood[f],
                                    !.team = t]
    <2>1. c \in Ctx /\ c.pc = "score"
      BY IdleTyped DEF TypeOK, Ctx, Idle
    <2>2. ASSUME NEW t \in Teams
          PROVE  d(t) \in Ctx /\ d(t).pc = "manual" /\ d(t).team \in Teams
      BY IdleTyped DEF TypeOK, Ctx, Idle
    <2>3. \/ ctx' = [ctx EXCEPT ![p] = c]
          \/ \E t \in Teams : ctx' = [ctx EXCEPT ![p] = d(t)]
      BY <1>2 DEF DispatchBegin
    <2>4. UNCHANGED <<flood, sos, team, waits, origin, undone>>
      BY <1>2 DEF DispatchBegin
    <2> HIDE DEF c, d
    <2>5. CASE ctx' = [ctx EXCEPT ![p] = c]
      BY <1>1, <2>1, <2>4, <2>5
    <2>6. ASSUME NEW t \in Teams, ctx' = [ctx EXCEPT ![p] = d(t)] PROVE FloodTypes'
      BY <1>1, <2>2, <2>4, <2>6
    <2> QED
      BY <2>3, <2>5, <2>6
  <1>3. ASSUME Score(p) PROVE FloodTypes'
    <2>1. PICK cands \in SUBSET Teams :
             ctx' = [ctx EXCEPT ![p].pc = "auto", ![p].cands = cands]
      BY <1>3 DEF Score
    <2> DEFINE c == [ctx[p] EXCEPT !.pc = "auto", !.cands = cands]
    <2>2. c \in Ctx /\ c.pc = "auto"
      BY DEF TypeOK, Ctx
    <2>3. ctx' = [ctx EXCEPT ![p] = c]
      BY <2>1 DEF TypeOK, Ctx
    <2> HIDE DEF c
    <2> QED
      BY <1>3, <2>2, <2>3, CtxTyped DEF TypeOK, Score
  <1>4. ASSUME NEW s \in Sos, Commits(p, s)
        PROVE  /\ flood' \in [Floods -> FloodRow]
               /\ origin' \in [Sos -> Floods \cup {NoFlood}]
               /\ ctx' \in [Procs -> Ctx]
               /\ undone' \subseteq Floods
               /\ \A q \in Procs :
                     /\ ctx'[q].pc = "manual" => ctx'[q].team \in Teams
                     /\ ctx'[q].pc \in Saving => ctx'[q].flood \in Floods
    <2> DEFINE r == [ctx[p].row EXCEPT !.status = "DISPATCHED", !.linked = s]
    <2>1. PICK row \in FloodRow : row = ctx[p].row
      BY DEF TypeOK, Ctx
    <2>4. r \in FloodRow
      BY <2>1 DEF FloodRow, FloodStatus
    <2>2. /\ flood' = [flood EXCEPT ![ctx[p].flood] = r]
          /\ origin' = [origin EXCEPT ![s] = ctx[p].flood]
          /\ ctx' = [ctx EXCEPT ![p] = Idle] /\ UNCHANGED undone
      BY <1>4 DEF Commits, Returns
    <2> HIDE DEF r
    <2>3. ctx[p].flood \in Floods \cup {NoFlood}
      BY DEF TypeOK, Ctx
    <2> QED
      BY <2>4, <2>2, <2>3, CtxTyped, IdleTyped DEF TypeOK, Idle
  <1>5. ASSUME NEW s \in Sos, DispatchAuto(p, s) PROVE FloodTypes'
    <2>1. CASE \E t \in ctx[p].cands : /\ sos' = Assigned(sos, s, t)
                                       /\ team' = TakesCase(team, t)
                                       /\ UNCHANGED waits
      <3>1. PICK t \in Teams : /\ sos' = Assigned(sos, s, t)
                               /\ team' = TakesCase(team, t)
        BY <2>1 DEF TypeOK, Ctx
      <3> QED
        BY <1>4, <1>5, <2>1, <3>1, AssignedTyped, TakesCaseTyped DEF DispatchAuto, TypeOK
    <2>2. CASE Queues(p, s)
      <3>1. PICK t \in Teams : waits' = waits \cup {<<s, t>>}
        BY <2>2 DEF Queues, TypeOK, Ctx
      <3>2. waits' \subseteq Sos \X Teams
        BY <3>1 DEF TypeOK
      <3>3. sos' \in [Sos -> SosRow]
        BY <2>2 DEF Queues, TypeOK, SosRow, SosStatus
      <3> QED
        BY <1>4, <1>5, <2>2, <3>2, <3>3 DEF Queues, DispatchAuto, TypeOK
    <2>3. CASE /\ sos' = [sos EXCEPT ![s].status = "PENDING_SPECIALIST"]
               /\ UNCHANGED <<team, waits>>
      BY <1>4, <1>5, <2>3 DEF DispatchAuto, TypeOK, SosRow, SosStatus
    <2> QED
      BY <1>5, <2>1, <2>2, <2>3 DEF DispatchAuto
  <1>6. ASSUME NEW s \in Sos, DispatchManual(p, s) PROVE FloodTypes'
    <2>1. ctx[p].team \in Teams
      BY <1>6 DEF DispatchManual
    <2> QED
      BY <1>4, <1>6, <2>1, AssignedTyped, TakesCaseTyped DEF DispatchManual, TypeOK
  <1> QED
    BY <1>2, <1>3, <1>5, <1>6 DEF DispatchingFlood

\* What the rest of the system does keeps the types.
LEMMA ElsewhereTyped == ASSUME FloodTypes, Elsewhere PROVE FloodTypes'
  <1> USE DEF FloodTypes, TypeOK, Saving
  <1>1. ASSUME NEW s \in Sos, NEW t \in Teams, TakenElsewhere(s, t) PROVE FloodTypes'
    BY <1>1, AssignedTyped, TakesCaseTyped DEF TakenElsewhere
  <1>2. ASSUME NEW s \in Sos, ResolvedElsewhere(s) PROVE FloodTypes'
    BY <1>2, CountTyped, RecountedTyped DEF ResolvedElsewhere, SosRow, SosStatus
  <1>3. ASSUME NEW t \in Teams, OffDutyElsewhere(t) PROVE FloodTypes'
    BY <1>3 DEF OffDutyElsewhere, TeamRow, TeamStatus
  <1> QED
    BY <1>1, <1>2, <1>3 DEF Elsewhere

\* Every step keeps the types.
LEMMA TypeStep == FloodTypes /\ [Next]_vars => FloodTypes'
  <1> SUFFICES ASSUME FloodTypes, [Next]_vars PROVE FloodTypes'
    OBVIOUS
  <1>1. ASSUME NEW f \in Floods, Create(f) PROVE FloodTypes'
    BY <1>1 DEF Create, FloodTypes, TypeOK, FloodRow, FloodStatus
  <1>2. ASSUME NEW p \in Procs, Fails(p) PROVE FloodTypes'
    BY <1>2, CtxTyped, IdleTyped DEF Fails, Returns, FloodTypes, TypeOK, Idle, Saving
  <1>3. CASE UNCHANGED vars
    BY <1>3 DEF vars, FloodTypes, TypeOK
  <1> QED
    BY <1>1, <1>2, <1>3, ReviewTyped, DispatchTyped, ElsewhereTyped DEF Next

\* The tables, the queue and what calls hold always have their types, whether
\* saves overlap or not.
THEOREM FloodTypeCorrect == Spec => []TypeOK
  <1>1. FloodTypes => TypeOK
    BY DEF FloodTypes
  <1> QED
    BY <1>1, TypeInit, TypeStep, PTL DEF Spec

-----------------------------------------------------------------------------
(* One SOS request per report, and final states.                           *)

\* A report that no other call is dispatching may be written by one that ends.
LEMMA CallsKept ==
  ASSUME FloodTypes, FloodInv, NEW p \in Procs, NEW f \in Floods, NEW r \in FloodRow,
         \A q \in Procs \ {p} : Handles(q) => ctx[q].flood # f, undone \subseteq undone',
         ctx' = [ctx EXCEPT ![p] = Idle], flood' = [flood EXCEPT ![f] = r]
  PROVE  Apart' /\ CallsOK'
  <1>1. /\ ctx'[p] = Idle /\ Idle.pc = "idle"
        /\ \A q \in Procs \ {p} : ctx'[q] = ctx[q]
        /\ \A g \in Floods \ {f} : flood'[g] = flood[g]
    BY DEF FloodTypes, TypeOK, Idle
  <1>2. Apart'
    BY <1>1 DEF FloodInv, Apart, Handles, Dispatching
  <1>3. ASSUME NEW q \in Procs PROVE CallOK(ctx'[q], flood'[ctx'[q].flood], undone')
    <2>1. CASE q = p
      BY <1>1, <2>1 DEF CallOK, Saving, Dispatching
    <2>2. CASE q # p
      <3>1. ctx'[q] = ctx[q] /\ CallOK(ctx[q], flood[ctx[q].flood], undone)
        BY <1>1, <2>2 DEF FloodInv, CallsOK
      <3>2. ctx[q].pc \in Dispatching => flood'[ctx[q].flood] = flood[ctx[q].flood]
        BY <1>1, <2>2, <3>1 DEF Handles, CallOK, Dispatching
      <3> QED
        BY <3>1, <3>2 DEF CallOK
    <2> QED
      BY <2>1, <2>2
  <1> QED
    BY <1>2, <1>3 DEF CallsOK

\* A call reads, and no report changes.
LEMMA ReadKept ==
  ASSUME FloodTypes, FloodInv, NEW p \in Procs, NEW c \in Ctx,
         CallOK(c, flood[c.flood], undone),
         c.pc \in Dispatching => \A q \in Procs \ {p} : Handles(q) => ctx[q].flood # c.flood,
         ctx' = [ctx EXCEPT ![p] = c], UNCHANGED <<flood, sos, origin, undone>>
  PROVE  FloodInv'
  <1>1. ctx'[p] = c /\ \A q \in Procs \ {p} : ctx'[q] = ctx[q]
    BY DEF FloodTypes, TypeOK
  <1>2. Apart'
    BY <1>1 DEF FloodInv, Apart, Handles
  <1>3. CallsOK'
    BY <1>1 DEF FloodInv, CallsOK
  <1> QED
    BY <1>2, <1>3 DEF FloodInv, FreshUnlinked, LinkedBothWays, OnMapIsApproved

\* An idle call leaves every report to the others.
LEMMA IdleKept ==
  ASSUME FloodTypes, FloodInv, NEW p \in Procs, ctx' = [ctx EXCEPT ![p] = Idle],
         UNCHANGED <<flood, sos, origin, undone>>
  PROVE  FloodInv'
  <1>1. Idle \in Ctx /\ Idle.pc = "idle"
    BY IdleTyped DEF Idle
  <1>2. CallOK(Idle, flood[Idle.flood], undone)
    BY <1>1 DEF CallOK, Saving, Dispatching
  <1> QED
    BY <1>1, <1>2, ReadKept DEF Dispatching

\* A report changes, but not its link, and it is dispatched neither before nor after;
\* or a change of it has been undone.
LEMMA LinksKept ==
  ASSUME FloodTypes, FloodInv, NEW f \in Floods, NEW r \in FloodRow,
         undone' \in {undone, undone \cup {f}},
         f \notin undone' =>
            /\ flood[f].status # "DISPATCHED" /\ r.status # "DISPATCHED"
            /\ r.linked = flood[f].linked /\ (r.onMap <=> r.status = "APPROVED")
            /\ r.status = "APPROVED" => f \notin Support,
         flood' = [flood EXCEPT ![f] = r], UNCHANGED <<sos, origin>>
  PROVE  FreshUnlinked' /\ LinkedBothWays' /\ OnMapIsApproved'
  <1>1. flood'[f] = r /\ \A g \in Floods \ {f} : flood'[g] = flood[g]
    BY DEF FloodTypes, TypeOK
  <1>2. FreshUnlinked'
    BY DEF FloodInv, FreshUnlinked
  <1>3. OnMapIsApproved'
    BY <1>1 DEF FloodInv, OnMapIsApproved
  <1>4. \A s \in Sos : origin[s] \notin undone' \cup {NoFlood} => flood'[origin[s]].linked = s
    <2> SUFFICES ASSUME NEW s \in Sos, origin[s] \notin undone' \cup {NoFlood}
                 PROVE  flood'[origin[s]].linked = s
      OBVIOUS
    <2>1. origin[s] \in Floods /\ flood[origin[s]].linked = s
      BY DEF FloodInv, LinkedBothWays, FloodTypes, TypeOK
    <2> QED
      BY <1>1, <2>1
  <1>5. \A g \in Floods \ undone' :
           IF flood'[g].status = "DISPATCHED"
           THEN flood'[g].linked \in Sos /\ origin[flood'[g].linked] = g
           ELSE flood'[g].linked = NoSos
    BY <1>1 DEF FloodInv, LinkedBothWays
  <1> QED
    BY <1>2, <1>3, <1>4, <1>5 DEF LinkedBothWays

\* Reviewing keeps the invariant.
LEMMA ReviewStep ==
  ASSUME FloodTypes, FloodInv, NEW p \in Procs, Reviewing(p)
  PROVE  FloodInv'
  <1>1. ASSUME NEW f \in Floods, NEW row \in FloodRow, Saves(p, f, row),
               UNCHANGED <<flood, sos, origin, undone>>,
               \A c \in Ctx : c.flood = f /\ c.read = flood[f] /\ c.row = row => Reviewed(c)
        PROVE  FloodInv'
    <2> DEFINE c == [Idle EXCEPT !.pc = "save", !.flood = f, !.read = flood[f], !.row = row]
    <2>1. c \in Ctx /\ c.pc = "save" /\ c.flood = f /\ c.read = flood[f] /\ c.row = row
      BY IdleTyped DEF Ctx, Idle, FloodTypes, TypeOK
    <2>2. ctx' = [ctx EXCEPT ![p] = c]
      BY <1>1 DEF Saves
    <2> HIDE DEF c
    <2>3. CallOK(c, flood[c.flood], undone)
      BY <1>1, <2>1 DEF CallOK, Saving, Dispatching
    <2> QED
      BY <1>1, <2>1, <2>2, <2>3, ReadKept DEF Dispatching
  <1>2. ASSUME NEW f \in Floods, ApproveMap(p, f) PROVE FloodInv'
    <2> DEFINE row == [flood[f] EXCEPT !.status = "APPROVED", !.onMap = TRUE]
    <2>1. /\ row \in FloodRow
          /\ row.status = "APPROVED" /\ row.onMap /\ row.linked = flood[f].linked
      BY DEF FloodTypes, TypeOK, FloodRow, FloodStatus
    <2>2. Saves(p, f, row) /\ UNCHANGED <<flood, sos, origin, undone>>
      BY <1>2 DEF ApproveMap
    <2> HIDE DEF row
    <2>3. \A c \in Ctx : c.flood = f /\ c.read = flood[f] /\ c.row = row => Reviewed(c)
      BY <1>2, <2>1 DEF ApproveMap, Reviewed
    <2> QED
      BY <1>1, <2>1, <2>2, <2>3
  <1>3. ASSUME NEW f \in Floods, NEW new \in {"VERIFYING", "REJECTED"}, UpdateStatus(p, f, new)
        PROVE  FloodInv'
    <2> DEFINE row == [flood[f] EXCEPT !.status = new]
    <2>1. /\ row \in FloodRow
          /\ row.status = new /\ row.onMap = flood[f].onMap /\ row.linked = flood[f].linked
      BY DEF FloodTypes, TypeOK, FloodRow, FloodStatus
    <2>2. Saves(p, f, row) /\ UNCHANGED <<flood, sos, origin, undone>>
      BY <1>3 DEF UpdateStatus
    <2>3. flood[f].status \in {"PENDING", "VERIFYING", "REJECTED"}
      BY <1>3 DEF UpdateStatus, FloodTypes, TypeOK, FloodRow, FloodStatus
    <2> HIDE DEF row
    <2>4. \A c \in Ctx : c.flood = f /\ c.read = flood[f] /\ c.row = row => Reviewed(c)
      BY <2>1, <2>3 DEF Reviewed
    <2> QED
      BY <1>1, <2>1, <2>2, <2>4
  <1>4. ASSUME SaveSelect(p) PROVE FloodInv'
    <2>1. PICK d \in Ctx : d = ctx[p]
      BY DEF FloodTypes, TypeOK
    <2>2. d.pc = "save" /\ CallOK(d, flood[d.flood], undone)
      BY <1>4, <2>1 DEF SaveSelect, FloodInv, CallsOK
    <2> DEFINE c == [d EXCEPT !.pc = "update", !.seen = flood[d.flood]]
    <2>3. d.flood \in Floods /\ Reviewed(d)
      BY <2>2 DEF CallOK, Saving
    <2>4. /\ c \in Ctx /\ c.pc = "update" /\ c.seen = flood[d.flood]
          /\ c.flood = d.flood /\ c.row = d.row /\ c.read = d.read
      BY <2>3 DEF Ctx, FloodTypes, TypeOK
    <2>5. ctx' = [ctx EXCEPT ![p] = c]
      BY <1>4, <2>1 DEF SaveSelect, FloodTypes, TypeOK, Ctx
    <2> HIDE DEF c
    <2>6. CallOK(c, flood[c.flood], undone)
      BY <2>3, <2>4 DEF CallOK, Reviewed, Saving, Dispatching, FloodInv, OnMapIsApproved
    <2> QED
      BY <1>4, <2>4, <2>5, <2>6, ReadKept DEF SaveSelect, Dispatching
  <1>5. ASSUME SaveUpdate(p) PROVE FloodInv'
    <2>1. PICK d \in Ctx : d = ctx[p]
      BY DEF FloodTypes, TypeOK
    <2>2. d.pc = "update" /\ CallOK(d, flood[d.flood], undone)
      BY <1>5, <2>1 DEF SaveUpdate, FloodInv, CallsOK
    <2>3. /\ d.flood \in Floods /\ Reviewed(d)
          /\ d.flood \notin undone => (d.seen.onMap <=> d.seen.status = "APPROVED")
      BY <2>2 DEF CallOK, Saving
    <2> DEFINE f == d.flood
               r == Merged(d.seen, d.row, flood[f])
    <2>4. /\ r \in FloodRow
          /\ r.status = Written(d.seen.status, d.row.status, flood[f].status)
          /\ r.linked = Written(d.seen.linked, d.row.linked, flood[f].linked)
          /\ r.onMap = Written(d.seen.onMap, d.row.onMap, flood[f].onMap)
      BY <2>3, MergedTyped DEF Merged, Ctx, FloodTypes, TypeOK
    <2>5. /\ flood' = [flood EXCEPT ![f] = r] /\ ctx' = [ctx EXCEPT ![p] = Idle]
          /\ undone' = IF d.read = flood[f] THEN undone ELSE undone \cup {f}
      BY <1>5, <2>1 DEF SaveUpdate, Returns
    <2> HIDE DEF r
    <2>6. FreshUnlinked' /\ LinkedBothWays' /\ OnMapIsApproved'
      <3>1. ASSUME f \notin undone'
            PROVE  /\ flood[f].status # "DISPATCHED" /\ r.status # "DISPATCHED"
                   /\ r.linked = flood[f].linked /\ (r.onMap <=> r.status = "APPROVED")
                   /\ r.status = "APPROVED" => f \notin Support
        <4>1. d.read = flood[f] /\ f \notin undone
          BY <2>5, <3>1
        <4>2. flood[f].onMap <=> flood[f].status = "APPROVED"
          BY <2>3, <4>1 DEF FloodInv, OnMapIsApproved
        <4>3. /\ flood[f].onMap \in BOOLEAN /\ d.row.onMap \in BOOLEAN
              /\ d.seen.onMap \in BOOLEAN
          BY <2>3 DEF FloodTypes, TypeOK, FloodRow, Ctx
        <4>4. flood[f].status \in {"PENDING", "VERIFYING", "REJECTED"} /\ ~flood[f].onMap
          BY <2>3, <4>1, <4>2, <4>3 DEF Reviewed
        <4>5. r.linked = flood[f].linked
          BY <2>3, <2>4, <4>1 DEF Reviewed, Written
        <4>6. CASE d.row.status \in {"VERIFYING", "REJECTED"} /\ d.row.onMap = d.read.onMap
          <5>1. r.onMap = flood[f].onMap
            BY <2>4, <4>1, <4>6 DEF Written
          <5>2. r.status \in {"PENDING", "VERIFYING", "REJECTED"}
            BY <2>4, <4>4, <4>6 DEF Written
          <5> QED
            BY <4>4, <4>5, <5>1, <5>2
        <4>7. CASE d.row.status = "APPROVED" /\ d.row.onMap /\ f \notin Support
          <5>1. r.status = IF d.seen.status = "APPROVED" THEN flood[f].status ELSE "APPROVED"
            BY <2>4, <4>7 DEF Written
          <5>2. r.onMap = IF d.seen.onMap THEN flood[f].onMap ELSE TRUE
            BY <2>4, <4>3, <4>7 DEF Written
          <5>3. d.seen.onMap <=> d.seen.status = "APPROVED"
            BY <2>3, <4>1
          <5> QED
            BY <4>4, <4>5, <4>7, <5>1, <5>2, <5>3
        <4> QED
          BY <2>3, <4>6, <4>7 DEF Reviewed
      <3>2. undone' \in {undone, undone \cup {f}} /\ UNCHANGED <<sos, origin>>
        BY <1>5, <2>5 DEF SaveUpdate
      <3> HIDE DEF f
      <3>3. f \in Floods
        BY <2>3 DEF f
      <3> QED
        BY <2>4, <2>5, <3>1, <3>2, <3>3, LinksKept
    <2>7. \A q \in Procs \ {p} : Handles(q) => ctx[q].flood # f
      BY <1>5, <2>1 DEF SaveUpdate, Locked, About, Handles
    <2>8. Apart' /\ CallsOK'
      BY <2>3, <2>4, <2>5, <2>7, CallsKept
    <2> QED
      BY <2>6, <2>8 DEF FloodInv
  <1> QED
    BY <1>2, <1>3, <1>4, <1>5 DEF Reviewing

\* A commit makes request s for the report of call p and links the two.
LEMMA CommitStep ==
  ASSUME FloodTypes, FloodInv, NEW p \in Procs, NEW s \in Sos, Commits(p, s),
         ctx[p].pc \in {"auto", "manual"}, sos'[s].status # "NONE",
         \A u \in Sos \ {s} : sos'[u].status = sos[u].status
  PROVE  FloodInv'
  <1>1. PICK d \in Ctx : d = ctx[p]
    BY DEF FloodTypes, TypeOK
  <1>2. Handles(p) /\ d.pc \in Dispatching /\ CallOK(d, flood[d.flood], undone)
    BY <1>1 DEF Handles, Dispatching, FloodInv, CallsOK
  <1> DEFINE f == d.flood
             r == [d.row EXCEPT !.status = "DISPATCHED", !.linked = s]
  <1>3. f \in Floods /\ d.row = flood[f] /\ flood[f].status = "VERIFYING"
    BY <1>2 DEF CallOK, Dispatching
  <1>4. PICK row \in FloodRow : row = d.row
    BY DEF Ctx
  <1>5. r \in FloodRow /\ r.status = "DISPATCHED" /\ r.linked = s /\ r.onMap = flood[f].onMap
    BY <1>3, <1>4 DEF FloodRow, FloodStatus
  <1>6. /\ flood' = [flood EXCEPT ![f] = r]
        /\ origin' = [origin EXCEPT ![s] = f]
        /\ ctx' = [ctx EXCEPT ![p] = Idle] /\ UNCHANGED undone
    BY <1>1 DEF Commits, Returns
  <1> HIDE DEF r
  <1>7. /\ flood'[f] = r /\ \A g \in Floods \ {f} : flood'[g] = flood[g]
        /\ origin'[s] = f /\ \A u \in Sos \ {s} : origin'[u] = origin[u]
    BY <1>3, <1>6 DEF FloodTypes, TypeOK
  <1>8. origin[s] = NoFlood
    BY DEF FloodInv, FreshUnlinked, Commits
  <1>9. FreshUnlinked'
    BY <1>7 DEF FloodInv, FreshUnlinked
  <1>10. OnMapIsApproved'
    BY <1>3, <1>5, <1>6, <1>7 DEF FloodInv, OnMapIsApproved
  <1>11. \A u \in Sos :
            origin'[u] \notin undone \cup {NoFlood} => flood'[origin'[u]].linked = u
    <2> SUFFICES ASSUME NEW u \in Sos, origin'[u] \notin undone \cup {NoFlood}
                 PROVE  flood'[origin'[u]].linked = u
      OBVIOUS
    <2>1. CASE u = s
      BY <1>5, <1>7, <2>1
    <2>2. CASE u # s
      <3>1. origin'[u] = origin[u] /\ origin[u] \in Floods
        BY <1>7, <2>2 DEF FloodTypes, TypeOK
      <3>2. flood[origin[u]].linked = u
        BY <3>1, <1>7, <2>2 DEF FloodInv, LinkedBothWays
      <3>3. f \notin undone => flood[f].linked = NoSos
        BY <1>3 DEF FloodInv, LinkedBothWays
      <3>4. origin[u] # f
        BY <3>1, <3>2, <3>3, RowsAssumption
      <3> QED
        BY <1>7, <3>1, <3>2, <3>4
    <2> QED
      BY <2>1, <2>2
  <1>12. ASSUME NEW g \in Floods \ undone
         PROVE  IF flood'[g].status = "DISPATCHED"
                THEN flood'[g].linked \in Sos /\ origin'[flood'[g].linked] = g
                ELSE flood'[g].linked = NoSos
    <2>1. CASE g = f
      BY <1>5, <1>7, <2>1
    <2>2. CASE g # f
      <3>1. IF flood[g].status = "DISPATCHED"
            THEN flood[g].linked \in Sos /\ origin[flood[g].linked] = g
            ELSE flood[g].linked = NoSos
        BY DEF FloodInv, LinkedBothWays
      <3>2. flood[g].status = "DISPATCHED" => flood[g].linked # s
        BY <1>8, <3>1, FloodAssumption
      <3> QED
        BY <1>7, <2>2, <3>1, <3>2
    <2> QED
      BY <2>1, <2>2
  <1>13. \A q \in Procs \ {p} : Handles(q) => ctx[q].flood # f
    BY <1>1, <1>2 DEF FloodInv, Apart
  <1>14. Apart' /\ CallsOK'
    BY <1>3, <1>5, <1>6, <1>13, CallsKept
  <1> QED
    BY <1>6, <1>9, <1>10, <1>11, <1>12, <1>14 DEF FloodInv, LinkedBothWays

\* Dispatching keeps the invariant.
LEMMA DispatchStep ==
  ASSUME FloodTypes, FloodInv, NEW p \in Procs, DispatchingFlood(p)
  PROVE  FloodInv'
  <1>1. ASSUME NEW f \in Floods, DispatchBegin(p, f) PROVE FloodInv'
    <2> DEFINE c == [Idle EXCEPT !.pc = "score", !.flood = f, !.row = flood[f]]
               d(t) == [Idle EXCEPT !.pc = "manual", !.flood = f, !.row = flood[f],
                                    !.team = t]
    <2>1. c \in Ctx /\ c.pc = "score" /\ c.flood = f /\ c.row = flood[f]
      BY IdleTyped DEF FloodTypes, TypeOK, Ctx, Idle
    <2>2. ASSUME NEW t \in Teams
          PROVE  /\ d(t) \in Ctx /\ d(t).pc = "manual" /\ d(t).flood = f
                 /\ d(t).row = flood[f] /\ d(t).team = t
      BY IdleTyped DEF FloodTypes, TypeOK, Ctx, Idle
    <2>3. \/ ctx' = [ctx EXCEPT ![p] = c]
          \/ \E t \in Teams : ctx' = [ctx EXCEPT ![p] = d(t)]
      BY <1>1 DEF DispatchBegin
    <2>4. /\ UNCHANGED <<flood, sos, origin, undone>>
          /\ flood[f].status = "VERIFYING" /\ f \in Support
      BY <1>1 DEF DispatchBegin
    <2> HIDE DEF c, d
    <2>5. \A q \in Procs : Handles(q) => ctx[q].flood # f
      BY <1>1 DEF DispatchBegin, Locked, About, Handles
    <2>6. CASE ctx' = [ctx EXCEPT ![p] = c]
      <3>1. CallOK(c, flood[f], undone)
        BY <2>1, <2>4 DEF CallOK, Saving, Dispatching
      <3> QED
        BY <2>1, <2>4, <2>5, <2>6, <3>1, ReadKept
    <2>7. ASSUME NEW t \in Teams, ctx' = [ctx EXCEPT ![p] = d(t)] PROVE FloodInv'
      <3>1. PICK e \in Ctx : e = d(t)
        BY <2>2
      <3>2. /\ e.pc = "manual" /\ e.flood = f /\ CallOK(e, flood[f], undone)
            /\ ctx' = [ctx EXCEPT ![p] = e]
        BY <2>2, <2>4, <2>7, <3>1 DEF CallOK, Saving, Dispatching
      <3> QED
        BY <2>4, <2>5, <3>2, ReadKept
    <2> QED
      BY <2>3, <2>6, <2>7
  <1>2. ASSUME Score(p) PROVE FloodInv'
    <2>1. PICK d \in Ctx : d = ctx[p]
      BY DEF FloodTypes, TypeOK
    <2>2. Handles(p) /\ d.pc = "score" /\ CallOK(d, flood[d.flood], undone)
      BY <1>2, <2>1 DEF Score, Handles, Dispatching, FloodInv, CallsOK
    <2>3. PICK cands \in SUBSET Teams :
             ctx' = [ctx EXCEPT ![p].pc = "auto", ![p].cands = cands]
      BY <1>2 DEF Score
    <2> DEFINE c == [d EXCEPT !.pc = "auto", !.cands = cands]
    <2>4. c \in Ctx /\ c.pc = "auto" /\ c.flood = d.flood /\ c.row = d.row
      BY DEF Ctx
    <2>5. ctx' = [ctx EXCEPT ![p] = c]
      BY <2>1, <2>3 DEF FloodTypes, TypeOK, Ctx
    <2> HIDE DEF c
    <2>6. c.flood \in Floods /\ CallOK(c, flood[c.flood], undone)
      BY <2>2, <2>4 DEF CallOK, Saving, Dispatching
    <2>7. \A q \in Procs \ {p} : Handles(q) => ctx[q].flood # c.flood
      BY <2>1, <2>2, <2>4 DEF FloodInv, Apart
    <2> QED
      BY <1>2, <2>4, <2>5, <2>6, <2>7, ReadKept DEF Score
  <1>3. ASSUME NEW s \in Sos, DispatchAuto(p, s) PROVE FloodInv'
    <2>1. /\ sos'[s].status \in {"DISPATCHED", "PENDING", "PENDING_SPECIALIST"}
          /\ \A u \in Sos \ {s} : sos'[u] = sos[u]
      BY <1>3 DEF DispatchAuto, Queues, Assigned, FloodTypes, TypeOK, SosRow
    <2> QED
      BY <1>3, <2>1, CommitStep DEF DispatchAuto
  <1>4. ASSUME NEW s \in Sos, DispatchManual(p, s) PROVE FloodInv'
    <2>1. sos'[s].status = "DISPATCHED" /\ \A u \in Sos \ {s} : sos'[u] = sos[u]
      BY <1>4 DEF DispatchManual, Assigned, FloodTypes, TypeOK, SosRow
    <2> QED
      BY <1>4, <2>1, CommitStep DEF DispatchManual
  <1> QED
    BY <1>1, <1>2, <1>3, <1>4 DEF DispatchingFlood

\* New reports, failures and the rest of the system keep the invariant.
LEMMA OtherSteps ==
  ASSUME FloodTypes, FloodInv,
         \/ \E f \in Floods : Create(f)
         \/ \E p \in Procs : Fails(p)
         \/ Elsewhere
         \/ UNCHANGED vars
  PROVE  FloodInv'
  <1>1. ASSUME NEW f \in Floods, Create(f) PROVE FloodInv'
    <2> DEFINE r == [flood[f] EXCEPT !.status = "PENDING"]
    <2>1. /\ r \in FloodRow /\ r.status = "PENDING"
          /\ r.linked = flood[f].linked /\ r.onMap = flood[f].onMap
      BY DEF FloodTypes, TypeOK, FloodRow, FloodStatus
    <2>2. flood' = [flood EXCEPT ![f] = r] /\ flood[f].status = "NONE"
          /\ UNCHANGED <<sos, origin, ctx, undone>>
      BY <1>1 DEF Create
    <2> HIDE DEF r
    <2>3. f \notin undone => (flood[f].onMap <=> flood[f].status = "APPROVED")
      BY DEF FloodInv, OnMapIsApproved
    <2>4. FreshUnlinked' /\ LinkedBothWays' /\ OnMapIsApproved'
      BY <2>1, <2>2, <2>3, LinksKept
    <2>5. \A q \in Procs : Handles(q) => ctx[q].flood # f
      BY <2>2 DEF FloodInv, CallsOK, CallOK, Handles
    <2>6. \A g \in Floods \ {f} : flood'[g] = flood[g]
      BY <2>2 DEF FloodTypes, TypeOK
    <2>7. ASSUME NEW q \in Procs PROVE CallOK(ctx[q], flood'[ctx[q].flood], undone)
      <3>1. CallOK(ctx[q], flood[ctx[q].flood], undone)
        BY DEF FloodInv, CallsOK
      <3>2. ctx[q].pc \in Dispatching => flood'[ctx[q].flood] = flood[ctx[q].flood]
        BY <2>5, <2>6, <3>1 DEF Handles, CallOK, Dispatching
      <3> QED
        BY <3>1, <3>2 DEF CallOK
    <2>8. Apart' /\ CallsOK'
      BY <2>2, <2>7 DEF FloodInv, Apart, CallsOK, Handles
    <2> QED
      BY <2>4, <2>8 DEF FloodInv
  <1>2. ASSUME NEW p \in Procs, Fails(p) PROVE FloodInv'
    BY <1>2, IdleKept DEF Fails, Returns
  <1>3. ASSUME UNCHANGED <<flood, origin, ctx, undone>>,
               \A u \in Sos : sos'[u].status = "NONE" => sos[u].status = "NONE"
        PROVE  FloodInv'
    BY <1>3 DEF FloodInv, FreshUnlinked, LinkedBothWays, OnMapIsApproved, Apart, CallsOK,
              Handles
  <1>4. ASSUME NEW s \in Sos, NEW t \in Teams, TakenElsewhere(s, t) PROVE FloodInv'
    <2>1. \A u \in Sos : sos'[u].status = "NONE" => sos[u].status = "NONE"
      BY <1>4 DEF TakenElsewhere, Assigned, FloodTypes, TypeOK, SosRow
    <2> QED
      BY <1>3, <1>4, <2>1 DEF TakenElsewhere
  <1>5. ASSUME NEW s \in Sos, ResolvedElsewhere(s) PROVE FloodInv'
    <2>1. \A u \in Sos : sos'[u].status = "NONE" => sos[u].status = "NONE"
      BY <1>5 DEF ResolvedElsewhere, FloodTypes, TypeOK, SosRow
    <2> QED
      BY <1>3, <1>5, <2>1 DEF ResolvedElsewhere
  <1>6. ASSUME NEW t \in Teams, OffDutyElsewhere(t) PROVE FloodInv'
    BY <1>3, <1>6 DEF OffDutyElsewhere
  <1>7. CASE UNCHANGED vars
    BY <1>3, <1>7 DEF vars
  <1> QED
    BY <1>1, <1>2, <1>4, <1>5, <1>6, <1>7 DEF Elsewhere

\* The invariant holds at first.
LEMMA InvInit == Init => FloodInv
  BY FloodAssumption DEF Init, FloodInv, FreshUnlinked, LinkedBothWays, OnMapIsApproved,
     Apart, CallsOK, CallOK, Handles, Saving, Dispatching, NoReport, Idle

\* Every step keeps the invariant.
LEMMA InvStep == FloodTypes /\ FloodInv /\ [Next]_vars => FloodInv'
  <1> SUFFICES ASSUME FloodTypes, FloodInv, [Next]_vars PROVE FloodInv'
    OBVIOUS
  <1>1. \/ \E f \in Floods : Create(f)
        \/ \E p \in Procs : Reviewing(p) \/ DispatchingFlood(p) \/ Fails(p)
        \/ Elsewhere
        \/ UNCHANGED vars
    BY DEF Next
  <1> QED
    BY <1>1, ReviewStep, DispatchStep, OtherSteps

\* A final report is written by nobody but the save of an older copy.
LEMMA FinalStep ==
  ASSUME FloodTypes, FloodInv, [Next]_vars, NEW f \in Floods, Final(flood[f]), flood'[f] # flood[f]
  PROVE  \E p \in Procs : /\ ctx[p].pc = "update" /\ ctx'[p] = Idle
                          /\ ctx[p].flood = f /\ ~Final(ctx[p].read)
  <1>0. \A g \in Floods : \A row : flood' = [flood EXCEPT ![g] = row] => g = f
    BY DEF FloodTypes, TypeOK
  <1>1. ASSUME NEW g \in Floods, Create(g) PROVE FALSE
    BY <1>0, <1>1 DEF Create, Final
  <1>2. ASSUME NEW p \in Procs, NEW s \in Sos, Commits(p, s), Handles(p) PROVE FALSE
    <2>1. CallOK(ctx[p], flood[ctx[p].flood], undone)
      BY DEF FloodInv, CallsOK
    <2>2. ctx[p].flood \in Floods /\ flood[ctx[p].flood].status = "VERIFYING"
      BY <1>2, <2>1 DEF CallOK, Handles, Dispatching
    <2> QED
      BY <1>0, <1>2, <2>2 DEF Commits, Final
  <1>3. \/ \E g \in Floods : Create(g)
        \/ \E p \in Procs : SaveUpdate(p)
        \/ \E p \in Procs, s \in Sos : Commits(p, s) /\ Handles(p)
    BY DEF Next, vars, Reviewing, ApproveMap, UpdateStatus, SaveSelect, DispatchingFlood,
           DispatchBegin, Score, DispatchAuto, DispatchManual, Handles, Dispatching, Fails,
           Elsewhere, TakenElsewhere, ResolvedElsewhere, OffDutyElsewhere
  <1>4. PICK p \in Procs : SaveUpdate(p)
    BY <1>1, <1>2, <1>3
  <1>5. /\ ctx[p].pc = "update" /\ CallOK(ctx[p], flood[ctx[p].flood], undone)
        /\ ctx'[p] = Idle
    BY <1>4 DEF SaveUpdate, Returns, FloodInv, CallsOK, FloodTypes, TypeOK
  <1>6. ctx[p].flood \in Floods /\ ~Final(ctx[p].read)
    BY <1>5 DEF CallOK, Saving, Reviewed, Final
  <1>7. ctx[p].flood = f
    BY <1>0, <1>4, <1>6 DEF SaveUpdate
  <1> QED
    BY <1>5, <1>6, <1>7

\* However many administrators dispatch and review a report at once and wherever
\* their calls fail, the report and one SOS request name each other, or it is not
\* dispatched -- unless a save wrote back what others had changed
\* (flood-request.repository.impl.ts:56).
THEOREM OneSosPerReport == Spec => []LinkedBothWays
  <1>1. FloodInv => LinkedBothWays
    BY DEF FloodInv
  <1> QED
    BY <1>1, TypeInit, TypeStep, InvInit, InvStep, PTL DEF Spec

\* With the same exception, the map shows the approved declarations and nothing else.
THEOREM MapShowsApproved == Spec => []OnMapIsApproved
  <1>1. FloodInv => OnMapIsApproved
    BY DEF FloodInv
  <1> QED
    BY <1>1, TypeInit, TypeStep, InvInit, InvStep, PTL DEF Spec

\* Whatever overlaps, an approved or dispatched report changes only by the save of a
\* copy that was read before.
THEOREM FinalReportsStay == Spec => FinalStays
  <1>1. ASSUME FloodTypes, FloodInv, [Next]_vars
        PROVE  [\A f \in Floods :
                   Final(flood[f]) /\ flood'[f] # flood[f] =>
                      \E p \in Procs : /\ ctx[p].pc = "update" /\ ctx'[p] = Idle
                                       /\ ctx[p].flood = f /\ ~Final(ctx[p].read)]_vars
    BY <1>1, FinalStep
  <1> QED
    BY <1>1, TypeInit, TypeStep, InvInit, InvStep, PTL DEF Spec, FinalStays

-----------------------------------------------------------------------------
(* The rows of requests and teams, however saves overlap.                  *)

\* Requests that wait have no team.  Without it a team that takes one of them
\* might have been counted for it before.
WaitingHaveNone ==
    \A s \in Sos : sos[s].status \in Waiting \cup {"NONE"} => sos[s].team = NoTeam
CasesInv == CasesCounted /\ WaitingHaveNone

\* A team takes a request that nobody has.
LEMMA TakesKeeps ==
  ASSUME FloodTypes, CasesInv, NEW s \in Sos, NEW t \in Teams,
         sos[s].status \in Waiting \cup {"NONE"},
         sos' = Assigned(sos, s, t), team' = TakesCase(team, t)
  PROVE  CasesInv'
  <1>0. sos \in [Sos -> SosRow] /\ team \in [Teams -> TeamRow] /\ sos[s].team = NoTeam
    BY DEF FloodTypes, TypeOK, CasesInv, WaitingHaveNone
  <1>1. WaitingHaveNone'
    BY <1>0 DEF CasesInv, WaitingHaveNone, Assigned, Waiting
  <1>2. ASSUME NEW u \in Teams PROVE team'[u].cases = ActiveOthers(sos', u, NoSos)
    <2>1. team'[u].cases = IF u = t THEN team[u].cases + 1 ELSE team[u].cases
      BY <1>0 DEF TakesCase
    <2>2. team[u].cases = ActiveOthers(sos, u, NoSos)
      BY DEF CasesInv, CasesCounted
    <2> QED
      BY <1>0, <2>1, <2>2, OneMoreCase
  <1> QED
    BY <1>1, <1>2 DEF CasesInv, CasesCounted

\* A request changes that no team is counted for.
LEMMA UncountedKeeps ==
  ASSUME FloodTypes, CasesInv,
         \A s \in Sos : sos'[s].team = sos[s].team /\ (sos'[s].status # sos[s].status =>
                           sos'[s].status \in Waiting /\ sos[s].team = NoTeam),
         \A t \in Teams : team'[t].cases = team[t].cases
  PROVE  CasesInv'
  <1>1. WaitingHaveNone'
    BY DEF CasesInv, WaitingHaveNone
  <1>2. ASSUME NEW u \in Teams PROVE team'[u].cases = ActiveOthers(sos', u, NoSos)
    <2>1. team[u].cases = ActiveOthers(sos, u, NoSos)
      BY DEF CasesInv, CasesCounted
    <2>2. ActiveOthers(sos, u, NoSos) = ActiveOthers(sos', u, NoSos)
      BY SameCount, RowsAssumption
    <2> QED
      BY <2>1, <2>2
  <1> QED
    BY <1>1, <1>2 DEF CasesInv, CasesCounted

LEMMA CasesStep == FloodTypes /\ CasesInv /\ [Next]_vars => CasesInv'
  <1> SUFFICES ASSUME FloodTypes, CasesInv, [Next]_vars PROVE CasesInv'
    OBVIOUS
  <1>0. sos \in [Sos -> SosRow] /\ team \in [Teams -> TeamRow]
    BY DEF FloodTypes, TypeOK
  <1>1. ASSUME UNCHANGED <<sos, team>> PROVE CasesInv'
    BY <1>1 DEF CasesInv, CasesCounted, WaitingHaveNone
  <1>2. ASSUME NEW s \in Sos, NEW new \in Waiting, sos[s].status = "NONE",
               sos' = [sos EXCEPT ![s].status = new], UNCHANGED team
        PROVE  CasesInv'
    <2>1. sos[s].team = NoTeam
      BY <1>2 DEF CasesInv, WaitingHaveNone
    <2>2. \A x \in Sos : sos'[x].team = sos[x].team /\ (sos'[x].status # sos[x].status =>
                            sos'[x].status \in Waiting /\ sos[x].team = NoTeam)
      BY <1>0, <1>2, <2>1 DEF SosRow
    <2> QED
      BY <1>2, <2>2, UncountedKeeps
  <1>3. ASSUME NEW p \in Procs, NEW s \in Sos, DispatchAuto(p, s) PROVE CasesInv'
    <2>1. sos[s].status = "NONE"
      BY <1>3 DEF DispatchAuto, Commits
    <2>2. ASSUME NEW t \in ctx[p].cands, sos' = Assigned(sos, s, t), team' = TakesCase(team, t)
          PROVE  CasesInv'
      <3>1. t \in Teams
        BY DEF FloodTypes, TypeOK, Ctx
      <3> QED
        BY <2>1, <2>2, <3>1, TakesKeeps
    <2>3. CASE Queues(p, s)
      BY <1>2, <2>1, <2>3 DEF Queues, Waiting
    <2>4. ASSUME sos' = [sos EXCEPT ![s].status = "PENDING_SPECIALIST"], UNCHANGED team
          PROVE  CasesInv'
      BY <1>2, <2>1, <2>4 DEF Waiting
    <2> QED
      BY <1>3, <2>2, <2>3, <2>4 DEF DispatchAuto
  <1>4. ASSUME NEW p \in Procs, NEW s \in Sos, DispatchManual(p, s) PROVE CasesInv'
    <2>1. sos[s].status = "NONE" /\ ctx[p].team \in Teams
      BY <1>4 DEF DispatchManual, Commits, FloodTypes
    <2> QED
      BY <1>4, <2>1, TakesKeeps DEF DispatchManual
  <1>5. ASSUME NEW s \in Sos, NEW t \in Teams, TakenElsewhere(s, t) PROVE CasesInv'
    BY <1>5, TakesKeeps DEF TakenElsewhere
  <1>6. ASSUME NEW s \in Sos, ResolvedElsewhere(s) PROVE CasesInv'
    <2> DEFINE t == sos[s].team
    <2>1. /\ sos'[s].status = "RESOLVED" /\ sos'[s].team = t /\ sos[s].status = "DISPATCHED"
          /\ \A x \in Sos \ {s} : sos'[x] = sos[x]
      BY <1>0, <1>6 DEF ResolvedElsewhere, SosRow
    <2>2. WaitingHaveNone'
      BY <2>1 DEF CasesInv, WaitingHaveNone, Waiting
    <2>3. ASSUME NEW u \in Teams PROVE team'[u].cases = ActiveOthers(sos', u, NoSos)
      <3>1. CASE u = t
        <4>1. team'[u].cases = ActiveOthers(sos, u, s)
          BY <1>0, <1>6, <3>1 DEF ResolvedElsewhere, Recounted
        <4>2. ActiveOthers(sos, u, s) = ActiveOthers(sos', u, NoSos)
          BY <2>1, SameCount, RowsAssumption DEF Active
        <4> QED
          BY <4>1, <4>2
      <3>2. CASE u # t
        <4>1. team'[u] = team[u]
          BY <1>0, <1>6, <3>2 DEF ResolvedElsewhere
        <4>2. ActiveOthers(sos, u, NoSos) = ActiveOthers(sos', u, NoSos)
          BY <2>1, <3>2, SameCount, RowsAssumption
        <4>3. team[u].cases = ActiveOthers(sos, u, NoSos)
          BY DEF CasesInv, CasesCounted
        <4> QED
          BY <4>1, <4>2, <4>3
      <3> QED
        BY <3>1, <3>2
    <2> QED
      BY <2>2, <2>3 DEF CasesInv, CasesCounted
  <1>7. ASSUME NEW t \in Teams, OffDutyElsewhere(t) PROVE CasesInv'
    <2>1. \A u \in Teams : team'[u].cases = team[u].cases
      BY <1>0, <1>7 DEF OffDutyElsewhere, TeamRow
    <2>2. \A s \in Sos : sos'[s] = sos[s]
      BY <1>7 DEF OffDutyElsewhere
    <2> QED
      BY <2>1, <2>2, UncountedKeeps
  <1> QED
    BY <1>1, <1>3, <1>4, <1>5, <1>6, <1>7
       DEF Next, vars, Create, Reviewing, ApproveMap, UpdateStatus, SaveSelect, SaveUpdate,
           DispatchingFlood, DispatchBegin, Score, Fails, Elsewhere

\* The cases in a team's row are the requests that have the team, though an
\* administrator may give it a second one while the system resolves the first:
\* however calls overlap, for saves that overlap others as well.
THEOREM CasesAreCounted == Spec => []CasesCounted
  <1>1. Init => CasesInv
    <2> SUFFICES ASSUME Init PROVE CasesInv
      OBVIOUS
    <2>1. WaitingHaveNone
      BY DEF Init, WaitingHaveNone
    <2>2. ASSUME NEW t \in Teams PROVE ActiveOthers(sos, t, NoSos) = 0
      <3>1. {s \in Sos \ {NoSos} : sos[s].team = t /\ sos[s].status \in Active} = {}
        BY DEF Init, Active
      <3> QED
        BY <3>1, FS_EmptySet DEF ActiveOthers
    <2> QED
      BY <2>1, <2>2 DEF Init, CasesInv, CasesCounted
  <1>2. CasesInv => CasesCounted
    BY DEF CasesInv
  <1> QED
    BY <1>1, <1>2, TypeInit, TypeStep, CasesStep, PTL DEF Spec

\* A request that is PENDING waits for some team, since no event announces it:
\* the queue row is written in the transaction that makes the request.
THEOREM NobodyIsForgotten == Spec => []NobodyForgotten
  <1>1. Init => NobodyForgotten
    BY DEF Init, NobodyForgotten
  <1>2. FloodTypes /\ NobodyForgotten /\ [Next]_vars => NobodyForgotten'
    <2> SUFFICES ASSUME FloodTypes, NobodyForgotten, [Next]_vars,
                        NEW s \in Sos, sos'[s].status = "PENDING"
                 PROVE  \E t \in Teams : <<s, t>> \in waits'
      BY DEF NobodyForgotten
    <2>0. sos \in [Sos -> SosRow]
      BY DEF FloodTypes, TypeOK
    <2>1. waits \subseteq waits'
      BY DEF Next, vars, Create, Reviewing, ApproveMap, UpdateStatus, SaveSelect, SaveUpdate,
             DispatchingFlood, DispatchBegin, Score, DispatchAuto, Queues, DispatchManual, Fails,
             Elsewhere, TakenElsewhere, ResolvedElsewhere, OffDutyElsewhere
    <2>2. CASE sos[s].status = "PENDING"
      BY <2>1, <2>2 DEF NobodyForgotten
    <2>3. CASE sos[s].status # "PENDING"
      <3>a. ASSUME NEW x \in Sos, NEW t, sos' = Assigned(sos, x, t) PROVE FALSE
        BY <2>0, <2>3, <3>a DEF Assigned, SosRow
      <3>b. ASSUME NEW x \in Sos, NEW new, sos' = [sos EXCEPT ![x].status = new] PROVE x = s /\ new = "PENDING"
        BY <2>0, <2>3, <3>b DEF SosRow
      <3>c. sos' # sos
        BY <2>3
      <3>d. (\E p \in Procs : DispatchingFlood(p)) \/ Elsewhere
        BY <3>c DEF Next, vars, Create, Reviewing, ApproveMap, UpdateStatus, SaveSelect,
                    SaveUpdate, Fails
      <3>e. ~Elsewhere
        BY <3>a, <3>b, <3>c DEF Elsewhere, TakenElsewhere, ResolvedElsewhere, OffDutyElsewhere
      <3>f. PICK p \in Procs, x \in Sos : DispatchAuto(p, x)
        BY <3>a, <3>c, <3>d, <3>e DEF DispatchingFlood, DispatchBegin, Score, DispatchManual
      <3>1. Queues(p, x) /\ x = s
        BY <3>a, <3>b, <3>f DEF DispatchAuto, Queues
      <3>2. PICK t \in ctx[p].cands : waits' = waits \cup {<<x, t>>}
        BY <3>1 DEF Queues
      <3>3. t \in Teams
        BY DEF FloodTypes, TypeOK, Ctx
      <3> QED
        BY <3>1, <3>2, <3>3
    <2> QED
      BY <2>2, <2>3
  <1> QED
    BY <1>1, <1>2, TypeInit, TypeStep, PTL DEF Spec
=============================================================================
