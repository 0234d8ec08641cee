------------------------- MODULE SosDispatchProofs -------------------------
(***************************************************************************)
(* Proofs about SosDispatch, for any sets of requests, teams and handlers: *)
(* type correctness, the agreement of a team's two columns, and that a     *)
(* closed request at rest stays closed; and about Reports, whose queries   *)
(* run beside it.                                                          *)
(***************************************************************************)
EXTENDS Reports, FiniteSetTheorems, SequenceTheorems, TLAPS

-----------------------------------------------------------------------------
(* The rows. *)

(* A team has at most as many cases counted as there are requests. *)
LEMMA CountTyped ==
    ASSUME NEW requests, NEW t, NEW cur
    PROVE  /\ ActiveOthers(requests, t, cur) \in 0..Cardinality(Sos)
           /\ ActiveOthers(requests, t, cur) \in Nat
<1> DEFINE C == {s \in Sos \ {cur} : /\ requests[s].team = t
                                     /\ requests[s].status \in Active}
<1>1. C \in SUBSET Sos
  OBVIOUS
<1>2. IsFiniteSet(C) /\ Cardinality(C) <= Cardinality(Sos)
  BY <1>1, FS_Subset, RowsAssumption
<1>3. Cardinality(C) \in Nat /\ Cardinality(Sos) \in Nat
  BY <1>2, FS_CardinalityType, RowsAssumption
<1>4. ActiveOthers(requests, t, cur) = Cardinality(C)
  BY DEF ActiveOthers
<1> HIDE DEF C
<1> QED
  BY <1>2, <1>3, <1>4

(* Assigning a team keeps the table of requests. *)
LEMMA AssignedTyped ==
    ASSUME NEW requests \in [Sos -> SosRow], NEW s, NEW t \in Teams
    PROVE  Assigned(requests, s, t) \in [Sos -> SosRow]
BY DEF Assigned, SosRow, SosStatus

(* What a context refers to at each of its steps. *)
OperandsOf(c) ==
    /\ c.pc \in {"score", "fallback", "commit", "assign", "manual",
                 "release", "teamRead", "sosSelect", "sosSave"} => c.sos \in Sos
    /\ c.pc \in {"release", "teamRead", "teamSelect", "teamSave"} => c.team \in Teams
    /\ c.pc \in {"assign", "manual"} => \E t \in Teams : c.cands = <<t>>

Operands == \A p \in Calls : OperandsOf(ctx[p])

TypeInv == TypeOK /\ Operands

(* Rows that a save of a team holds agree as well. *)
HeldOK(c, apart) ==
    c.pc \in {"teamSelect", "teamSave"} /\ c.team \notin apart => LoadOK(c.row)

HeldRowsOK == \A p \in Calls : HeldOK(ctx[p], torn)

LoadInv == LoadMatchesStatus /\ HeldRowsOK

-----------------------------------------------------------------------------
(* Operators.                                                              *)

(* An idle context is a context. *)
LEMMA IdleTyped == Idle \in Ctx
BY ConstantsAssumption DEF Idle, Ctx, NoRow, NoRequest, TeamRow, SosRow, TeamStatus,
   SosStatus, Steps

(* A recounted team is a row whose columns agree. *)
LEMMA RecountedOK ==
    ASSUME NEW n \in Nat
    PROVE  Recounted(n) \in TeamRow /\ LoadOK(Recounted(n))
BY DEF Recounted, TeamRow, TeamStatus, LoadOK, Free

(* A team that takes a case is DISPATCHED with at least one case. *)
LEMMA TakesCaseOK ==
    ASSUME team \in [Teams -> TeamRow], NEW t \in Teams
    PROVE  /\ TakesCase(team, t) \in [Teams -> TeamRow]
           /\ \A u \in Teams : TakesCase(team, t)[u] = team[u] \/ LoadOK(TakesCase(team, t)[u])
<1> DEFINE row == [status |-> "DISPATCHED", cases |-> team[t].cases + 1]
<1>1. row \in TeamRow /\ LoadOK(row)
  BY DEF TeamRow, TeamStatus, LoadOK, Free
<1>2. TakesCase(team, t) = [team EXCEPT ![t] = row]
  BY DEF TakesCase
<1> HIDE DEF row
<1> QED
  BY <1>1, <1>2

(* A ranking is a sequence of teams. *)
LEMMA RankingTyped ==
    ASSUME NEW s \in Sos, NEW c \in Rankings(s)
    PROVE  c \in Seq(Teams)
<1>1. FreeIn(s) \subseteq Teams
  BY ConstantsAssumption DEF FreeIn
<1>2. PICK n \in 1..MaxCandidates : c \in [1..n -> FreeIn(s)]
  BY DEF Rankings
<1>3. n \in Nat
  BY ConstantsAssumption, <1>2
<1>4. c \in [1..n -> Teams]
  BY <1>1, <1>2
<1> QED
  BY <1>3, <1>4

(* A candidate of a ranking is a team. *)
LEMMA CandidateTyped ==
    ASSUME NEW c \in Seq(Teams), NEW i \in DOMAIN c
    PROVE  c[i] \in Teams
OBVIOUS

(* A queue row is added for a request and a team of the system. *)
LEMMA EnqueueTyped ==
    ASSUME queue \subseteq QueueRow, NEW s \in Sos, NEW t \in Teams, Enqueue(s, t)
    PROVE  queue' \subseteq QueueRow
BY DEF Enqueue, QueueRow

(* A step that gives one context a new value keeps the others. *)
LEMMA CtxStep ==
    ASSUME ctx \in [Calls -> Ctx], Operands,
           NEW p \in Calls, NEW c \in Ctx, OperandsOf(c),
           ctx' = [ctx EXCEPT ![p] = c]
    PROVE  ctx' \in [Calls -> Ctx] /\ Operands'
<1>1. \A q \in Calls : ctx'[q] = IF q = p THEN c ELSE ctx[q]
  OBVIOUS
<1>2. ctx' \in [Calls -> Ctx]
  OBVIOUS
<1>3. \A q \in Calls : OperandsOf(ctx'[q])
  BY <1>1 DEF Operands
<1> QED
  BY <1>2, <1>3 DEF Operands, OperandsOf

(* An idle context refers to nothing, nor does the worker's between requests. *)
LEMMA ReturnsStep ==
    ASSUME ctx \in [Calls -> Ctx], Operands, NEW p \in Calls, ctx' = Returns(p)
    PROVE  ctx' \in [Calls -> Ctx] /\ Operands'
<1> DEFINE c == IF p = Worker THEN [Idle EXCEPT !.pc = "batch"] ELSE Idle
<1>1. c \in Ctx
  BY IdleTyped DEF Ctx, Steps
<1>2. OperandsOf(c)
  BY DEF OperandsOf, Idle
<1>3. ctx' = [ctx EXCEPT ![p] = c]
  BY DEF Returns
<1> HIDE DEF c
<1> QED
  BY <1>1, <1>2, <1>3, CtxStep

(* A context that is reset. *)
LEMMA IdleStep ==
    ASSUME ctx \in [Calls -> Ctx], Operands, NEW p \in Calls,
           ctx' = [ctx EXCEPT ![p] = Idle]
    PROVE  ctx' \in [Calls -> Ctx] /\ Operands'
BY IdleTyped, CtxStep DEF OperandsOf, Idle

(* A context that starts to score a request. *)
LEMMA StartsStep ==
    ASSUME ctx \in [Calls -> Ctx], Operands, NEW p \in Calls, NEW s \in Sos,
           ctx' = Starts(p, "score", s)
    PROVE  ctx' \in [Calls -> Ctx] /\ Operands'
<1> DEFINE c == [Idle EXCEPT !.pc = "score", !.sos = s]
<1>1. c \in Ctx
  BY IdleTyped DEF Ctx, Steps
<1>2. OperandsOf(c)
  BY DEF OperandsOf, Idle
<1>3. ctx' = [ctx EXCEPT ![p] = c]
  BY DEF Starts
<1> HIDE DEF c
<1> QED
  BY <1>1, <1>2, <1>3, CtxStep

(* A context that moves on to a step whose operands it has. *)
LEMMA GoesStep ==
    ASSUME ctx \in [Calls -> Ctx], Operands, NEW p \in Calls, NEW pc \in Steps,
           ctx' = Goes(p, pc), OperandsOf([ctx[p] EXCEPT !.pc = pc])
    PROVE  ctx' \in [Calls -> Ctx] /\ Operands'
<1> DEFINE c == [ctx[p] EXCEPT !.pc = pc]
<1>1. c \in Ctx
  BY DEF Ctx
<1>2. ctx' = [ctx EXCEPT ![p] = c]
  BY DEF Goes
<1> HIDE DEF c
<1> QED
  BY <1>1, <1>2, CtxStep DEF c

-----------------------------------------------------------------------------
(* Type correctness.                                                       *)

(* Types hold at first. *)
LEMMA TypeInit == Init => TypeInv
<1> SUFFICES ASSUME Init PROVE TypeInv
  OBVIOUS
<1>1. TypeOK
  BY IdleTyped, ConstantsAssumption DEF Init, TypeOK, SosRow, TeamRow, Calls, NoRequest
<1>2. Operands
  BY DEF Init, Operands, OperandsOf, Idle
<1> QED
  BY <1>1, <1>2 DEF TypeInv

(* A save leaves a row of a team. *)
LEMMA SavedTyped ==
    ASSUME NEW c \in Ctx, NEW now \in TeamRow
    PROVE  SavedTeam(c, now) \in TeamRow
BY DEF Ctx, TeamRow, SavedTeam, Written

(* A save of a team goes on with the request, if the call is about one. *)
LEMMA SaveEndsTyped ==
    ASSUME ctx \in [Calls -> Ctx], Operands, NEW p \in Calls, ctx[p].pc = "teamSave", SaveEnds(p)
    PROVE  ctx' \in [Calls -> Ctx] /\ Operands'
<1>1. CASE ctx[p].sos = NoSos
  BY <1>1, IdleStep DEF SaveEnds
<1>2. CASE ctx[p].sos # NoSos
  <2>1. ctx[p].sos \in Sos
    BY <1>2 DEF Ctx
  <2>2. OperandsOf([ctx[p] EXCEPT !.pc = "sosSelect"])
    BY <2>1 DEF OperandsOf, Ctx
  <2> QED
    BY <1>2, <2>2, GoesStep DEF SaveEnds, Steps
<1> QED
  BY <1>1, <1>2

(* What an operator asks for are a status and a count. *)
LEMMA EditTyped ==
    ASSUME TypeOK, NEW t \in Teams
    PROVE  /\ EditStatuses \cup {team[t].status} \subseteq TeamStatus
           /\ EditCases \cup {team[t].cases} \subseteq Nat
BY ConstantsAssumption DEF TypeOK, TeamRow

(* Every step keeps the types and the operands. *)
LEMMA TypeStep == TypeInv /\ [Next]_vars => TypeInv'
<1> SUFFICES ASSUME TypeInv, [Next]_vars PROVE TypeInv'
  OBVIOUS
<1>0. TypeOK /\ Operands /\ ctx \in [Calls -> Ctx]
  BY DEF TypeInv, TypeOK
<1> USE <1>0
<1>1. ASSUME NEW s \in Sos, Create(s) PROVE TypeInv'
  <2>1. ctx' \in [Calls -> Ctx] /\ Operands'
    BY <1>1 DEF Create, Operands, OperandsOf
  <2>2. TypeOK'
    BY <1>1, <2>1 DEF Create, TypeOK, dbVars, SosRow, SosStatus
  <2> QED
    BY <2>1, <2>2 DEF TypeInv
<1>2. ASSUME NEW p \in Procs, NEW s \in Sos, HandleSosCreated(p, s) PROVE TypeInv'
  <2>1. ctx' \in [Calls -> Ctx] /\ Operands'
    BY <1>2, StartsStep DEF HandleSosCreated, Calls, Operands, OperandsOf
  <2>2. TypeOK'
    BY <1>2, <2>1 DEF HandleSosCreated, TypeOK, dbVars
  <2> QED
    BY <2>1, <2>2 DEF TypeInv
<1>3. ASSUME NEW p \in Procs, NEW s \in Sos, OfferTimeout(p, s) PROVE TypeInv'
  <2>1. ctx' \in [Calls -> Ctx] /\ Operands'
    BY <1>3, StartsStep DEF OfferTimeout, Calls, Operands, OperandsOf
  <2>2. TypeOK'
    BY <1>3, <2>1 DEF OfferTimeout, TypeOK, dbVars
  <2> QED
    BY <2>1, <2>2 DEF TypeInv
<1>4. ASSUME NEW s \in Sos, NEW t \in Teams, HandleSosClaim(s, t) PROVE TypeInv'
  <2>1. ctx' \in [Calls -> Ctx] /\ Operands'
    BY <1>4 DEF HandleSosClaim, Operands, OperandsOf
  <2>2. TypeOK'
    BY <1>4, <2>1, AssignedTyped, TakesCaseOK DEF HandleSosClaim, TypeOK, dbVars
  <2> QED
    BY <2>1, <2>2 DEF TypeInv
<1>5. ASSUME NEW p \in Calls, Score(p) PROVE TypeInv'
  <2> DEFINE s == ctx[p].sos
  <2>1. s \in Sos
    BY <1>5 DEF Score, Operands, OperandsOf
  <2>2. ASSUME ctx' = Goes(p, "fallback")
        PROVE  ctx' \in [Calls -> Ctx] /\ Operands'
    BY <1>5, <2>1, <2>2, GoesStep DEF Steps, OperandsOf
  <2>3. ASSUME NEW c \in Rankings(s),
               ctx' = [ctx EXCEPT ![p].pc = "commit", ![p].cands = c]
        PROVE  ctx' \in [Calls -> Ctx] /\ Operands'
    <3> DEFINE d == [ctx[p] EXCEPT !.pc = "commit", !.cands = c]
    <3>1. d \in Ctx
      BY <2>1, RankingTyped DEF Ctx, Steps
    <3>2. OperandsOf(d)
      BY <2>1 DEF OperandsOf, Ctx
    <3>3. ctx' = [ctx EXCEPT ![p] = d]
      BY <2>3
    <3> HIDE DEF d
    <3> QED
      BY <3>1, <3>2, <3>3, CtxStep
  <2>4. ctx' \in [Calls -> Ctx] /\ Operands'
    BY <1>5, <2>2, <2>3 DEF Score
  <2> QED
    BY <1>5, <2>4 DEF Score, TypeInv, TypeOK, dbVars
<1>6. ASSUME NEW p \in Calls, Fallback(p) PROVE TypeInv'
  <2>1. ctx' \in [Calls -> Ctx] /\ Operands'
    BY <1>6, ReturnsStep DEF Fallback
  <2>2. TypeOK'
    BY <1>6, <2>1 DEF Fallback, TypeOK, dbVars, SosRow, SosStatus
  <2> QED
    BY <2>1, <2>2 DEF TypeInv
<1>7. ASSUME NEW p \in Calls, CommitAssign(p) PROVE TypeInv'
  <2> DEFINE s == ctx[p].sos  c == ctx[p].cands
  <2>1. s \in Sos /\ c \in Seq(Teams)
    BY <1>7 DEF CommitAssign, Operands, OperandsOf, Ctx
  <2>2. ctx' \in [Calls -> Ctx] /\ Operands'
    BY <1>7, ReturnsStep DEF CommitAssign
  <2>3. PICK i \in DOMAIN c : sos' = Assigned(sos, s, c[i]) /\ team' = TakesCase(team, c[i])
    BY <1>7 DEF CommitAssign
  <2>4. sos' \in [Sos -> SosRow] /\ team' \in [Teams -> TeamRow]
    BY <2>1, <2>3, CandidateTyped, AssignedTyped, TakesCaseOK DEF TypeOK
  <2> QED
    BY <1>7, <2>2, <2>4 DEF CommitAssign, TypeInv, TypeOK
<1>8. ASSUME NEW p \in Calls, CommitQueue(p) PROVE TypeInv'
  <2> DEFINE s == ctx[p].sos  c == ctx[p].cands
  <2>1. s \in Sos /\ c \in Seq(Teams)
    BY <1>8 DEF CommitQueue, Operands, OperandsOf, Ctx
  <2>2. ctx' \in [Calls -> Ctx] /\ Operands'
    BY <1>8, ReturnsStep DEF CommitQueue
  <2>3. queue' \subseteq QueueRow
    BY <1>8, <2>1, CandidateTyped, EnqueueTyped DEF CommitQueue, TypeOK
  <2>4. sos' \in [Sos -> SosRow]
    BY <1>8 DEF CommitQueue, TypeOK, SosRow, SosStatus
  <2> QED
    BY <1>8, <2>2, <2>3, <2>4 DEF CommitQueue, TypeInv, TypeOK
<1>9. ASSUME NEW p \in Calls, CommitFails(p) PROVE TypeInv'
  <2> DEFINE c == [ctx[p] EXCEPT !.pc = "score", !.cands = << >>, !.tries = ctx[p].tries + 1]
  <2>1. ASSUME ctx[p].tries < MaxRetry
        PROVE  ctx' \in [Calls -> Ctx] /\ Operands'
    <3>1. c \in Ctx
      <4>1. ctx[p] \in Ctx
        OBVIOUS
      <4>2. ctx[p].tries + 1 \in 0..MaxRetry
        BY <2>1, <4>1, ConstantsAssumption DEF Ctx
      <4>3. << >> \in Seq(Teams)
        OBVIOUS
      <4> QED
        BY <4>1, <4>2, <4>3 DEF Ctx, Steps
    <3>2. OperandsOf(c)
      BY <1>9 DEF CommitFails, Operands, OperandsOf, Ctx
    <3>3. ctx' = [ctx EXCEPT ![p] = c]
      BY <1>9, <2>1 DEF CommitFails
    <3> HIDE DEF c
    <3> QED
      BY <3>1, <3>2, <3>3, CtxStep
  <2>2. ASSUME ~(ctx[p].tries < MaxRetry)
        PROVE  ctx' \in [Calls -> Ctx] /\ Operands'
    BY <1>9, <2>2, ReturnsStep DEF CommitFails
  <2>3. ctx' \in [Calls -> Ctx] /\ Operands'
    BY <2>1, <2>2
  <2> QED
    BY <1>9, <2>3 DEF CommitFails, TypeInv, TypeOK, dbVars
<1>10. ASSUME NEW p \in Procs, NEW s \in Sos, AssignAuto(p, s) PROVE TypeInv'
  <2>1. ctx' \in [Calls -> Ctx] /\ Operands'
    BY <1>10, StartsStep DEF AssignAuto, Calls
  <2>2. TypeOK'
    BY <1>10, <2>1, ConstantsAssumption DEF AssignAuto, TypeOK, dbVars, Called
  <2> QED
    BY <2>1, <2>2 DEF TypeInv
<1>11. ASSUME NEW p \in Procs, NEW s \in Sos, NEW t \in Teams, AssignManual(p, s, t) PROVE TypeInv'
  <2> DEFINE c == [Idle EXCEPT !.pc = "assign", !.sos = s, !.cands = <<t>>]
  <2>1. c \in Ctx
    <3>1. <<t>> \in Seq(Teams)
      OBVIOUS
    <3> QED
      BY <3>1, IdleTyped DEF Ctx, Steps
  <2>2. OperandsOf(c)
    BY <1>11 DEF AssignManual, TypeOK, OperandsOf, Ctx, Idle, SosRow
  <2>3. p \in Calls /\ ctx' = [ctx EXCEPT ![p] = c]
    BY <1>11 DEF AssignManual, Calls
  <2>4. ctx' \in [Calls -> Ctx] /\ Operands'
    <3> HIDE DEF c
    <3> QED
      BY <2>1, <2>2, <2>3, CtxStep
  <2> QED
    BY <1>11, <2>4, ConstantsAssumption DEF AssignManual, TypeInv, TypeOK, dbVars, Called
<1>12. ASSUME NEW p \in Procs, ManualRead(p) PROVE TypeInv'
  <2> DEFINE c == [ctx[p] EXCEPT !.pc = "manual", !.team = sos[ctx[p].sos].team]
  <2>1. p \in Calls /\ ctx[p].sos \in Sos
    BY <1>12 DEF ManualRead, Operands, OperandsOf, Calls
  <2>2. ASSUME ctx' = [ctx EXCEPT ![p] = Idle]
        PROVE  ctx' \in [Calls -> Ctx] /\ Operands'
    BY <2>1, <2>2, IdleStep
  <2>3. ASSUME ctx' = [ctx EXCEPT ![p].pc = "manual", ![p].team = sos[ctx[p].sos].team]
        PROVE  ctx' \in [Calls -> Ctx] /\ Operands'
    <3>1. c \in Ctx
      <4>1. ctx[p] \in Ctx /\ sos[ctx[p].sos].team \in Teams \cup {NoTeam}
        BY <2>1 DEF TypeOK, SosRow
      <4> QED
        BY <4>1 DEF Ctx, Steps
    <3>2. OperandsOf(c)
      BY <1>12, <2>1 DEF ManualRead, Operands, OperandsOf, Ctx
    <3>3. ctx' = [ctx EXCEPT ![p] = c]
      BY <2>3
    <3> HIDE DEF c
    <3> QED
      BY <2>1, <3>1, <3>2, <3>3, CtxStep
  <2>4. ctx' \in [Calls -> Ctx] /\ Operands'
    BY <1>12, <2>2, <2>3 DEF ManualRead
  <2> QED
    BY <1>12, <2>4 DEF ManualRead, TypeInv, TypeOK, dbVars
<1>13. ASSUME NEW p \in Procs, ManualCommit(p) PROVE TypeInv'
  <2> DEFINE s == ctx[p].sos  t == ctx[p].cands[1]  old == ctx[p].team
  <2>1. p \in Calls /\ t \in Teams
    BY <1>13 DEF ManualCommit, Operands, OperandsOf, Calls
  <2>2. ctx' \in [Calls -> Ctx] /\ Operands'
    BY <1>13, <2>1, IdleStep DEF ManualCommit
  <2>3. sos' \in [Sos -> SosRow]
    BY <1>13, <2>1, AssignedTyped DEF ManualCommit, TypeOK
  <2>4. TakesCase(team, t) \in [Teams -> TeamRow]
    BY <2>1, TakesCaseOK DEF TypeOK
  <2>5. Recounted(ActiveOthers(sos, old, s)) \in TeamRow
    BY CountTyped, RecountedOK
  <2>6. team' \in [Teams -> TeamRow]
    BY <1>13, <2>4, <2>5 DEF ManualCommit
  <2> QED
    BY <1>13, <2>2, <2>3, <2>6 DEF ManualCommit, TypeInv, TypeOK
<1>14. ASSUME NEW p \in Procs, NEW s \in Sos, NEW new \in NewStatuses, UpdateStatus(p, s, new) PROVE TypeInv'
  <2> DEFINE c == [Idle EXCEPT !.sos = s, !.team = sos[s].team, !.status = new,
                           !.pc = IF sos[s].team = NoTeam THEN "sosSelect"
                                  ELSE IF new = "RESOLVED" THEN "release"
                                  ELSE IF new = "ON_SITE" THEN "teamRead"
                                  ELSE "sosSelect"]
  <2>1. c \in Ctx
    BY <1>14, IdleTyped, ConstantsAssumption DEF UpdateStatus, TypeOK, Ctx, Steps, TeamRow, SosRow
  <2>2. OperandsOf(c)
    BY <1>14, ConstantsAssumption DEF UpdateStatus, TypeOK, OperandsOf, Ctx, Idle, SosRow
  <2>3. p \in Calls /\ ctx' = [ctx EXCEPT ![p] = c]
    BY <1>14 DEF UpdateStatus, Calls
  <2>4. ctx' \in [Calls -> Ctx] /\ Operands'
    <3> HIDE DEF c
    <3> QED
      BY <2>1, <2>2, <2>3, CtxStep
  <2> QED
    BY <1>14, <2>4, ConstantsAssumption DEF UpdateStatus, TypeInv, TypeOK, dbVars, Called
<1>15. ASSUME NEW p \in Procs, NEW s \in Sos, NEW byStaff \in BOOLEAN, Cancel(p, s, byStaff) PROVE TypeInv'
  <2> DEFINE c == [Idle EXCEPT !.sos = s, !.team = sos[s].team, !.status = "CANCELLED",
                           !.pc = IF sos[s].team = NoTeam THEN "sosSelect" ELSE "release"]
  <2>1. c \in Ctx
    BY <1>15, IdleTyped DEF Cancel, TypeOK, Ctx, Steps, TeamRow, SosRow, SosStatus
  <2>2. OperandsOf(c)
    BY <1>15 DEF Cancel, TypeOK, OperandsOf, Ctx, Idle, SosRow
  <2>3. p \in Calls /\ ctx' = [ctx EXCEPT ![p] = c]
    BY <1>15 DEF Cancel, Calls
  <2>4. ctx' \in [Calls -> Ctx] /\ Operands'
    <3> HIDE DEF c
    <3> QED
      BY <2>1, <2>2, <2>3, CtxStep
  <2> QED
    BY <1>15, <2>4, ConstantsAssumption DEF Cancel, TypeInv, TypeOK, dbVars, Called
<1>16. ASSUME NEW p \in Procs, Handoff(p) PROVE TypeInv'
  <2> DEFINE t == ctx[p].team  cur == ctx[p].sos
  <2>1. p \in Calls /\ t \in Teams /\ cur \in Sos
    BY <1>16 DEF Handoff, Operands, OperandsOf, Calls
  <2>2. ctx' \in [Calls -> Ctx] /\ Operands'
    BY <1>16, <2>1, GoesStep DEF Handoff, Steps, OperandsOf, Ctx
  <2>3. PICK e \in queue :
           /\ sos' = Assigned(sos, e.sos, t)
           /\ team' = [team EXCEPT ![t] = [status |-> "DISPATCHED",
                                          cases |-> ActiveOthers(sos', t, cur) + 1]]
           /\ queue' = queue \ {e}
    BY <1>16 DEF Handoff
  <2>4. sos' \in [Sos -> SosRow]
    BY <2>1, <2>3, AssignedTyped DEF TypeOK
  <2>5. ActiveOthers(sos', t, cur) \in Nat
    BY CountTyped
  <2>6. [status |-> "DISPATCHED", cases |-> ActiveOthers(sos', t, cur) + 1] \in TeamRow
    BY <2>5 DEF TeamRow, TeamStatus
  <2>7. team' \in [Teams -> TeamRow]
    BY <2>3, <2>6 DEF TypeOK
  <2> QED
    BY <1>16, <2>2, <2>3, <2>4, <2>7 DEF Handoff, TypeInv, TypeOK
<1>17. ASSUME NEW p \in Procs, Release(p) PROVE TypeInv'
  <2>1. p \in Calls /\ ctx[p].sos \in Sos
    BY <1>17 DEF Release, Operands, OperandsOf, Calls
  <2>2. ctx' \in [Calls -> Ctx] /\ Operands'
    BY <1>17, <2>1, GoesStep DEF Release, Steps, OperandsOf, Ctx
  <2>3. Recounted(ActiveOthers(sos, ctx[p].team, ctx[p].sos)) \in TeamRow
    BY CountTyped, RecountedOK
  <2>4. team' \in [Teams -> TeamRow]
    BY <1>17, <2>3 DEF Release, TypeOK
  <2> QED
    BY <1>17, <2>2, <2>4 DEF Release, TypeInv, TypeOK
<1>18. ASSUME NEW p \in Procs, TeamRead(p) PROVE TypeInv'
  <2> DEFINE c == [ctx[p] EXCEPT !.pc = "teamSelect",
                             !.row = [team[ctx[p].team] EXCEPT !.status = "BUSY"]]
  <2>1. p \in Calls /\ ctx[p].team \in Teams /\ ctx[p].sos \in Sos
    BY <1>18 DEF TeamRead, Operands, OperandsOf, Calls
  <2>2. c \in Ctx
    <3>1. [team[ctx[p].team] EXCEPT !.status = "BUSY"] \in TeamRow
      BY <2>1 DEF TypeOK, TeamRow, TeamStatus
    <3> QED
      BY <2>1, <3>1 DEF Ctx, Steps
  <2>3. OperandsOf(c)
    BY <2>1 DEF OperandsOf, Ctx
  <2>4. ctx' = [ctx EXCEPT ![p] = c]
    BY <1>18 DEF TeamRead
  <2>5. ctx' \in [Calls -> Ctx] /\ Operands'
    <3> HIDE DEF c
    <3> QED
      BY <2>1, <2>2, <2>3, <2>4, CtxStep
  <2> QED
    BY <1>18, <2>5 DEF TeamRead, TypeInv, TypeOK, dbVars
<1>19. ASSUME NEW p \in Procs, TeamSave(p) PROVE TypeInv'
  <2>1. p \in Calls /\ ctx[p] \in Ctx /\ ctx[p].team \in Teams
    BY <1>19 DEF TeamSave, Operands, OperandsOf, Calls
  <2>2. ctx' \in [Calls -> Ctx] /\ Operands'
    BY <1>19, <2>1, SaveEndsTyped DEF TeamSave
  <2>3. team' \in [Teams -> TeamRow]
    <3>1. SavedTeam(ctx[p], team[ctx[p].team]) \in TeamRow
      BY <2>1, SavedTyped DEF TypeOK
    <3> QED
      BY <1>19, <3>1 DEF TeamSave, TypeOK
  <2>4. torn' \subseteq Teams
    BY <1>19, <2>1 DEF TeamSave, TypeOK
  <2> QED
    BY <1>19, <2>2, <2>3, <2>4 DEF TeamSave, TypeInv, TypeOK
<1>20. ASSUME NEW p \in Procs, SosSave(p) PROVE TypeInv'
  <2>1. p \in Calls /\ ctx[p].sos \in Sos
    BY <1>20 DEF SosSave, Operands, OperandsOf, Calls
  <2>2. ctx' \in [Calls -> Ctx] /\ Operands'
    BY <1>20, <2>1, IdleStep DEF SosSave
  <2>3. [status |-> Written(ctx[p].found.status, ctx[p].status, sos[ctx[p].sos].status),
         team   |-> Written(ctx[p].found.team, ctx[p].team, sos[ctx[p].sos].team)] \in SosRow
    BY <2>1 DEF Ctx, SosRow, Written, TypeOK
  <2>4. sos' \in [Sos -> SosRow]
    BY <1>20, <2>3 DEF SosSave, TypeOK
  <2> QED
    BY <1>20, <2>2, <2>4 DEF SosSave, TypeInv, TypeOK
<1>21. ASSUME NEW p \in Procs, NEW t \in Teams, NEW status \in TeamStatus, NEW cases \in Nat,
              TeamEdit(p, t, status, cases)
       PROVE  TypeInv'
  <2> DEFINE row == [status |-> status, cases |-> cases]
             c == [Idle EXCEPT !.pc = "teamSelect", !.team = t, !.row = row]
  <2>1. c \in Ctx
    BY <1>21, IdleTyped DEF Ctx, Steps, TeamRow
  <2>2. OperandsOf(c)
    BY <1>21 DEF OperandsOf, Ctx, Idle
  <2>3. p \in Calls /\ ctx' = [ctx EXCEPT ![p] = c]
    BY <1>21 DEF TeamEdit, Calls
  <2>4. ctx' \in [Calls -> Ctx] /\ Operands'
    <3> HIDE DEF c
    <3> QED
      BY <2>1, <2>2, <2>3, CtxStep
  <2>5. torn' \subseteq Teams
    BY <1>21 DEF TeamEdit, TypeOK
  <2> QED
    BY <1>21, <2>4, <2>5, ConstantsAssumption DEF TeamEdit, TypeInv, TypeOK, dbVars, Called
<1>22. ASSUME NEW p \in Procs, HandlerError(p) PROVE TypeInv'
  <2>1. ctx' \in [Calls -> Ctx] /\ Operands'
    BY <1>22, IdleStep DEF HandlerError, Calls
  <2>2. TypeOK'
    BY <1>22, <2>1 DEF HandlerError, TypeOK, dbVars
  <2> QED
    BY <2>1, <2>2 DEF TypeInv
<1>23. ASSUME WorkerScan PROVE TypeInv'
  <2>1. ctx' \in [Calls -> Ctx] /\ Operands'
    BY <1>23, GoesStep DEF WorkerScan, Calls, Steps, OperandsOf, Ctx
  <2>2. TypeOK'
    BY <1>23, <2>1 DEF WorkerScan, TypeOK, dbVars
  <2> QED
    BY <2>1, <2>2 DEF TypeInv
<1>24. ASSUME NEW s \in Sos, WorkerRetry(s) PROVE TypeInv'
  <2>1. ctx' \in [Calls -> Ctx] /\ Operands'
    BY <1>24, StartsStep DEF WorkerRetry, Calls, Operands, OperandsOf
  <2>2. TypeOK'
    BY <1>24, <2>1 DEF WorkerRetry, TypeOK, dbVars
  <2> QED
    BY <2>1, <2>2 DEF TypeInv
<1>25. ASSUME WorkerRoundEnds PROVE TypeInv'
  <2>1. ctx' \in [Calls -> Ctx] /\ Operands'
    BY <1>25, IdleStep DEF WorkerRoundEnds, Calls
  <2>2. TypeOK'
    BY <1>25, <2>1 DEF WorkerRoundEnds, TypeOK, dbVars
  <2> QED
    BY <2>1, <2>2 DEF TypeInv
<1>26. ASSUME Restart PROVE TypeInv'
  <2>1. ctx' \in [Calls -> Ctx] /\ Operands'
    BY <1>26, IdleTyped DEF Restart, Operands, OperandsOf, Idle
  <2>2. TypeOK'
    BY <1>26, <2>1, ConstantsAssumption DEF Restart, TypeOK, dbVars
  <2> QED
    BY <2>1, <2>2 DEF TypeInv
<1>27. ASSUME NEW s \in Sos, ListenerError(s) PROVE TypeInv'
  <2>1. ctx' \in [Calls -> Ctx] /\ Operands'
    BY <1>27 DEF ListenerError, Operands, OperandsOf
  <2>2. TypeOK'
    BY <1>27, <2>1 DEF ListenerError, TypeOK, dbVars
  <2> QED
    BY <2>1, <2>2 DEF TypeInv
<1>28. ASSUME WorkerError PROVE TypeInv'
  <2>1. ctx' \in [Calls -> Ctx] /\ Operands'
    <3>1. CASE UNCHANGED ctx
      BY <3>1 DEF Operands, OperandsOf
    <3>2. CASE ctx' = [ctx EXCEPT ![Worker] = Idle]
      BY <3>2, IdleStep DEF Calls
    <3> QED
      BY <1>28, <3>1, <3>2 DEF WorkerError
  <2>2. TypeOK'
    BY <1>28, <2>1 DEF WorkerError, TypeOK, dbVars
  <2> QED
    BY <2>1, <2>2 DEF TypeInv
<1>30. ASSUME NEW p \in Procs, TeamSelect(p) PROVE TypeInv'
  <2> DEFINE c == [ctx[p] EXCEPT !.pc = "teamSave", !.seen = team[ctx[p].team]]
  <2>1. p \in Calls /\ ctx[p].team \in Teams
    BY <1>30 DEF TeamSelect, Operands, OperandsOf, Calls
  <2>2. c \in Ctx
    <3>1. team[ctx[p].team] \in TeamRow
      BY <2>1 DEF TypeOK
    <3> QED
      BY <2>1, <3>1 DEF Ctx, Steps
  <2>3. OperandsOf(c)
    BY <2>1 DEF OperandsOf, Ctx
  <2>4. ctx' = [ctx EXCEPT ![p] = c]
    BY <1>30 DEF TeamSelect
  <2>5. ctx' \in [Calls -> Ctx] /\ Operands'
    <3> HIDE DEF c
    <3> QED
      BY <2>1, <2>2, <2>3, <2>4, CtxStep
  <2> QED
    BY <1>30, <2>5 DEF TeamSelect, TypeInv, TypeOK, dbVars
<1>31. ASSUME NEW p \in Procs, SosSelect(p) PROVE TypeInv'
  <2> DEFINE c == [ctx[p] EXCEPT !.pc = "sosSave", !.found = sos[ctx[p].sos]]
  <2>1. p \in Calls /\ ctx[p].sos \in Sos
    BY <1>31 DEF SosSelect, Operands, OperandsOf, Calls
  <2>2. c \in Ctx
    <3>1. sos[ctx[p].sos] \in SosRow
      BY <2>1 DEF TypeOK
    <3> QED
      BY <2>1, <3>1 DEF Ctx, Steps
  <2>3. OperandsOf(c)
    BY <2>1 DEF OperandsOf, Ctx
  <2>4. ctx' = [ctx EXCEPT ![p] = c]
    BY <1>31 DEF SosSelect
  <2>5. ctx' \in [Calls -> Ctx] /\ Operands'
    <3> HIDE DEF c
    <3> QED
      BY <2>1, <2>2, <2>3, <2>4, CtxStep
  <2> QED
    BY <1>31, <2>5 DEF SosSelect, TypeInv, TypeOK, dbVars
<1>32. ASSUME NEW p \in Procs, NEW t \in Teams,
              \E status \in EditStatuses \cup {team[t].status},
                 cases \in EditCases \cup {team[t].cases} : TeamEdit(p, t, status, cases)
       PROVE  TypeInv'
  BY <1>21, <1>32, EditTyped
<1>29. CASE UNCHANGED vars
  BY <1>29 DEF vars, TypeInv, TypeOK, Operands, OperandsOf
<1> QED
  BY <1>1, <1>2, <1>3, <1>4, <1>5, <1>6, <1>7, <1>8, <1>9, <1>10, <1>11,
     <1>12, <1>13, <1>14, <1>15, <1>16, <1>17, <1>18, <1>19, <1>20,
     <1>22, <1>23, <1>24, <1>25, <1>26, <1>27,
     <1>28, <1>29, <1>30, <1>31, <1>32
     DEF Next, Dispatching, Handling, Arriving, Working

(* TypeOK of the dispatch core: rows, queue, contexts and bounds keep their
   types through every handler, callback, retry and restart. *)
THEOREM TypeCorrect == Spec => []TypeOK
<1>1. Spec => []TypeInv
  BY TypeInit, TypeStep, PTL DEF Spec
<1>2. TypeInv => TypeOK
  BY DEF TypeInv
<1> QED
  BY <1>1, <1>2, PTL

-----------------------------------------------------------------------------
(* The two columns of a team agree.                                        *)

(* Without a new save under way the held rows stay as they were. *)
LEMMA HeldKept ==
    ASSUME HeldRowsOK, torn \subseteq torn',
           \A p \in Calls : ctx'[p] = ctx[p] \/ ctx'[p].pc \notin {"teamSelect", "teamSave"}
    PROVE  HeldRowsOK'
<1>1. ASSUME NEW p \in Calls PROVE HeldOK(ctx'[p], torn')
  BY <1>1 DEF HeldRowsOK, HeldOK
<1> QED
  BY <1>1 DEF HeldRowsOK, HeldOK

(* One new save under way, with a row that agrees. *)
LEMMA HeldStep ==
    ASSUME HeldRowsOK, torn \subseteq torn', NEW p \in Calls, HeldOK(ctx'[p], torn'),
           \A q \in Calls \ {p} : ctx'[q] = ctx[q]
    PROVE  HeldRowsOK'
<1>1. ASSUME NEW q \in Calls PROVE HeldOK(ctx'[q], torn')
  BY <1>1 DEF HeldRowsOK, HeldOK
<1> QED
  BY <1>1 DEF HeldRowsOK, HeldOK

(* A save of a row nobody has changed since it was SELECTed writes the object,
   so what it leaves is the object or what was there, or it mixes the two. *)
LEMMA SavedWhole ==
    ASSUME NEW c \in Ctx, NEW now \in TeamRow, ~Tears(c, now)
    PROVE  SavedTeam(c, now) \in {c.row, now}
<1>1. CASE now = c.seen
  <2>1. c.row \in TeamRow
    BY DEF Ctx
  <2>2. /\ Written(c.seen.status, c.row.status, now.status) = c.row.status
        /\ Written(c.seen.cases, c.row.cases, now.cases) = c.row.cases
    BY <1>1 DEF Written
  <2>3. SavedTeam(c, now) = [status |-> c.row.status, cases |-> c.row.cases]
    BY <2>2 DEF SavedTeam
  <2> QED
    BY <2>1, <2>3 DEF TeamRow
<1>2. CASE now # c.seen
  BY <1>2 DEF Tears
<1> QED
  BY <1>1, <1>2

(* At first no team is DISPATCHED and none has a case. *)
LEMMA LoadInit == Init => LoadInv
<1> SUFFICES ASSUME Init PROVE LoadInv
  OBVIOUS
<1>1. LoadMatchesStatus
  BY ConstantsAssumption DEF Init, LoadMatchesStatus, LoadOK, TeamStatus
<1>2. HeldRowsOK
  BY DEF Init, HeldRowsOK, HeldOK, Idle
<1> QED
  BY <1>1, <1>2 DEF LoadInv

(* Every step keeps the agreement, of the rows and of the copies. *)
LEMMA LoadStep ==
    ASSUME TypeInv, LoadInv, [Next]_vars
    PROVE  LoadInv'
<1>0. /\ TypeOK /\ Operands /\ LoadMatchesStatus /\ HeldRowsOK
      /\ ctx \in [Calls -> Ctx] /\ team \in [Teams -> TeamRow]
  BY DEF TypeInv, TypeOK, LoadInv
<1> USE <1>0
<1>1. ASSUME NEW s \in Sos, Create(s) PROVE LoadInv'
  <2>1. LoadMatchesStatus'
    BY <1>1 DEF Create, LoadMatchesStatus, LoadOK, dbVars
  <2>2. HeldRowsOK'
    BY <1>1, HeldKept DEF Create
  <2> QED
    BY <2>1, <2>2 DEF LoadInv
<1>2. ASSUME NEW p \in Procs, NEW s \in Sos, HandleSosCreated(p, s) PROVE LoadInv'
  <2>1. LoadMatchesStatus'
    BY <1>2 DEF HandleSosCreated, LoadMatchesStatus, LoadOK, dbVars
  <2>2. HeldRowsOK'
    BY <1>2, HeldKept DEF HandleSosCreated, Starts, Idle
  <2> QED
    BY <2>1, <2>2 DEF LoadInv
<1>3. ASSUME NEW p \in Procs, NEW s \in Sos, OfferTimeout(p, s) PROVE LoadInv'
  <2>1. LoadMatchesStatus'
    BY <1>3 DEF OfferTimeout, LoadMatchesStatus, LoadOK, dbVars
  <2>2. HeldRowsOK'
    BY <1>3, HeldKept DEF OfferTimeout, Starts, Idle
  <2> QED
    BY <2>1, <2>2 DEF LoadInv
<1>4. ASSUME NEW s \in Sos, NEW t \in Teams, HandleSosClaim(s, t) PROVE LoadInv'
  <2>1. LoadMatchesStatus'
    BY <1>4, TakesCaseOK DEF HandleSosClaim, LoadMatchesStatus, LoadOK
  <2>2. HeldRowsOK'
    BY <1>4, HeldKept DEF HandleSosClaim
  <2> QED
    BY <2>1, <2>2 DEF LoadInv
<1>5. ASSUME NEW p \in Calls, Score(p) PROVE LoadInv'
  <2>1. LoadMatchesStatus'
    BY <1>5 DEF Score, LoadMatchesStatus, LoadOK, dbVars
  <2>2. HeldRowsOK'
    BY <1>5, HeldKept DEF Score, Goes, Ctx
  <2> QED
    BY <2>1, <2>2 DEF LoadInv
<1>6. ASSUME NEW p \in Calls, Fallback(p) PROVE LoadInv'
  <2>1. LoadMatchesStatus'
    BY <1>6 DEF Fallback, LoadMatchesStatus, LoadOK, dbVars
  <2>2. HeldRowsOK'
    BY <1>6, HeldKept DEF Fallback, Returns, Idle
  <2> QED
    BY <2>1, <2>2 DEF LoadInv
<1>7. ASSUME NEW p \in Calls, CommitAssign(p) PROVE LoadInv'
  <2>1. LoadMatchesStatus'
    <3> DEFINE c == ctx[p].cands
    <3>1. PICK i \in DOMAIN c : team' = TakesCase(team, c[i]) /\ torn' = torn
      BY <1>7 DEF CommitAssign
    <3>2. c[i] \in Teams
      BY CandidateTyped DEF Ctx
    <3> QED
      BY <3>1, <3>2, TakesCaseOK DEF LoadMatchesStatus, LoadOK
  <2>2. HeldRowsOK'
    BY <1>7, HeldKept DEF CommitAssign, Returns, Idle
  <2> QED
    BY <2>1, <2>2 DEF LoadInv
<1>8. ASSUME NEW p \in Calls, CommitQueue(p) PROVE LoadInv'
  <2>1. LoadMatchesStatus'
    BY <1>8 DEF CommitQueue, LoadMatchesStatus, LoadOK, dbVars
  <2>2. HeldRowsOK'
    BY <1>8, HeldKept DEF CommitQueue, Returns, Idle
  <2> QED
    BY <2>1, <2>2 DEF LoadInv
<1>9. ASSUME NEW p \in Calls, CommitFails(p) PROVE LoadInv'
  <2>1. LoadMatchesStatus'
    BY <1>9 DEF CommitFails, LoadMatchesStatus, LoadOK, dbVars
  <2>2. HeldRowsOK'
    BY <1>9, HeldKept DEF CommitFails, Returns, Idle, Ctx
  <2> QED
    BY <2>1, <2>2 DEF LoadInv
<1>10. ASSUME NEW p \in Procs, NEW s \in Sos, AssignAuto(p, s) PROVE LoadInv'
  <2>1. LoadMatchesStatus'
    BY <1>10 DEF AssignAuto, LoadMatchesStatus, LoadOK, dbVars
  <2>2. HeldRowsOK'
    BY <1>10, HeldKept DEF AssignAuto, Starts, Idle
  <2> QED
    BY <2>1, <2>2 DEF LoadInv
<1>11. ASSUME NEW p \in Procs, NEW s \in Sos, NEW t \in Teams, AssignManual(p, s, t) PROVE LoadInv'
  <2>1. LoadMatchesStatus'
    BY <1>11 DEF AssignManual, LoadMatchesStatus, LoadOK, dbVars
  <2>2. HeldRowsOK'
    BY <1>11, HeldKept DEF AssignManual, Idle
  <2> QED
    BY <2>1, <2>2 DEF LoadInv
<1>12. ASSUME NEW p \in Procs, ManualRead(p) PROVE LoadInv'
  <2>1. LoadMatchesStatus'
    BY <1>12 DEF ManualRead, LoadMatchesStatus, LoadOK, dbVars
  <2>2. HeldRowsOK'
    BY <1>12, HeldKept DEF ManualRead, Idle, Ctx
  <2> QED
    BY <2>1, <2>2 DEF LoadInv
<1>13. ASSUME NEW p \in Procs, ManualCommit(p) PROVE LoadInv'
  <2>1. LoadMatchesStatus'
    <3> DEFINE s == ctx[p].sos  t == ctx[p].cands[1]  old == ctx[p].team
               row == Recounted(ActiveOthers(sos, old, s))
    <3>1. t \in Teams
      BY <1>13 DEF ManualCommit, Operands, OperandsOf, Calls
    <3>2. LoadOK(row)
      BY CountTyped, RecountedOK
    <3>3. torn' = torn /\ \A u \in Teams : team'[u] \in {row, TakesCase(team, t)[u]}
      BY <1>13, <3>1, TakesCaseOK DEF ManualCommit
    <3> HIDE DEF row
    <3> QED
      BY <3>1, <3>2, <3>3, TakesCaseOK DEF LoadMatchesStatus, LoadOK
  <2>2. HeldRowsOK'
    BY <1>13, HeldKept DEF ManualCommit, Idle
  <2> QED
    BY <2>1, <2>2 DEF LoadInv
<1>14. ASSUME NEW p \in Procs, NEW s \in Sos, NEW new \in NewStatuses, UpdateStatus(p, s, new) PROVE LoadInv'
  <2>1. LoadMatchesStatus'
    BY <1>14 DEF UpdateStatus, LoadMatchesStatus, LoadOK, dbVars
  <2>2. HeldRowsOK'
    BY <1>14, HeldKept DEF UpdateStatus, Idle
  <2> QED
    BY <2>1, <2>2 DEF LoadInv
<1>15. ASSUME NEW p \in Procs, NEW s \in Sos, NEW byStaff \in BOOLEAN, Cancel(p, s, byStaff) PROVE LoadInv'
  <2>1. LoadMatchesStatus'
    BY <1>15 DEF Cancel, LoadMatchesStatus, LoadOK, dbVars
  <2>2. HeldRowsOK'
    BY <1>15, HeldKept DEF Cancel, Idle
  <2> QED
    BY <2>1, <2>2 DEF LoadInv
<1>16. ASSUME NEW p \in Procs, Handoff(p) PROVE LoadInv'
  <2>1. LoadMatchesStatus'
    <3> DEFINE t == ctx[p].team  n == ActiveOthers(sos', t, ctx[p].sos)
    <3>1. team' = [team EXCEPT ![t] = [status |-> "DISPATCHED", cases |-> n + 1]] /\ torn' = torn
      BY <1>16 DEF Handoff
    <3>2. n \in Nat
      BY CountTyped
    <3> HIDE DEF n
    <3> QED
      BY <3>1, <3>2 DEF LoadMatchesStatus, LoadOK, Free
  <2>2. HeldRowsOK'
    BY <1>16, HeldKept DEF Handoff, Goes, Ctx
  <2> QED
    BY <2>1, <2>2 DEF LoadInv
<1>17. ASSUME NEW p \in Procs, Release(p) PROVE LoadInv'
  <2>1. LoadMatchesStatus'
    <3> DEFINE t == ctx[p].team  row == Recounted(ActiveOthers(sos, t, ctx[p].sos))
    <3>1. team' = [team EXCEPT ![t] = row] /\ torn' = torn
      BY <1>17 DEF Release
    <3>2. LoadOK(row)
      BY CountTyped, RecountedOK
    <3> HIDE DEF row
    <3> QED
      BY <3>1, <3>2 DEF LoadMatchesStatus, LoadOK
  <2>2. HeldRowsOK'
    BY <1>17, HeldKept DEF Release, Goes, Ctx
  <2> QED
    BY <2>1, <2>2 DEF LoadInv
<1>18. ASSUME NEW p \in Procs, TeamRead(p) PROVE LoadInv'
  <2>1. LoadMatchesStatus'
    BY <1>18 DEF TeamRead, LoadMatchesStatus, LoadOK, dbVars
  <2>2. HeldRowsOK'
    <3> DEFINE row == [team[ctx[p].team] EXCEPT !.status = "BUSY"]
    <3>1. p \in Calls /\ ctx[p].team \in Teams
      BY <1>18 DEF TeamRead, Operands, OperandsOf, Calls
    <3>2. LoadOK(row)
      BY <3>1 DEF LoadOK, Free, TeamRow
    <3>3. ctx'[p].row = row
      BY <1>18, <3>1 DEF TeamRead, Ctx
    <3>4. (\A r \in Calls \ {p} : ctx'[r] = ctx[r]) /\ torn' = torn
      BY <1>18 DEF TeamRead
    <3>5. HeldOK(ctx'[p], torn')
      BY <3>2, <3>3 DEF HeldOK
    <3> QED
      BY <3>1, <3>4, <3>5, HeldStep
  <2> QED
    BY <2>1, <2>2 DEF LoadInv
<1>19. ASSUME NEW p \in Procs, TeamSave(p) PROVE LoadInv'
  <2> DEFINE t == ctx[p].team  new == SavedTeam(ctx[p], team[t])
  <2>1. p \in Calls /\ ctx[p] \in Ctx /\ t \in Teams /\ team[t] \in TeamRow
    BY <1>19 DEF TeamSave, Operands, OperandsOf, Calls
  <2>2. torn \subseteq torn' /\ team' = [team EXCEPT ![t] = new]
    BY <1>19 DEF TeamSave
  <2>3. ASSUME t \notin torn' PROVE LoadOK(new)
    <3>1. t \notin torn /\ ~Tears(ctx[p], team[t])
      BY <1>19, <2>3 DEF TeamSave
    <3>2. LoadOK(team[t])
      BY <2>1, <3>1 DEF LoadMatchesStatus
    <3>3. LoadOK(ctx[p].row)
      BY <1>19, <2>1, <3>1 DEF TeamSave, HeldRowsOK, HeldOK
    <3>4. new \in {ctx[p].row, team[t]}
      BY <2>1, <3>1, SavedWhole
    <3> QED
      BY <3>2, <3>3, <3>4
  <2>4. LoadMatchesStatus'
    <3> HIDE DEF new
    <3> SUFFICES ASSUME NEW u \in Teams, u \notin torn' PROVE LoadOK(team'[u])
      BY DEF LoadMatchesStatus, LoadOK
    <3>1. CASE u = t
      BY <2>1, <2>2, <2>3, <3>1
    <3>2. CASE u # t
      BY <2>1, <2>2, <3>2 DEF LoadMatchesStatus
    <3> QED
      BY <3>1, <3>2
  <2>5. HeldRowsOK'
    BY <1>19, <2>2, HeldKept DEF TeamSave, SaveEnds, Goes, Idle, Ctx
  <2> QED
    BY <2>4, <2>5 DEF LoadInv
<1>20. ASSUME NEW p \in Procs, SosSave(p) PROVE LoadInv'
  <2>1. LoadMatchesStatus'
    BY <1>20 DEF SosSave, LoadMatchesStatus, LoadOK, dbVars
  <2>2. HeldRowsOK'
    BY <1>20, HeldKept DEF SosSave, Idle
  <2> QED
    BY <2>1, <2>2 DEF LoadInv
<1>21. ASSUME NEW p \in Procs, NEW t \in Teams, NEW status \in TeamStatus, NEW cases \in Nat,
              TeamEdit(p, t, status, cases)
       PROVE  LoadInv'
  <2> DEFINE row == [status |-> status, cases |-> cases]
  <2>1. torn \subseteq torn' /\ team' = team
    BY <1>21 DEF TeamEdit, dbVars
  <2>2. LoadMatchesStatus'
    BY <2>1 DEF LoadMatchesStatus, LoadOK
  <2>3. HeldRowsOK'
    <3>1. p \in Calls /\ ctx'[p].row = row /\ ctx'[p].team = t
      BY <1>21, IdleTyped DEF TeamEdit, Ctx, Calls
    <3>2. \A r \in Calls \ {p} : ctx'[r] = ctx[r]
      BY <1>21 DEF TeamEdit
    <3>3. LoadOK(row) \/ t \in torn'
      BY <1>21 DEF TeamEdit
    <3>4. HeldOK(ctx'[p], torn')
      <4> HIDE DEF row
      <4> QED
        BY <3>1, <3>3 DEF HeldOK
    <3> QED
      BY <2>1, <3>1, <3>2, <3>4, HeldStep
  <2> QED
    BY <2>2, <2>3 DEF LoadInv
<1>22. ASSUME NEW p \in Procs, HandlerError(p) PROVE LoadInv'
  <2>1. LoadMatchesStatus'
    BY <1>22 DEF HandlerError, LoadMatchesStatus, LoadOK, dbVars
  <2>2. HeldRowsOK'
    BY <1>22, HeldKept DEF HandlerError, Idle
  <2> QED
    BY <2>1, <2>2 DEF LoadInv
<1>23. ASSUME WorkerScan PROVE LoadInv'
  <2>1. LoadMatchesStatus'
    BY <1>23 DEF WorkerScan, LoadMatchesStatus, LoadOK, dbVars
  <2>2. HeldRowsOK'
    BY <1>23, HeldKept DEF WorkerScan, Goes, Ctx
  <2> QED
    BY <2>1, <2>2 DEF LoadInv
<1>24. ASSUME NEW s \in Sos, WorkerRetry(s) PROVE LoadInv'
  <2>1. LoadMatchesStatus'
    BY <1>24 DEF WorkerRetry, LoadMatchesStatus, LoadOK, dbVars
  <2>2. HeldRowsOK'
    BY <1>24, HeldKept DEF WorkerRetry, Starts, Idle
  <2> QED
    BY <2>1, <2>2 DEF LoadInv
<1>25. ASSUME WorkerRoundEnds PROVE LoadInv'
  <2>1. LoadMatchesStatus'
    BY <1>25 DEF WorkerRoundEnds, LoadMatchesStatus, LoadOK, dbVars
  <2>2. HeldRowsOK'
    BY <1>25, HeldKept DEF WorkerRoundEnds, Idle
  <2> QED
    BY <2>1, <2>2 DEF LoadInv
<1>26. ASSUME Restart PROVE LoadInv'
  <2>1. LoadMatchesStatus'
    BY <1>26 DEF Restart, LoadMatchesStatus, LoadOK, dbVars
  <2>2. HeldRowsOK'
    BY <1>26, HeldKept DEF Restart, Idle
  <2> QED
    BY <2>1, <2>2 DEF LoadInv
<1>27. ASSUME NEW s \in Sos, ListenerError(s) PROVE LoadInv'
  <2>1. LoadMatchesStatus'
    BY <1>27 DEF ListenerError, LoadMatchesStatus, LoadOK, dbVars
  <2>2. HeldRowsOK'
    BY <1>27, HeldKept DEF ListenerError
  <2> QED
    BY <2>1, <2>2 DEF LoadInv
<1>28. ASSUME WorkerError PROVE LoadInv'
  <2>1. LoadMatchesStatus'
    BY <1>28 DEF WorkerError, LoadMatchesStatus, LoadOK, dbVars
  <2>2. HeldRowsOK'
    BY <1>28, HeldKept DEF WorkerError, Idle
  <2> QED
    BY <2>1, <2>2 DEF LoadInv
<1>30. ASSUME NEW p \in Procs, TeamSelect(p) PROVE LoadInv'
  <2>1. LoadMatchesStatus'
    BY <1>30 DEF TeamSelect, LoadMatchesStatus, LoadOK, dbVars
  <2>2. HeldRowsOK'
    <3>1. p \in Calls /\ ctx'[p].row = ctx[p].row /\ ctx'[p].team = ctx[p].team
      BY <1>30 DEF TeamSelect, Calls, Ctx
    <3>2. (\A r \in Calls \ {p} : ctx'[r] = ctx[r]) /\ torn' = torn
      BY <1>30 DEF TeamSelect
    <3>3. HeldOK(ctx'[p], torn')
      BY <1>30, <3>1, <3>2 DEF TeamSelect, HeldRowsOK, HeldOK
    <3> QED
      BY <3>1, <3>2, <3>3, HeldStep
  <2> QED
    BY <2>1, <2>2 DEF LoadInv
<1>31. ASSUME NEW p \in Procs, SosSelect(p) PROVE LoadInv'
  <2>1. LoadMatchesStatus'
    BY <1>31 DEF SosSelect, LoadMatchesStatus, LoadOK, dbVars
  <2>2. HeldRowsOK'
    BY <1>31, HeldKept DEF SosSelect, Ctx
  <2> QED
    BY <2>1, <2>2 DEF LoadInv
<1>32. ASSUME NEW p \in Procs, NEW t \in Teams,
              \E status \in EditStatuses \cup {team[t].status},
                 cases \in EditCases \cup {team[t].cases} : TeamEdit(p, t, status, cases)
       PROVE  LoadInv'
  BY <1>21, <1>32, EditTyped
<1>29. CASE UNCHANGED vars
  BY <1>29, HeldKept DEF vars, LoadInv, LoadMatchesStatus, LoadOK
<1> QED
  BY <1>1, <1>2, <1>3, <1>4, <1>5, <1>6, <1>7, <1>8, <1>9, <1>10, <1>11,
     <1>12, <1>13, <1>14, <1>15, <1>16, <1>17, <1>18, <1>19, <1>20,
     <1>22, <1>23, <1>24, <1>25, <1>26, <1>27,
     <1>28, <1>29, <1>30, <1>31, <1>32
     DEF Next, Dispatching, Handling, Arriving, Working

(* A team that may be given work has no case and a DISPATCHED team has one,
   through every claim, dispatch, hand-off, recount and save of an older object:
   only a save whose row changes between its SELECT and its UPDATE, or an operator
   who asks for it, sets the two columns apart. *)
THEOREM LoadAlwaysMatches == Spec => []LoadMatchesStatus
<1>1. Init => TypeInv /\ LoadInv
  BY TypeInit, LoadInit
<1>2. TypeInv /\ LoadInv /\ [Next]_vars => (TypeInv /\ LoadInv)'
  BY TypeStep, LoadStep
<1>3. LoadInv => LoadMatchesStatus
  BY DEF LoadInv
<1> QED
  BY <1>1, <1>2, <1>3, PTL DEF Spec

-----------------------------------------------------------------------------
(* A closed request at rest stays so.                                      *)

(* Whatever the step, a request at rest is not the one it changes. *)
LEMMA RestStep ==
    ASSUME TypeInv, [Next]_vars, NEW r \in Sos, AtRest(r)
    PROVE  AtRest(r)'
<1>0. /\ TypeOK /\ Operands /\ ctx \in [Calls -> Ctx] /\ sos \in [Sos -> SosRow]
      /\ sos[r].status \in Closed /\ r \notin events /\ r \notin batch
      /\ \A p \in Calls : ctx[p].sos # r
      /\ \A e \in queue : e.sos # r
      /\ Idle.sos # r
  BY RowsAssumption DEF TypeInv, TypeOK, AtRest, Idle
<1> USE <1>0
<1>1. ASSUME NEW s \in Sos, Create(s) PROVE AtRest(r)'
  <2>1. sos'[r].status = sos[r].status
    BY <1>1 DEF Create, dbVars, Closed
  <2>2. r \notin events' \cup batch'
    BY <1>1 DEF Create, Closed
  <2>3. \A q \in Calls : ctx'[q].sos # r
    BY <1>1 DEF Create
  <2>4. \A e \in queue' : e.sos # r
    BY <1>1 DEF Create, dbVars
  <2> QED
    BY <2>1, <2>2, <2>3, <2>4 DEF AtRest
<1>2. ASSUME NEW p \in Procs, NEW s \in Sos, HandleSosCreated(p, s) PROVE AtRest(r)'
  <2>1. sos'[r].status = sos[r].status
    BY <1>2 DEF HandleSosCreated, dbVars
  <2>2. r \notin events' \cup batch'
    BY <1>2 DEF HandleSosCreated
  <2>3. \A q \in Calls : ctx'[q].sos # r
    <3>1. s # r
      BY <1>2 DEF HandleSosCreated
    <3>2. CASE ctx' = Starts(p, "score", s)
      BY <3>1, <3>2 DEF Starts, Idle, Calls
    <3>3. CASE ctx' = ctx
      BY <3>3
    <3> QED
      BY <1>2, <3>2, <3>3 DEF HandleSosCreated
  <2>4. \A e \in queue' : e.sos # r
    BY <1>2 DEF HandleSosCreated, dbVars
  <2> QED
    BY <2>1, <2>2, <2>3, <2>4 DEF AtRest
<1>3. ASSUME NEW p \in Procs, NEW s \in Sos, OfferTimeout(p, s) PROVE AtRest(r)'
  <2>1. sos'[r].status = sos[r].status
    BY <1>3 DEF OfferTimeout, dbVars
  <2>2. r \notin events' \cup batch'
    BY <1>3 DEF OfferTimeout
  <2>3. \A q \in Calls : ctx'[q].sos # r
    BY <1>3 DEF OfferTimeout, Starts, Idle, Calls, Unassigned, Waiting, Closed
  <2>4. \A e \in queue' : e.sos # r
    BY <1>3 DEF OfferTimeout, dbVars
  <2> QED
    BY <2>1, <2>2, <2>3, <2>4 DEF AtRest
<1>4. ASSUME NEW s \in Sos, NEW t \in Teams, HandleSosClaim(s, t) PROVE AtRest(r)'
  <2>1. sos'[r].status = sos[r].status
    BY <1>4 DEF HandleSosClaim, dbVars, Assigned, Waiting, Closed
  <2>2. r \notin events' \cup batch'
    BY <1>4 DEF HandleSosClaim
  <2>3. \A q \in Calls : ctx'[q].sos # r
    BY <1>4 DEF HandleSosClaim
  <2>4. \A e \in queue' : e.sos # r
    BY <1>4 DEF HandleSosClaim, dbVars
  <2> QED
    BY <2>1, <2>2, <2>3, <2>4 DEF AtRest
<1>5. ASSUME NEW p \in Calls, Score(p) PROVE AtRest(r)'
  <2>1. sos'[r].status = sos[r].status
    BY <1>5 DEF Score, dbVars
  <2>2. r \notin events' \cup batch'
    BY <1>5 DEF Score
  <2>3. \A q \in Calls : ctx'[q].sos # r
    <3>1. CASE ctx' = Goes(p, "fallback")
      BY <3>1 DEF Goes, Ctx
    <3>2. ASSUME NEW c, ctx' = [ctx EXCEPT ![p].pc = "commit", ![p].cands = c]
          PROVE  \A q \in Calls : ctx'[q].sos # r
      BY <3>2 DEF Ctx
    <3> QED
      BY <1>5, <3>1, <3>2 DEF Score
  <2>4. \A e \in queue' : e.sos # r
    BY <1>5 DEF Score, dbVars
  <2> QED
    BY <2>1, <2>2, <2>3, <2>4 DEF AtRest
<1>6. ASSUME NEW p \in Calls, Fallback(p) PROVE AtRest(r)'
  <2>1. sos'[r].status = sos[r].status
    BY <1>6 DEF Fallback, dbVars, Calls
  <2>2. r \notin events' \cup batch'
    BY <1>6 DEF Fallback
  <2>3. \A q \in Calls : ctx'[q].sos # r
    BY <1>6 DEF Fallback, Returns, Idle
  <2>4. \A e \in queue' : e.sos # r
    BY <1>6 DEF Fallback, dbVars
  <2> QED
    BY <2>1, <2>2, <2>3, <2>4 DEF AtRest
<1>7. ASSUME NEW p \in Calls, CommitAssign(p) PROVE AtRest(r)'
  <2>1. sos'[r].status = sos[r].status
    BY <1>7 DEF CommitAssign, dbVars, Assigned, Calls
  <2>2. r \notin events' \cup batch'
    BY <1>7 DEF CommitAssign
  <2>3. \A q \in Calls : ctx'[q].sos # r
    BY <1>7 DEF CommitAssign, Returns, Idle
  <2>4. \A e \in queue' : e.sos # r
    BY <1>7 DEF CommitAssign, dbVars, Enqueue, Calls
  <2> QED
    BY <2>1, <2>2, <2>3, <2>4 DEF AtRest
<1>8. ASSUME NEW p \in Calls, CommitQueue(p) PROVE AtRest(r)'
  <2>1. sos'[r].status = sos[r].status
    BY <1>8 DEF CommitQueue, dbVars, Calls
  <2>2. r \notin events' \cup batch'
    BY <1>8 DEF CommitQueue
  <2>3. \A q \in Calls : ctx'[q].sos # r
    BY <1>8 DEF CommitQueue, Returns, Idle
  <2>4. \A e \in queue' : e.sos # r
    BY <1>8 DEF CommitQueue, dbVars, Enqueue
  <2> QED
    BY <2>1, <2>2, <2>3, <2>4 DEF AtRest
<1>9. ASSUME NEW p \in Calls, CommitFails(p) PROVE AtRest(r)'
  <2>1. sos'[r].status = sos[r].status
    BY <1>9 DEF CommitFails, dbVars
  <2>2. r \notin events' \cup batch'
    BY <1>9 DEF CommitFails
  <2>3. \A q \in Calls : ctx'[q].sos # r
    BY <1>9 DEF CommitFails, Returns, Idle, Ctx
  <2>4. \A e \in queue' : e.sos # r
    BY <1>9 DEF CommitFails, dbVars
  <2> QED
    BY <2>1, <2>2, <2>3, <2>4 DEF AtRest
<1>10. ASSUME NEW p \in Procs, NEW s \in Sos, AssignAuto(p, s) PROVE AtRest(r)'
  <2>1. sos'[r].status = sos[r].status
    BY <1>10 DEF AssignAuto, dbVars
  <2>2. r \notin events' \cup batch'
    BY <1>10 DEF AssignAuto
  <2>3. \A q \in Calls : ctx'[q].sos # r
    BY <1>10 DEF AssignAuto, Starts, Idle, Calls
  <2>4. \A e \in queue' : e.sos # r
    BY <1>10 DEF AssignAuto, dbVars
  <2> QED
    BY <2>1, <2>2, <2>3, <2>4 DEF AtRest
<1>11. ASSUME NEW p \in Procs, NEW s \in Sos, NEW t \in Teams, AssignManual(p, s, t) PROVE AtRest(r)'
  <2>1. sos'[r].status = sos[r].status
    BY <1>11 DEF AssignManual, dbVars
  <2>2. r \notin events' \cup batch'
    BY <1>11 DEF AssignManual
  <2>3. \A q \in Calls : ctx'[q].sos # r
    BY <1>11 DEF AssignManual, Idle, Calls
  <2>4. \A e \in queue' : e.sos # r
    BY <1>11 DEF AssignManual, dbVars
  <2> QED
    BY <2>1, <2>2, <2>3, <2>4 DEF AtRest
<1>12. ASSUME NEW p \in Procs, ManualRead(p) PROVE AtRest(r)'
  <2>1. sos'[r].status = sos[r].status
    BY <1>12 DEF ManualRead, dbVars
  <2>2. r \notin events' \cup batch'
    BY <1>12 DEF ManualRead
  <2>3. \A q \in Calls : ctx'[q].sos # r
    BY <1>12 DEF ManualRead, Idle, Ctx
  <2>4. \A e \in queue' : e.sos # r
    BY <1>12 DEF ManualRead, dbVars
  <2> QED
    BY <2>1, <2>2, <2>3, <2>4 DEF AtRest
<1>13. ASSUME NEW p \in Procs, ManualCommit(p) PROVE AtRest(r)'
  <2>1. sos'[r].status = sos[r].status
    BY <1>13 DEF ManualCommit, dbVars, Assigned, Calls
  <2>2. r \notin events' \cup batch'
    BY <1>13 DEF ManualCommit
  <2>3. \A q \in Calls : ctx'[q].sos # r
    BY <1>13 DEF ManualCommit, Idle
  <2>4. \A e \in queue' : e.sos # r
    BY <1>13 DEF ManualCommit, dbVars
  <2> QED
    BY <2>1, <2>2, <2>3, <2>4 DEF AtRest
<1>14. ASSUME NEW p \in Procs, NEW s \in Sos, NEW new \in NewStatuses, UpdateStatus(p, s, new) PROVE AtRest(r)'
  <2>1. sos'[r].status = sos[r].status
    BY <1>14 DEF UpdateStatus, dbVars
  <2>2. r \notin events' \cup batch'
    BY <1>14 DEF UpdateStatus
  <2>3. \A q \in Calls : ctx'[q].sos # r
    BY <1>14 DEF UpdateStatus, Idle, Calls
  <2>4. \A e \in queue' : e.sos # r
    BY <1>14 DEF UpdateStatus, dbVars
  <2> QED
    BY <2>1, <2>2, <2>3, <2>4 DEF AtRest
<1>15. ASSUME NEW p \in Procs, NEW s \in Sos, NEW byStaff \in BOOLEAN, Cancel(p, s, byStaff) PROVE AtRest(r)'
  <2>1. sos'[r].status = sos[r].status
    BY <1>15 DEF Cancel, dbVars
  <2>2. r \notin events' \cup batch'
    BY <1>15 DEF Cancel
  <2>3. \A q \in Calls : ctx'[q].sos # r
    BY <1>15 DEF Cancel, Idle
  <2>4. \A e \in queue' : e.sos # r
    BY <1>15 DEF Cancel, dbVars
  <2> QED
    BY <2>1, <2>2, <2>3, <2>4 DEF AtRest
<1>16. ASSUME NEW p \in Procs, Handoff(p) PROVE AtRest(r)'
  <2>1. sos'[r].status = sos[r].status
    BY <1>16 DEF Handoff, dbVars, Assigned, NextInQueue
  <2>2. r \notin events' \cup batch'
    BY <1>16 DEF Handoff
  <2>3. \A q \in Calls : ctx'[q].sos # r
    BY <1>16 DEF Handoff, Goes, Ctx
  <2>4. \A e \in queue' : e.sos # r
    BY <1>16 DEF Handoff, dbVars
  <2> QED
    BY <2>1, <2>2, <2>3, <2>4 DEF AtRest
<1>17. ASSUME NEW p \in Procs, Release(p) PROVE AtRest(r)'
  <2>1. sos'[r].status = sos[r].status
    BY <1>17 DEF Release, dbVars
  <2>2. r \notin events' \cup batch'
    BY <1>17 DEF Release
  <2>3. \A q \in Calls : ctx'[q].sos # r
    BY <1>17 DEF Release, Goes, Ctx
  <2>4. \A e \in queue' : e.sos # r
    BY <1>17 DEF Release, dbVars
  <2> QED
    BY <2>1, <2>2, <2>3, <2>4 DEF AtRest
<1>18. ASSUME NEW p \in Procs, TeamRead(p) PROVE AtRest(r)'
  <2>1. sos'[r].status = sos[r].status
    BY <1>18 DEF TeamRead, dbVars
  <2>2. r \notin events' \cup batch'
    BY <1>18 DEF TeamRead
  <2>3. \A q \in Calls : ctx'[q].sos # r
    BY <1>18 DEF TeamRead, Ctx
  <2>4. \A e \in queue' : e.sos # r
    BY <1>18 DEF TeamRead, dbVars
  <2> QED
    BY <2>1, <2>2, <2>3, <2>4 DEF AtRest
<1>30. ASSUME NEW p \in Procs, TeamSelect(p) PROVE AtRest(r)'
  <2>1. sos'[r].status = sos[r].status
    BY <1>30 DEF TeamSelect, dbVars
  <2>2. r \notin events' \cup batch'
    BY <1>30 DEF TeamSelect
  <2>3. \A q \in Calls : ctx'[q].sos # r
    BY <1>30 DEF TeamSelect, Ctx
  <2>4. \A e \in queue' : e.sos # r
    BY <1>30 DEF TeamSelect, dbVars
  <2> QED
    BY <2>1, <2>2, <2>3, <2>4 DEF AtRest
<1>31. ASSUME NEW p \in Procs, SosSelect(p) PROVE AtRest(r)'
  <2>1. sos'[r].status = sos[r].status
    BY <1>31 DEF SosSelect, dbVars
  <2>2. r \notin events' \cup batch'
    BY <1>31 DEF SosSelect
  <2>3. \A q \in Calls : ctx'[q].sos # r
    BY <1>31 DEF SosSelect, Ctx
  <2>4. \A e \in queue' : e.sos # r
    BY <1>31 DEF SosSelect, dbVars
  <2> QED
    BY <2>1, <2>2, <2>3, <2>4 DEF AtRest
<1>19. ASSUME NEW p \in Procs, TeamSave(p) PROVE AtRest(r)'
  <2>1. sos'[r].status = sos[r].status
    BY <1>19 DEF TeamSave, dbVars
  <2>2. r \notin events' \cup batch'
    BY <1>19 DEF TeamSave
  <2>3. \A q \in Calls : ctx'[q].sos # r
    BY <1>19 DEF TeamSave, SaveEnds, Goes, Idle, Ctx
  <2>4. \A e \in queue' : e.sos # r
    BY <1>19 DEF TeamSave, dbVars
  <2> QED
    BY <2>1, <2>2, <2>3, <2>4 DEF AtRest
<1>20. ASSUME NEW p \in Procs, SosSave(p) PROVE AtRest(r)'
  <2>1. sos'[r].status = sos[r].status
    <3>1. ctx[p].sos # r /\ \E row : sos' = [sos EXCEPT ![ctx[p].sos] = row]
      BY <1>20 DEF SosSave, Calls
    <3> QED
      BY <3>1
  <2>2. r \notin events' \cup batch'
    BY <1>20 DEF SosSave
  <2>3. \A q \in Calls : ctx'[q].sos # r
    BY <1>20 DEF SosSave, Idle
  <2>4. \A e \in queue' : e.sos # r
    BY <1>20 DEF SosSave, dbVars
  <2> QED
    BY <2>1, <2>2, <2>3, <2>4 DEF AtRest
<1>32. ASSUME NEW p \in Procs, NEW t \in Teams,
              \E status \in EditStatuses \cup {team[t].status},
                 cases \in EditCases \cup {team[t].cases} : TeamEdit(p, t, status, cases)
       PROVE  AtRest(r)'
  <2>0. PICK status, cases : TeamEdit(p, t, status, cases)
    BY <1>32
  <2>1. sos'[r].status = sos[r].status
    BY <2>0 DEF TeamEdit, dbVars
  <2>2. r \notin events' \cup batch'
    BY <2>0 DEF TeamEdit
  <2>3. \A q \in Calls : ctx'[q].sos # r
    BY <2>0 DEF TeamEdit, Idle
  <2>4. \A e \in queue' : e.sos # r
    BY <2>0 DEF TeamEdit, dbVars
  <2> QED
    BY <2>1, <2>2, <2>3, <2>4 DEF AtRest
<1>22. ASSUME NEW p \in Procs, HandlerError(p) PROVE AtRest(r)'
  <2>1. sos'[r].status = sos[r].status
    BY <1>22 DEF HandlerError, dbVars
  <2>2. r \notin events' \cup batch'
    BY <1>22 DEF HandlerError
  <2>3. \A q \in Calls : ctx'[q].sos # r
    BY <1>22 DEF HandlerError, Idle
  <2>4. \A e \in queue' : e.sos # r
    BY <1>22 DEF HandlerError, dbVars
  <2> QED
    BY <2>1, <2>2, <2>3, <2>4 DEF AtRest
<1>23. ASSUME WorkerScan PROVE AtRest(r)'
  <2>1. sos'[r].status = sos[r].status
    BY <1>23 DEF WorkerScan, dbVars
  <2>2. r \notin events' \cup batch'
    BY <1>23 DEF WorkerScan, Unassigned, Waiting, Closed
  <2>3. \A q \in Calls : ctx'[q].sos # r
    BY <1>23 DEF WorkerScan, Goes, Ctx
  <2>4. \A e \in queue' : e.sos # r
    BY <1>23 DEF WorkerScan, dbVars
  <2> QED
    BY <2>1, <2>2, <2>3, <2>4 DEF AtRest
<1>24. ASSUME NEW s \in Sos, WorkerRetry(s) PROVE AtRest(r)'
  <2>1. sos'[r].status = sos[r].status
    BY <1>24 DEF WorkerRetry, dbVars
  <2>2. r \notin events' \cup batch'
    BY <1>24 DEF WorkerRetry
  <2>3. \A q \in Calls : ctx'[q].sos # r
    BY <1>24 DEF WorkerRetry, Starts, Idle
  <2>4. \A e \in queue' : e.sos # r
    BY <1>24 DEF WorkerRetry, dbVars
  <2> QED
    BY <2>1, <2>2, <2>3, <2>4 DEF AtRest
<1>25. ASSUME WorkerRoundEnds PROVE AtRest(r)'
  <2>1. sos'[r].status = sos[r].status
    BY <1>25 DEF WorkerRoundEnds, dbVars
  <2>2. r \notin events' \cup batch'
    BY <1>25 DEF WorkerRoundEnds
  <2>3. \A q \in Calls : ctx'[q].sos # r
    BY <1>25 DEF WorkerRoundEnds, Idle
  <2>4. \A e \in queue' : e.sos # r
    BY <1>25 DEF WorkerRoundEnds, dbVars
  <2> QED
    BY <2>1, <2>2, <2>3, <2>4 DEF AtRest
<1>26. ASSUME Restart PROVE AtRest(r)'
  <2>1. sos'[r].status = sos[r].status
    BY <1>26 DEF Restart, dbVars
  <2>2. r \notin events' \cup batch'
    BY <1>26 DEF Restart
  <2>3. \A q \in Calls : ctx'[q].sos # r
    BY <1>26 DEF Restart, Idle
  <2>4. \A e \in queue' : e.sos # r
    BY <1>26 DEF Restart, dbVars
  <2> QED
    BY <2>1, <2>2, <2>3, <2>4 DEF AtRest
<1>27. ASSUME NEW s \in Sos, ListenerError(s) PROVE AtRest(r)'
  <2>1. sos'[r].status = sos[r].status
    BY <1>27 DEF ListenerError, dbVars
  <2>2. r \notin events' \cup batch'
    BY <1>27 DEF ListenerError
  <2>3. \A q \in Calls : ctx'[q].sos # r
    BY <1>27 DEF ListenerError
  <2>4. \A e \in queue' : e.sos # r
    BY <1>27 DEF ListenerError, dbVars
  <2> QED
    BY <2>1, <2>2, <2>3, <2>4 DEF AtRest
<1>28. ASSUME WorkerError PROVE AtRest(r)'
  <2>1. sos'[r].status = sos[r].status
    BY <1>28 DEF WorkerError, dbVars
  <2>2. r \notin events' \cup batch'
    BY <1>28 DEF WorkerError
  <2>3. \A q \in Calls : ctx'[q].sos # r
    BY <1>28 DEF WorkerError, Idle
  <2>4. \A e \in queue' : e.sos # r
    BY <1>28 DEF WorkerError, dbVars
  <2> QED
    BY <2>1, <2>2, <2>3, <2>4 DEF AtRest
<1>29. CASE UNCHANGED vars
  BY <1>29 DEF vars, AtRest
<1> QED
  BY <1>1, <1>2, <1>3, <1>4, <1>5, <1>6, <1>7, <1>8, <1>9, <1>10, <1>11,
     <1>12, <1>13, <1>14, <1>15, <1>16, <1>17, <1>18, <1>19, <1>20,
     <1>22, <1>23, <1>24, <1>25, <1>26, <1>27,
     <1>28, <1>29, <1>30, <1>31, <1>32
     DEF Next, Dispatching, Handling, Arriving, Working

(* A request that is resolved or cancelled, and of which no handler, event,
   worker list or queue row holds an older copy, is never opened again: not by
   its armed timer, a late claim, a new call or a later round of the worker. *)
THEOREM ClosedStaysAtRest == Spec => ClosedAtRestIsFinal
<1>1. TypeInv /\ [Next]_vars => [\A s \in Sos : AtRest(s) => AtRest(s)']_vars
  BY RestStep
<1> QED
  BY <1>1, TypeInit, TypeStep, PTL DEF Spec, ClosedAtRestIsFinal

-----------------------------------------------------------------------------
(* The answers of the dashboard, read beside all of it.                    *)

Under == {"DISPATCHED", "ON_SITE"}
Opens == {"PENDING", "DISPATCHED", "ON_SITE", "PENDING_SPECIALIST"}

(* What the queries of an answer found of request s fits its status now.   *)
Fresh(s) ==
    /\ report.pc \in {"resolved", "ongoing", "pending", "charts"} =>
          (s \in report.total => /\ sos[s].status \in SosStatus
                                 /\ s \in report.done <=> sos[s].status = "RESOLVED"
                                 /\ s \in report.open <=> sos[s].status \in Opens)
    /\ report.pc \in {"ongoing", "pending", "charts"} =>
          (s \in report.saved <=> sos[s].status = "RESOLVED")
    /\ report.pc \in {"pending", "charts"} =>
          (s \in report.ongoing <=> sos[s].status \in Under)
    /\ report.pc = "charts" => (s \in report.failed <=> sos[s].status = "PENDING")

(* A request that only went on is past what the queries found it to be.    *)
Past(s) ==
    /\ s \in report.saved => sos[s].status \in Closed /\ s \notin report.ongoing
    /\ s \in report.ongoing => sos[s].status \in Under \cup Closed
    /\ s \in report.failed => s \notin report.saved /\ s \notin report.ongoing

ReportShape ==
    /\ report \in [pc: {"idle", "resolved", "ongoing", "pending", "charts", "missions", "map"},
                   total: SUBSET Dated, done: SUBSET Dated, open: SUBSET Dated,
                   saved: SUBSET Shown, ongoing: SUBSET Shown, failed: SUBSET Shown,
                   markers: SUBSET Shown, missions: SUBSET Shown]
    /\ report.pc \in {"resolved", "missions"} => report.saved = {}
    /\ report.pc \in {"resolved", "ongoing", "missions"} => report.ongoing = {}
    /\ report.pc # "charts" => report.failed = {}
    /\ report.pc = "idle" => report = NoReport

ReportInv ==
    /\ ReportShape
    /\ report.pc = "idle" => moved = {} /\ back = {} /\ joined = {}
    /\ \A s \in Shown \ moved : Fresh(s)
    /\ \A s \in Shown \ back : Past(s)
    /\ report.pc = "missions" => With(OnMap) \subseteq report.markers \cup joined
    /\ report.pc = "map" => report.missions \ report.markers \subseteq joined

(* A request that was made stays in its table.                             *)
LEMMA MadeStays ==
  ASSUME TypeInv, [Next]_vars, NEW s \in Sos, sos[s].status \in SosStatus
  PROVE  sos'[s].status \in SosStatus
<1> USE DEF SosStatus, Assigned
<1>0. sos \in [Sos -> SosRow]
  BY DEF TypeInv, TypeOK
<1>1. CASE UNCHANGED sos
  BY <1>1
<1>2. ASSUME NEW r \in Sos, Create(r) PROVE sos'[s].status \in SosStatus
  BY <1>0, <1>2 DEF Create, SosRow
<1>3. ASSUME NEW r \in Sos, NEW t \in Teams, HandleSosClaim(r, t)
      PROVE  sos'[s].status \in SosStatus
  BY <1>0, <1>3 DEF HandleSosClaim
<1>4. ASSUME NEW p \in Calls, Fallback(p) PROVE sos'[s].status \in SosStatus
  BY <1>0, <1>4 DEF Fallback, SosRow
<1>5. ASSUME NEW p \in Calls, CommitAssign(p) PROVE sos'[s].status \in SosStatus
  BY <1>0, <1>5 DEF CommitAssign
<1>6. ASSUME NEW p \in Calls, CommitQueue(p) PROVE sos'[s].status \in SosStatus
  BY <1>0, <1>6 DEF CommitQueue, SosRow
<1>7. ASSUME NEW p \in Calls, ManualCommit(p) PROVE sos'[s].status \in SosStatus
  BY <1>0, <1>7 DEF ManualCommit
<1>8. ASSUME NEW p \in Calls, Handoff(p) PROVE sos'[s].status \in SosStatus
  BY <1>0, <1>8 DEF Handoff
<1>9. ASSUME NEW p \in Calls, SosSave(p) PROVE sos'[s].status \in SosStatus
  <2>1. ctx[p].status \in SosStatus
    BY DEF TypeInv, TypeOK, Ctx
  <2>2. s = ctx[p].sos =>
           sos'[s].status = Written(ctx[p].found.status, ctx[p].status, sos[s].status)
    BY <1>0, <1>9 DEF SosSave
  <2>3. s # ctx[p].sos => sos'[s] = sos[s]
    BY <1>0, <1>9 DEF SosSave
  <2> QED
    BY <2>1, <2>2, <2>3 DEF Written
<1>10. Procs \subseteq Calls /\ Worker \in Calls
  BY DEF Calls
<1>11. CASE Next /\ sos' # sos
  <2>1. \/ \E r \in Sos : Create(r)
        \/ \E r \in Sos, t \in Teams : HandleSosClaim(r, t)
        \/ \E p \in Calls : \/ Fallback(p) \/ CommitAssign(p) \/ CommitQueue(p)
                            \/ ManualCommit(p) \/ Handoff(p) \/ SosSave(p)
    BY <1>10, <1>11 DEF Next, Dispatching, Handling, Arriving, Working, dbVars,
       ListenerError, Score, CommitFails, ManualRead, Release, TeamRead, TeamSelect, TeamSave,
       SosSelect,
       HandlerError, HandleSosCreated, OfferTimeout, AssignAuto, AssignManual,
       UpdateStatus, Cancel, TeamEdit, WorkerScan, WorkerRetry, WorkerError,
       WorkerRoundEnds, Restart
  <2> QED
    BY <1>2, <1>3, <1>4, <1>5, <1>6, <1>7, <1>8, <1>9, <2>1
<1> QED
  BY <1>1, <1>11 DEF vars

(* What is found of a request is so while its status stays.                *)
LEMMA FreshKept ==
  ASSUME NEW s, Fresh(s), UNCHANGED report, sos'[s].status = sos[s].status
  PROVE  Fresh(s)'
  BY DEF Fresh

(* A request that is neither reopened nor loses its team stays past it.    *)
LEMMA PastKept ==
  ASSUME TypeInv, [Next]_vars, NEW s \in Sos, Past(s), UNCHANGED report,
         ~Reopened(s), ~LosesTeam(s)
  PROVE  Past(s)'
<1>1. sos[s].status \in Closed => sos'[s].status \in Closed
  BY DEF Reopened
<1>2. sos[s].status \in Under => sos'[s].status \in Under \cup Closed
  <2>1. sos[s].status \in Under => sos'[s].status \in SosStatus \ Waiting
    BY MadeStays DEF LosesTeam, Under, SosStatus
  <2> QED
    BY <2>1 DEF SosStatus, Waiting, Under, Closed
<1> QED
  BY <1>1, <1>2 DEF Past

(* A step of the dispatch core beside an answer.                           *)
LEMMA DispatchesKeep ==
  ASSUME TypeInv, ReportInv, Dispatches PROVE ReportInv'
<1>1. Next /\ UNCHANGED report
  BY DEF Dispatches
<1>2. CASE report = NoReport
  <2>1. UNCHANGED <<report, moved, back, joined>>
    BY <1>2 DEF Dispatches
  <2>2. \A s \in Shown : Fresh(s)' /\ Past(s)'
    BY <1>2, <2>1 DEF Fresh, Past, NoReport
  <2> QED
    BY <1>2, <2>1, <2>2 DEF ReportInv, ReportShape, NoReport
<1>3. CASE report # NoReport
  <2>1. /\ moved' = moved \cup {s \in Shown : sos'[s].status # sos[s].status}
        /\ back' = back \cup {s \in Shown : Reopened(s) \/ LosesTeam(s)}
        /\ joined' = joined \cup {s \in Shown : Joins(s)}
    BY <1>3 DEF Dispatches
  <2>2. report.pc # "idle" /\ report.pc # "map"
    BY <1>3 DEF ReportInv, ReportShape, Dispatches
  <2>3. \A s \in Shown \ moved' : Fresh(s)'
    BY <1>1, <2>1, FreshKept DEF ReportInv
  <2>4. \A s \in Shown \ back' : Past(s)'
    BY <1>1, <2>1, PastKept, ReportsAssumption DEF ReportInv
  <2>5. ReportShape'
    BY <1>1 DEF ReportInv, ReportShape
  <2>6. report.pc = "missions" => (With(OnMap))' \subseteq report.markers \cup joined'
    BY <1>1, <2>1 DEF ReportInv, With, Joins, OnMap
  <2> QED
    BY <1>1, <2>2, <2>3, <2>4, <2>5, <2>6 DEF ReportInv
<1> QED
  BY <1>2, <1>3

(* The queries of an answer, each of which reads the rows as they are.     *)
LEMMA QueryingKeeps ==
  ASSUME TypeInv, ReportInv, Querying PROVE ReportInv'
<1> USE DEF Under, Opens
<1>0. /\ report.pc = "idle" => report = NoReport /\ moved = {} /\ back = {} /\ joined = {}
      /\ \A s \in Shown \ moved : Fresh(s)
      /\ \A s \in Shown \ back : Past(s)
      /\ ReportShape
  BY DEF ReportInv, ReportShape
<1>1. CASE getCharts
  <2>1. /\ report = NoReport /\ UNCHANGED <<sos, moved, back, joined>>
        /\ report' = [sosOverTime EXCEPT !.pc = "resolved"]
    BY <1>1 DEF getCharts, Opened, vars
  <2>2. /\ report'.pc = "resolved" /\ report'.saved = {} /\ report'.ongoing = {}
        /\ report'.failed = {}
        /\ report'.total = DatedWith(SosStatus) /\ report'.done = DatedWith({"RESOLVED"})
        /\ report'.open = DatedWith(Opens)
    BY <2>1 DEF sosOverTime, NoReport
  <2>3. ReportShape'
    BY <2>1, <2>2 DEF ReportShape, sosOverTime, NoReport, DatedWith
  <2>4. \A s \in Shown : Fresh(s)' /\ Past(s)'
    BY <2>1, <2>2 DEF Fresh, Past, DatedWith
  <2> QED
    BY <2>2, <2>3, <2>4 DEF ReportInv
<1>2. CASE resolvedCount
  <2>1. /\ report.pc = "resolved" /\ UNCHANGED <<sos, moved, back, joined>>
        /\ report' = [report EXCEPT !.pc = "ongoing", !.saved = With({"RESOLVED"})]
    BY <1>2 DEF resolvedCount, Finds, vars
  <2>2. ReportShape'
    BY <1>0, <2>1 DEF ReportShape, With
  <2>3. /\ report'.pc = "ongoing" /\ report'.saved = With({"RESOLVED"})
        /\ report'.total = report.total /\ report'.done = report.done
        /\ report'.open = report.open /\ report'.ongoing = {} /\ report'.failed = {}
    BY <1>0, <2>1 DEF ReportShape
  <2>4. \A s \in Shown \ moved : Fresh(s)'
    BY <1>0, <2>1, <2>3 DEF Fresh, With
  <2>5. \A s \in Shown \ back : Past(s)'
    BY <2>1, <2>3 DEF Past, With, Closed
  <2> QED
    BY <2>1, <2>2, <2>3, <2>4, <2>5 DEF ReportInv
<1>3. CASE ongoingCount
  <2>1. /\ report.pc = "ongoing" /\ UNCHANGED <<sos, moved, back, joined>>
        /\ report' = [report EXCEPT !.pc = "pending", !.ongoing = With(Under)]
    BY <1>3 DEF ongoingCount, Finds, vars
  <2>2. ReportShape'
    BY <1>0, <2>1 DEF ReportShape, With
  <2>3. /\ report'.pc = "pending" /\ report'.ongoing = With(Under)
        /\ report'.total = report.total /\ report'.done = report.done
        /\ report'.open = report.open /\ report'.saved = report.saved /\ report'.failed = {}
    BY <1>0, <2>1 DEF ReportShape
  <2>4. \A s \in Shown \ moved : Fresh(s)'
    BY <1>0, <2>1, <2>3 DEF Fresh, With
  <2>5. \A s \in Shown \ back : Past(s)'
    BY <1>0, <2>1, <2>3 DEF Past, With, Closed
  <2> QED
    BY <2>1, <2>2, <2>3, <2>4, <2>5 DEF ReportInv
<1>4. CASE pendingCount
  <2>1. /\ report.pc = "pending" /\ UNCHANGED <<sos, moved, back, joined>>
        /\ report' = [report EXCEPT !.pc = "charts", !.failed = With({"PENDING"})]
    BY <1>4 DEF pendingCount, Finds, vars
  <2>2. ReportShape'
    BY <1>0, <2>1 DEF ReportShape, With
  <2>3. /\ report'.pc = "charts" /\ report'.failed = With({"PENDING"})
        /\ report'.total = report.total /\ report'.done = report.done
        /\ report'.open = report.open /\ report'.saved = report.saved
        /\ report'.ongoing = report.ongoing
    BY <1>0, <2>1 DEF ReportShape
  <2>4. \A s \in Shown \ moved : Fresh(s)'
    BY <1>0, <2>1, <2>3 DEF Fresh, With
  <2>5. \A s \in Shown \ back : Past(s)'
    BY <1>0, <2>1, <2>3 DEF Past, With, Closed
  <2> QED
    BY <2>1, <2>2, <2>3, <2>4, <2>5 DEF ReportInv
<1>5. CASE getMapTasks
  <2>1. /\ report = NoReport /\ UNCHANGED <<sos, moved, back, joined>>
        /\ report' = [NoReport EXCEPT !.pc = "missions", !.markers = sosMarkers]
    BY <1>5 DEF getMapTasks, Opened, vars
  <2>2. /\ report'.pc = "missions" /\ report'.saved = {} /\ report'.ongoing = {}
        /\ report'.failed = {} /\ report'.markers = sosMarkers
    BY <2>1 DEF NoReport
  <2>3. ReportShape'
    BY <2>1, <2>2 DEF ReportShape, NoReport, sosMarkers, With
  <2>4. \A s \in Shown : Fresh(s)' /\ Past(s)'
    BY <2>1, <2>2 DEF Fresh, Past, sosMarkers, With
  <2>5. (With(OnMap))' \subseteq report'.markers
    BY <2>1, <2>2 DEF sosMarkers, With
  <2> QED
    BY <2>2, <2>3, <2>4, <2>5 DEF ReportInv
<1>6. CASE missions
  <2>1. PICK list \in SUBSET With(Under) :
           /\ report.pc = "missions" /\ UNCHANGED <<sos, moved, back, joined>>
           /\ report' = [report EXCEPT !.pc = "map", !.missions = list]
    BY <1>6 DEF missions, Finds, vars
  <2>2. ReportShape'
    BY <1>0, <2>1 DEF ReportShape, With
  <2>3. /\ report'.pc = "map" /\ report'.missions = list
        /\ report'.markers = report.markers /\ report'.saved = report.saved
        /\ report'.ongoing = report.ongoing /\ report'.failed = report.failed
    BY <1>0, <2>1 DEF ReportShape
  <2>4. \A s \in Shown \ moved : Fresh(s)'
    BY <1>0, <2>1, <2>3 DEF Fresh
  <2>5. \A s \in Shown \ back : Past(s)'
    BY <1>0, <2>1, <2>3 DEF Past
  <2>6. list \ report.markers \subseteq joined
    <3>1. With(OnMap) \subseteq report.markers \cup joined
      BY <2>1 DEF ReportInv
    <3>2. With(Under) \subseteq With(OnMap)
      BY DEF With, OnMap
    <3> QED
      BY <3>1, <3>2
  <2> QED
    BY <2>1, <2>2, <2>3, <2>4, <2>5, <2>6 DEF ReportInv
<1>7. CASE Answered
  <2>1. report' = NoReport /\ moved' = {} /\ back' = {} /\ joined' = {}
    BY <1>7 DEF Answered
  <2>2. ReportShape'
    BY <2>1 DEF ReportShape, NoReport
  <2>3. \A s \in Shown : Fresh(s)' /\ Past(s)'
    BY <2>1 DEF Fresh, Past, NoReport
  <2> QED
    BY <2>1, <2>2, <2>3 DEF ReportInv, NoReport
<1> QED
  BY <1>1, <1>2, <1>3, <1>4, <1>5, <1>6, <1>7 DEF Querying

(* No answer is in the making at first.                                    *)
LEMMA ReportInit == RInit => TypeInv /\ ReportInv
<1>1. RInit => TypeInv
  BY TypeInit DEF RInit
<1>2. RInit => ReportInv
  BY DEF RInit, ReportInv, ReportShape, Fresh, Past, NoReport
<1> QED
  BY <1>1, <1>2

(* Every step of the whole keeps the invariant of the answers.             *)
LEMMA ReportStep == TypeInv /\ ReportInv /\ [RNext]_allVars => TypeInv' /\ ReportInv'
<1> SUFFICES ASSUME TypeInv, ReportInv, [RNext]_allVars PROVE TypeInv' /\ ReportInv'
  OBVIOUS
<1>1. [Next]_vars
  BY DEF allVars, RNext, Dispatches, Querying, getCharts, resolvedCount, ongoingCount,
     pendingCount, getMapTasks, missions, Answered, Opened, Finds
<1>2. TypeInv'
  BY <1>1, TypeStep
<1>3. ASSUME Dispatches PROVE ReportInv'
  BY <1>3, DispatchesKeep
<1>4. ASSUME Querying PROVE ReportInv'
  BY <1>4, QueryingKeeps
<1>5. ASSUME UNCHANGED allVars PROVE ReportInv'
  BY <1>5 DEF allVars, vars, repVars, ReportInv, ReportShape, Fresh, Past, With
<1>6. ReportInv'
  BY <1>3, <1>4, <1>5, <1>1 DEF RNext
<1> QED
  BY <1>2, <1>6

(* The outcomes of an answer of the dashboard add up, though each is a query
   of its own and the requests go on between them. *)
THEOREM ChartsAddUp == RSpec => []OutcomesAddUp
<1>1. ASSUME ReportInv, report.pc = "charts", NEW s \in Shown
      PROVE  /\ s \notin back => Times(s) <= 1
             /\ s \notin moved /\ s \in report.total =>
                  /\ Times(s) = IF sos[s].status \in {"CANCELLED", "PENDING_SPECIALIST"}
                                THEN 0 ELSE 1
                  /\ s \in report.done <=> s \in report.saved
                  /\ s \in report.ongoing \cup report.failed => s \in report.open
  <2> DEFINE In == {f \in {"saved", "ongoing", "failed"} : s \in report[f]}
  <2>1. /\ "saved" \in In <=> s \in report.saved
        /\ "ongoing" \in In <=> s \in report.ongoing
        /\ "failed" \in In <=> s \in report.failed
    OBVIOUS
  <2>2. In \subseteq {"saved", "ongoing", "failed"}
    OBVIOUS
  <2>3. Times(s) = Cardinality(In)
    BY DEF Times
  <2> HIDE DEF In
  <2>4. In = {} => Times(s) = 0
    BY <2>3, FS_EmptySet
  <2>5. \A f : In = {f} => Times(s) = 1
    BY <2>3, FS_Singleton
  <2>6. ASSUME s \notin back PROVE Times(s) <= 1
    <3>1. Past(s)
      BY <1>1, <2>6 DEF ReportInv
    <3>2. In = {} \/ \E f \in {"saved", "ongoing", "failed"} : In = {f}
      BY <2>1, <2>2, <3>1 DEF Past
    <3> QED
      BY <2>4, <2>5, <3>2
  <2>7. ASSUME s \notin moved, s \in report.total
        PROVE  /\ Times(s) = IF sos[s].status \in {"CANCELLED", "PENDING_SPECIALIST"}
                             THEN 0 ELSE 1
               /\ s \in report.done <=> s \in report.saved
               /\ s \in report.ongoing \cup report.failed => s \in report.open
    <3>1. Fresh(s)
      BY <1>1, <2>7 DEF ReportInv
    <3>2. /\ sos[s].status \in SosStatus
          /\ s \in report.done <=> sos[s].status = "RESOLVED"
          /\ s \in report.open <=> sos[s].status \in Opens
          /\ s \in report.saved <=> sos[s].status = "RESOLVED"
          /\ s \in report.ongoing <=> sos[s].status \in Under
          /\ s \in report.failed <=> sos[s].status = "PENDING"
      BY <1>1, <2>7, <3>1 DEF Fresh
    <3> DEFINE Right == Times(s) = IF sos[s].status \in {"CANCELLED", "PENDING_SPECIALIST"}
                                   THEN 0 ELSE 1
    <3>3. ASSUME sos[s].status \in {"CANCELLED", "PENDING_SPECIALIST"} PROVE Right
      BY <2>1, <2>2, <2>4, <3>2, <3>3 DEF Under
    <3>4. ASSUME sos[s].status = "RESOLVED" PROVE Right
      <4>1. In = {"saved"}
        BY <2>1, <2>2, <3>2, <3>4 DEF Under
      <4> QED
        BY <2>5, <3>4, <4>1
    <3>5. ASSUME sos[s].status \in Under PROVE Right
      <4>1. In = {"ongoing"}
        BY <2>1, <2>2, <3>2, <3>5 DEF Under
      <4> QED
        BY <2>5, <3>5, <4>1 DEF Under
    <3>6. ASSUME sos[s].status = "PENDING" PROVE Right
      <4>1. In = {"failed"}
        BY <2>1, <2>2, <3>2, <3>6 DEF Under
      <4> QED
        BY <2>5, <3>6, <4>1
    <3>7. Right
      BY <2>7, <3>2, <3>3, <3>4, <3>5, <3>6 DEF SosStatus, Under
    <3> QED
      BY <3>2, <3>7 DEF Under, Opens
  <2> QED
    BY <2>6, <2>7
<1>2. ReportInv => OutcomesAddUp
  BY <1>1 DEF OutcomesAddUp
<1> QED
  BY <1>2, ReportInit, ReportStep, PTL DEF RSpec

(* Who is listed with a mission is on the map of the same answer, or the
   request became one to show there while the answer was made. *)
THEOREM MissionsOnMap == RSpec => []MissionsAreOnMap
<1>1. ReportInv => MissionsAreOnMap
  BY DEF ReportInv, MissionsAreOnMap
<1> QED
  BY <1>1, ReportInit, ReportStep, PTL DEF RSpec
=============================================================================
