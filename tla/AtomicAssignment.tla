-------------------------- MODULE AtomicAssignment --------------------------
(***************************************************************************)
(* What the transactions of the dispatch services promise: each looks at   *)
(* the rows and changes them in one step, so the first claim of a request  *)
(* wins, no team is claimed or dispatched automatically unless it is free  *)
(* at that moment, and no case a team takes is lost.                       *)
(***************************************************************************)
EXTENDS DispatchRows

VARIABLES
    sos, team, \* the rows
    outcome    \* what the last transaction to commit did

Outcome == [op: {"none", "claim", "dispatch", "queue", "manual", "handoff",
                 "release", "saveSos", "saveTeam"},
            sos: Sos \cup {NoSos}, team: Teams \cup {NoTeam}]

Did(op, s, t) == outcome' = [op |-> op, sos |-> s, team |-> t]
IsFree(t) == team[t].status \in Free

Init ==
    /\ sos \in [Sos -> SosRow]
    /\ team \in [Teams -> TeamRow]
    /\ outcome = [op |-> "none", sos |-> NoSos, team |-> NoTeam]

\* sos:claim: the request still waits, the team is free.
Claim(s, t) ==
    /\ sos[s].status \in Waiting
    /\ IsFree(t)
    /\ sos' = Assigned(sos, s, t)
    /\ team' = TakesCase(team, t)
    /\ Did("claim", s, t)

\* Automatic dispatch: the team is free, whatever the request is by then.
Dispatch(s, t) ==
    /\ IsFree(t)
    /\ sos' = Assigned(sos, s, t)
    /\ team' = TakesCase(team, t)
    /\ Did("dispatch", s, t)

\* Automatic dispatch with no candidate left.
Queue(s) ==
    /\ sos' = [sos EXCEPT ![s].status = "PENDING"]
    /\ UNCHANGED team
    /\ Did("queue", s, NoTeam)

\* Manual dispatch; a team the request may have had before is counted again.
Manual(s, t) ==
    /\ sos' = Assigned(sos, s, t)
    /\ \/ team' = TakesCase(team, t)
       \/ \E old \in Teams \ {t}, n \in 0..Cardinality(Sos) :
             team' = [TakesCase(team, t) EXCEPT ![old] = Recounted(n)]
    /\ Did("manual", s, t)

\* Release of a team to the next request of its queue.
Handoff(s, t) ==
    /\ sos' = Assigned(sos, s, t)
    /\ \E n \in 0..Cardinality(Sos) :
          team' = [team EXCEPT ![t] = [status |-> "DISPATCHED", cases |-> n + 1]]
    /\ Did("handoff", s, t)

\* Release of a team nobody waits for.
Release(t) ==
    /\ \E n \in 0..Cardinality(Sos) : team' = [team EXCEPT ![t] = Recounted(n)]
    /\ UNCHANGED sos
    /\ Did("release", NoSos, t)

\* A whole row is written back, outside every transaction above.
SaveSos(s) ==
    /\ \E row \in SosRow : sos' = [sos EXCEPT ![s] = row]
    /\ UNCHANGED team
    /\ Did("saveSos", s, NoTeam)

SaveTeam(t) ==
    /\ \E status \in TeamStatus :
          team' = [team EXCEPT ![t] = [status |-> status, cases |-> team'[t].cases]]
    /\ team'[t].cases \in Nat
    /\ UNCHANGED sos
    /\ Did("saveTeam", NoSos, t)

Next ==
    \/ \E s \in Sos, t \in Teams :
          Claim(s, t) \/ Dispatch(s, t) \/ Manual(s, t) \/ Handoff(s, t)
    \/ \E s \in Sos : Queue(s) \/ SaveSos(s)
    \/ \E t \in Teams : Release(t) \/ SaveTeam(t)

vars == <<sos, team, outcome>>
Spec == Init /\ [][Next]_vars
=============================================================================
