--------------------------- MODULE DispatchLocks ---------------------------
(***************************************************************************)
(* The transactions of the dispatch services, row lock by row lock.        *)
(*                                                                         *)
(* A claim locks the request and then the team; automatic dispatch locks   *)
(* the candidates in the order of their ranking and then writes the        *)
(* request; manual dispatch and release lock the team first. The lock      *)
(* orders cross, so transactions can wait for each other in a circle, and  *)
(* the database then rolls one of them back. A plain save is one UPDATE    *)
(* of a row read some time before.                                         *)
(*                                                                         *)
(* External (PostgreSQL, READ COMMITTED): a locked row is held until its   *)
(* transaction ends, a lock that had to wait returns the row as committed  *)
(* by then, writes appear at commit, an UPDATE locks its row, a new        *)
(* assignedTeamId waits for the team's row (foreign key), and a member of  *)
(* a circle of waiting transactions is aborted.                            *)
(***************************************************************************)
EXTENDS DispatchRows

CONSTANTS
    Txs, NoTx,    \* transactions; each runs once
    Rankings,     \* candidate lists of the strategy
    NewStatuses,  \* statuses a plain save writes to a request
    EditStatuses, \* statuses a plain save writes to a team
    InitSos, InitTeam \* rows to start from

ASSUME LocksAssumption ==
    /\ NoTx \notin Txs
    /\ Sos \cap Teams = {}
    /\ Rankings \subseteq Seq(Teams) \ {<< >>}
    /\ NewStatuses \subseteq SosStatus
    /\ EditStatuses \subseteq TeamStatus
    /\ InitSos \subseteq SosRow
    /\ InitTeam \subseteq TeamRow

VARIABLES
    sos, team, \* committed rows
    outcome,   \* what the last transaction to commit did
    tx,        \* the transactions
    lock       \* lock[row]: the transaction that holds it

vars == <<sos, team, outcome, tx, lock>>

Ops == {"claim", "dispatch", "manual", "release", "saveSos", "saveTeam"}
Places == {"new", "lockSos", "lockTeam", "lockOld", "writeSos", "commit", "done"}

NoRow == [status |-> "AVAILABLE", cases |-> 0]
\* teams: the candidates left, the one in hand first. row, copy: the request
\* and the team as read. cur: the request that the count of cases leaves out.
Tx == [op: Ops, at: Places, sos: Sos \cup {NoSos}, teams: Seq(Teams),
       cur: Sos \cup {NoSos}, row: SosRow, copy: TeamRow, n: 0..Cardinality(Sos)]
NewTx == [op |-> "claim", at |-> "new", sos |-> NoSos, teams |-> << >>,
          cur |-> NoSos, row |-> [status |-> "NONE", team |-> NoTeam],
          copy |-> NoRow, n |-> 0]

Rows == Sos \cup Teams
A == INSTANCE AtomicAssignment WITH sos <- sos, team <- team, outcome <- outcome

TypeOK ==
    /\ sos \in [Sos -> SosRow]
    /\ team \in [Teams -> TeamRow]
    /\ outcome \in A!Outcome
    /\ tx \in [Txs -> Tx]
    /\ lock \in [Rows -> Txs \cup {NoTx}]

Init ==
    /\ sos \in [Sos -> InitSos]
    /\ team \in [Teams -> InitTeam]
    /\ outcome = [op |-> "none", sos |-> NoSos, team |-> NoTeam]
    /\ tx = [x \in Txs |-> NewTx]
    /\ lock = [r \in Rows |-> NoTx]

-----------------------------------------------------------------------------
(* Waiting and locking.                                                    *)

InHand(x) == tx[x].teams[1]
\* The team a manual dispatch takes the request from.
Old(x) == tx[x].row.team
MovesTeam(x) == Old(x) \in Teams \ {InHand(x)}

Wanted(x) ==
    CASE tx[x].at \in {"lockSos", "writeSos"} -> tx[x].sos
      [] tx[x].at = "lockTeam" -> InHand(x)
      [] tx[x].at = "lockOld" -> Old(x)

Blocking(x, y) ==
    /\ tx[x].at \in {"lockSos", "writeSos", "lockTeam", "lockOld"}
    /\ lock[Wanted(x)] = y
    /\ y # x

\* A circle of transactions that x belongs to, each waiting for another.
Deadlocked(x) ==
    \E C \in SUBSET Txs :
        /\ x \in C
        /\ \A y \in C : \E z \in C : Blocking(y, z)
        /\ \A y \in C : \E z \in C : Blocking(z, y)

\* x is at the lock and gets it, at once or after a wait.
Gets(x, at) ==
    /\ tx[x].at = at
    /\ lock[Wanted(x)] \in {NoTx, x}
    /\ lock' = [lock EXCEPT ![Wanted(x)] = x]

Becomes(x, record) == tx' = [tx EXCEPT ![x] = record]
At(x, place) == [tx[x] EXCEPT !.at = place]

\* Mutant of Ends: a transaction is given up and its locks are not.
EndsHolding(x) == UNCHANGED lock /\ Becomes(x, At(x, "done"))

\* Commit and rollback both let go of the locks.
Ends(x) ==
    /\ lock' = [r \in Rows |-> IF lock[r] = x THEN NoTx ELSE lock[r]]
    /\ Becomes(x, At(x, "done"))

-----------------------------------------------------------------------------
(* Beginnings: what the handler read before, outside the locks.            *)

Starts(x, record) ==
    /\ tx[x].at = "new"
    /\ Becomes(x, record)
    /\ UNCHANGED <<sos, team, outcome, lock>>

BeginClaim(x, s, t) ==
    Starts(x, [NewTx EXCEPT !.op = "claim", !.at = "lockSos", !.sos = s, !.teams = <<t>>])

BeginDispatch(x, s, c) ==
    Starts(x, [NewTx EXCEPT !.op = "dispatch", !.at = "lockTeam", !.sos = s, !.teams = c])

BeginManual(x, s, t) ==
    /\ sos[s].status \notin Closed
    /\ Starts(x, [NewTx EXCEPT !.op = "manual", !.at = "lockTeam", !.sos = s,
                               !.cur = s, !.teams = <<t>>, !.row = sos[s]])

\* s has just been resolved or cancelled by its handler.
BeginRelease(x, s) ==
    /\ sos[s].team # NoTeam
    /\ Starts(x, [NewTx EXCEPT !.op = "release", !.at = "lockTeam", !.cur = s,
                               !.teams = <<sos[s].team>>])

BeginSaveSos(x, s, status) ==
    Starts(x, [NewTx EXCEPT !.op = "saveSos", !.at = "lockSos", !.sos = s,
                            !.row = [sos[s] EXCEPT !.status = status]])

BeginSaveTeam(x, t, status) ==
    Starts(x, [NewTx EXCEPT !.op = "saveTeam", !.at = "lockTeam", !.teams = <<t>>,
                            !.copy = [team[t] EXCEPT !.status = status]])

-----------------------------------------------------------------------------
(* Locks.                                                                  *)

ClaimLocksSos(x) ==
    /\ tx[x].op = "claim"
    /\ tx[x].at = "lockSos"
    /\ lock[tx[x].sos] = NoTx
    /\ IF sos[tx[x].sos].status \in Waiting
       THEN Gets(x, "lockSos") /\ Becomes(x, At(x, "lockTeam"))
       ELSE Ends(x)
    /\ UNCHANGED <<sos, team, outcome>>

ClaimLocksTeam(x) ==
    /\ tx[x].op = "claim"
    /\ tx[x].at = "lockTeam"
    /\ lock[InHand(x)] = NoTx
    /\ IF team[InHand(x)].status \in Free
       THEN /\ Gets(x, "lockTeam")
            /\ Becomes(x, [At(x, "commit") EXCEPT !.copy = team[InHand(x)]])
       ELSE Ends(x)
    /\ UNCHANGED <<sos, team, outcome>>

\* Mutant of DispatchLocksTeam: the candidate is read without FOR UPDATE.
DispatchReadsTeam(x) ==
    /\ tx[x].op = "dispatch"
    /\ tx[x].at = "lockTeam"
    /\ UNCHANGED <<sos, team, outcome, lock>>
    /\ IF team[InHand(x)].status \in Free
       THEN Becomes(x, [At(x, "writeSos") EXCEPT !.copy = team[InHand(x)]])
       ELSE Becomes(x, [At(x, IF Len(tx[x].teams) > 1 THEN "lockTeam" ELSE "writeSos")
                           EXCEPT !.teams = Tail(tx[x].teams)])

\* The first candidate found free is taken; those passed over stay locked.
DispatchLocksTeam(x) ==
    /\ tx[x].op = "dispatch"
    /\ Gets(x, "lockTeam")
    /\ IF team[InHand(x)].status \in Free
       THEN Becomes(x, [At(x, "writeSos") EXCEPT !.copy = team[InHand(x)]])
       ELSE Becomes(x, [At(x, IF Len(tx[x].teams) > 1 THEN "lockTeam" ELSE "writeSos")
                           EXCEPT !.teams = Tail(tx[x].teams)])
    /\ UNCHANGED <<sos, team, outcome>>

ManualLocksTeam(x) ==
    /\ tx[x].op = "manual"
    /\ Gets(x, "lockTeam")
    /\ Becomes(x, [At(x, IF MovesTeam(x) THEN "lockOld" ELSE "writeSos")
                      EXCEPT !.copy = team[InHand(x)]])
    /\ UNCHANGED <<sos, team, outcome>>

ManualLocksOld(x) ==
    /\ Gets(x, "lockOld")
    /\ Becomes(x, [At(x, "writeSos") EXCEPT !.n = ActiveOthers(sos, Old(x), tx[x].cur)])
    /\ UNCHANGED <<sos, team, outcome>>

\* The queue has a request for the team or none; without, the cases are counted.
ReleaseLocksTeam(x) ==
    /\ tx[x].op = "release"
    /\ Gets(x, "lockTeam")
    /\ \/ \E next \in Sos : Becomes(x, [At(x, "writeSos") EXCEPT !.sos = next])
       \/ Becomes(x, [At(x, "commit") EXCEPT
                        !.n = ActiveOthers(sos, InHand(x), tx[x].cur)])
    /\ UNCHANGED <<sos, team, outcome>>

\* The UPDATE of the request takes its lock. A hand-off then counts, its own
\* write included.
WriteSos(x) ==
    /\ Gets(x, "writeSos")
    /\ Becomes(x, IF tx[x].op = "release"
                  THEN [At(x, "commit") EXCEPT
                          !.n = ActiveOthers(Assigned(sos, tx[x].sos, InHand(x)),
                                             InHand(x), tx[x].cur)]
                  ELSE At(x, "commit"))
    /\ UNCHANGED <<sos, team, outcome>>

\* A plain save of a request waits for its row, and for the row of the team
\* when that is not the one the request has by now.
SaveLocksSos(x) ==
    /\ tx[x].op = "saveSos"
    /\ Gets(x, "lockSos")
    /\ Becomes(x, IF Old(x) \in {NoTeam, sos[tx[x].sos].team}
                  THEN At(x, "commit")
                  ELSE [At(x, "lockTeam") EXCEPT !.teams = <<Old(x)>>])
    /\ UNCHANGED <<sos, team, outcome>>

SaveLocksTeam(x) ==
    /\ tx[x].op \in {"saveSos", "saveTeam"}
    /\ Gets(x, "lockTeam")
    /\ Becomes(x, At(x, "commit"))
    /\ UNCHANGED <<sos, team, outcome>>

-----------------------------------------------------------------------------
(* Ends.                                                                   *)

\* The team of the copy read under the lock, with one case more.
Given(x) == [team EXCEPT ![InHand(x)] =
                [status |-> "DISPATCHED", cases |-> tx[x].copy.cases + 1]]

CommitClaim(x) ==
    /\ tx[x].op = "claim"
    /\ sos' = Assigned(sos, tx[x].sos, InHand(x))
    /\ team' = Given(x)
    /\ A!Did("claim", tx[x].sos, InHand(x))

CommitDispatch(x) ==
    /\ tx[x].op = "dispatch"
    /\ tx[x].teams # << >>
    /\ sos' = Assigned(sos, tx[x].sos, InHand(x))
    /\ team' = Given(x)
    /\ A!Did("dispatch", tx[x].sos, InHand(x))

CommitQueue(x) ==
    /\ tx[x].op = "dispatch"
    /\ tx[x].teams = << >>
    /\ sos' = [sos EXCEPT ![tx[x].sos].status = "PENDING"]
    /\ UNCHANGED team
    /\ A!Did("queue", tx[x].sos, NoTeam)

CommitManual(x) ==
    /\ tx[x].op = "manual"
    /\ sos' = Assigned(sos, tx[x].sos, InHand(x))
    /\ team' = IF MovesTeam(x) THEN [Given(x) EXCEPT ![Old(x)] = Recounted(tx[x].n)]
                               ELSE Given(x)
    /\ A!Did("manual", tx[x].sos, InHand(x))

CommitHandoff(x) ==
    /\ tx[x].op = "release"
    /\ tx[x].sos # NoSos
    /\ sos' = Assigned(sos, tx[x].sos, InHand(x))
    /\ team' = [team EXCEPT ![InHand(x)] =
                  [status |-> "DISPATCHED", cases |-> tx[x].n + 1]]
    /\ A!Did("handoff", tx[x].sos, InHand(x))

CommitRelease(x) ==
    /\ tx[x].op = "release"
    /\ tx[x].sos = NoSos
    /\ team' = [team EXCEPT ![InHand(x)] = Recounted(tx[x].n)]
    /\ UNCHANGED sos
    /\ A!Did("release", NoSos, InHand(x))

CommitSaveSos(x) ==
    /\ tx[x].op = "saveSos"
    /\ sos' = [sos EXCEPT ![tx[x].sos] = tx[x].row]
    /\ UNCHANGED team
    /\ A!Did("saveSos", tx[x].sos, NoTeam)

CommitSaveTeam(x) ==
    /\ tx[x].op = "saveTeam"
    /\ team' = [team EXCEPT ![InHand(x)] = tx[x].copy]
    /\ UNCHANGED sos
    /\ A!Did("saveTeam", NoSos, InHand(x))

Commit(x) ==
    /\ tx[x].at = "commit"
    /\ \/ CommitClaim(x) \/ CommitDispatch(x) \/ CommitQueue(x) \/ CommitManual(x)
       \/ CommitHandoff(x) \/ CommitRelease(x) \/ CommitSaveSos(x) \/ CommitSaveTeam(x)
    /\ Ends(x)

\* A statement fails or the connection is lost: rolled back.
Fails(x) ==
    /\ tx[x].at \notin {"new", "done"}
    /\ Ends(x)
    /\ UNCHANGED <<sos, team, outcome>>

\* The deadlock detector picks x.
Victim(x) ==
    /\ Deadlocked(x)
    /\ Ends(x)
    /\ UNCHANGED <<sos, team, outcome>>

-----------------------------------------------------------------------------
Begin(x) ==
    \/ \E s \in Sos, t \in Teams : BeginClaim(x, s, t) \/ BeginManual(x, s, t)
    \/ \E s \in Sos, c \in Rankings : BeginDispatch(x, s, c)
    \/ \E s \in Sos : BeginRelease(x, s)
    \/ \E s \in Sos, status \in NewStatuses : BeginSaveSos(x, s, status)
    \/ \E t \in Teams, status \in EditStatuses : BeginSaveTeam(x, t, status)

Proceeds(x) ==
    \/ ClaimLocksSos(x) \/ ClaimLocksTeam(x) \/ DispatchLocksTeam(x)
    \/ ManualLocksTeam(x) \/ ManualLocksOld(x) \/ ReleaseLocksTeam(x)
    \/ WriteSos(x) \/ SaveLocksSos(x) \/ SaveLocksTeam(x)
    \/ Commit(x)

Next == \E x \in Txs : Begin(x) \/ Proceeds(x) \/ Fails(x) \/ Victim(x)

Spec == Init /\ [][Next]_vars

\* The database grants a lock that stays free, runs the next statement, and
\* looks for circles (deadlock_timeout).
Fairness == \A x \in Txs : WF_vars(Proceeds(x)) /\ WF_vars(Victim(x))
FairSpec == Spec /\ Fairness

-----------------------------------------------------------------------------
(* What holds.                                                             *)

\* Past its lock, a transaction that will write the team from the copy it has
\* read still has the newest row, although plain saves, other dispatches and
\* rolled back transactions run meanwhile: nothing it writes is a lost update.
CopiesCurrent ==
    \A x \in Txs :
        /\ tx[x].op \in {"claim", "dispatch", "manual"}
        /\ tx[x].at \in {"lockOld", "writeSos", "commit"}
        /\ tx[x].teams # << >>
        => lock[InHand(x)] = x /\ tx[x].copy = team[InHand(x)]

\* Lock by lock, the transactions do what AtomicAssignment says in one step:
\* the first claim wins although two are under way (BR-DISPATCH-04).
Atomic == A!Spec

\* Lock orders that cross never leave a handler waiting for ever.
EveryTransactionEnds ==
    \A x \in Txs : tx[x].at # "new" ~> tx[x].at = "done"
=============================================================================
