------------------------ MODULE DispatchLocksProofs ------------------------
(***************************************************************************)
(* Proofs about DispatchLocks, for any requests, teams and transactions:   *)
(* whatever the interleaving of their locks, the transactions do what      *)
(* AtomicAssignment says in one step.                                      *)
(***************************************************************************)
EXTENDS DispatchLocks, FiniteSetTheorems, SequenceTheorems, TLAPS

-----------------------------------------------------------------------------
(* The rows. *)

(* A team has at most as many cases counted as there are requests. *)
LEMMA CountTyped ==
    ASSUME NEW requests, NEW t, NEW cur
    PROVE  /\ ActiveOthers(requests, t, cur) \in 0..Cardinality(Sos)
           /\ ActiveOthers(requests, t, cur) \in Nat
<1> DEFINE C == {s \in Sos \ {cur} : /\ requests[s].team = t
                                     /\ requests[s].status \in Active}
<1>1. C \in SUBSET Sos
  OBVIOUS
<1>2. IsFiniteSet(C) /\ Cardinality(C) <= Cardinality(Sos)
  BY <1>1, FS_Subset, RowsAssumption
<1>3. Cardinality(C) \in Nat /\ Cardinality(Sos) \in Nat
  BY <1>2, FS_CardinalityType, RowsAssumption
<1>4. ActiveOthers(requests, t, cur) = Cardinality(C)
  BY DEF ActiveOthers
<1> HIDE DEF C
<1> QED
  BY <1>2, <1>3, <1>4

(* A recounted team is a row of the table. *)
LEMMA RecountedTyped ==
    ASSUME NEW n \in Nat
    PROVE  Recounted(n) \in TeamRow
BY DEF Recounted, TeamRow, TeamStatus

(* A team that takes a case stays a row of the table, the others are as before. *)
LEMMA TakesCaseTyped ==
    ASSUME NEW teams \in [Teams -> TeamRow], NEW t \in Teams
    PROVE  TakesCase(teams, t) \in [Teams -> TeamRow]
BY DEF TakesCase, TeamRow, TeamStatus

(* Assigning a team keeps the table of requests. *)
LEMMA AssignedTyped ==
    ASSUME NEW requests \in [Sos -> SosRow], NEW s, NEW t \in Teams
    PROVE  Assigned(requests, s, t) \in [Sos -> SosRow]
BY DEF Assigned, SosRow, SosStatus

(* A list of one team is a list with a team. *)
LEMMA OneTeam ==
    ASSUME NEW t \in Teams
    PROVE  <<t>> \in Seq(Teams) /\ <<t>> # << >> /\ <<t>>[1] = t
<1>1. <<t>> \in Seq(Teams) /\ Len(<<t>>) = 1
  OBVIOUS
<1>2. <<t>>[1] = t
  OBVIOUS
<1> QED
  BY <1>1, <1>2

(* Passing over a candidate leaves a shorter list of teams. *)
LEMMA TailTyped ==
    ASSUME NEW c \in Seq(Teams), c # << >>
    PROVE  /\ Tail(c) \in Seq(Teams)
           /\ IF Len(c) > 1 THEN Tail(c) # << >> ELSE Tail(c) = << >>
<1>1. Len(c) \in Nat /\ Len(c) > 0
  BY EmptySeq
<1>2. Tail(c) \in Seq(Teams) /\ Len(Tail(c)) = Len(c) - 1
  BY HeadTailProperties
<1> DEFINE d == Tail(c)
<1>3. d \in Seq(Teams) /\ Len(d) = Len(c) - 1
  BY <1>2
<1> HIDE DEF d
<1>4. Len(d) > 0 => d # << >>
  BY <1>3, EmptySeq
<1>5. ~(Len(d) > 0) => d = << >>
  BY <1>1, <1>3, EmptySeq
<1>6. IF Len(c) > 1 THEN d # << >> ELSE d = << >>
  BY <1>1, <1>3, <1>4, <1>5
<1> QED
  BY <1>2, <1>6 DEF d

(* What a transaction refers to at each place. *)
Operands(x) ==
    /\ tx[x].op # "claim" => tx[x].at # "new"
    /\ tx[x].op \in {"claim", "dispatch", "manual", "saveSos"} /\ tx[x].at # "new"
          => tx[x].sos \in Sos
    /\ tx[x].op \in {"claim", "manual", "release", "saveTeam"} /\ tx[x].at # "new"
          => tx[x].teams # << >>
    /\ tx[x].op = "manual" => tx[x].cur = tx[x].sos
    /\ tx[x].op = "release" /\ tx[x].at = "lockTeam" => tx[x].sos = NoSos
    /\ tx[x].at = "lockSos" => tx[x].op \in {"claim", "saveSos"}
    /\ tx[x].at = "lockTeam" => tx[x].teams # << >>
    /\ tx[x].at = "lockOld" => tx[x].op = "manual" /\ MovesTeam(x)
    /\ tx[x].at = "writeSos" => /\ tx[x].op \in {"dispatch", "manual", "release"}
                                /\ tx[x].sos \in Sos

(* The locks it has by then, and the rows they keep as it has read them. *)
Held(x) ==
    /\ tx[x].op = "claim" /\ tx[x].at \in {"lockTeam", "commit"}
          => lock[tx[x].sos] = x /\ sos[tx[x].sos].status \in Waiting
    /\ /\ tx[x].op \in {"claim", "dispatch", "manual"}
       /\ tx[x].at \in {"lockOld", "writeSos", "commit"}
       /\ tx[x].teams # << >>
       => /\ lock[InHand(x)] = x
          /\ tx[x].copy = team[InHand(x)]
          /\ tx[x].op # "manual" => tx[x].copy.status \in Free
    /\ tx[x].op = "manual" /\ tx[x].at \in {"writeSos", "commit"} /\ MovesTeam(x)
          => lock[Old(x)] = x
    /\ tx[x].op \in {"release", "saveTeam"} /\ tx[x].at \in {"writeSos", "commit"}
          => lock[InHand(x)] = x
    /\ /\ tx[x].op \in {"dispatch", "manual", "release", "saveSos"}
       /\ tx[x].at = "commit"
       /\ tx[x].sos \in Sos
       => lock[tx[x].sos] = x
    /\ tx[x].op = "saveSos" /\ tx[x].at = "lockTeam" => lock[tx[x].sos] = x

LocksInv == TypeOK /\ \A x \in Txs : Operands(x) /\ Held(x)

-----------------------------------------------------------------------------
(* Frames.                                                                 *)

(* The team in hand is a team. *)
LEMMA InHandTyped ==
    ASSUME TypeOK, NEW x \in Txs, tx[x].teams # << >>
    PROVE  InHand(x) \in Teams
<1>1. tx[x].teams \in Seq(Teams)
  BY DEF TypeOK, Tx
<1> QED
  BY <1>1 DEF InHand

(* A transaction keeps what it has as long as the rows it holds are left alone. *)
LEMMA OthersKept ==
    ASSUME TypeOK, NEW y \in Txs, Operands(y), Held(y), tx'[y] = tx[y],
           \A r \in Rows : lock[r] = y => lock'[r] = y,
           \A s \in Sos : lock[s] = y => sos'[s] = sos[s],
           \A t \in Teams : lock[t] = y => team'[t] = team[t]
    PROVE  Operands(y)' /\ Held(y)'
<1>1. Operands(y)'
  BY DEF Operands, MovesTeam, Old, InHand
<1>2. tx[y].op = "claim" /\ tx[y].at \in {"lockTeam", "commit"} => tx[y].sos \in Sos
  BY DEF Operands
<1>3. tx[y].teams # << >> => InHand(y) \in Teams
  BY InHandTyped
<1>4. tx[y].op \in {"release", "saveTeam"} /\ tx[y].at \in {"writeSos", "commit"}
         => InHand(y) \in Teams
  BY <1>3 DEF Operands
<1>5. MovesTeam(y) => Old(y) \in Teams
  BY DEF MovesTeam
<1>6. InHand(y)' = InHand(y) /\ Old(y)' = Old(y) /\ (MovesTeam(y)' <=> MovesTeam(y))
  BY DEF InHand, Old, MovesTeam
<1>7. Held(y)'
  <2>1. tx'[y].op = "claim" /\ tx'[y].at \in {"lockTeam", "commit"}
          => lock'[tx'[y].sos] = y /\ sos'[tx'[y].sos].status \in Waiting
    BY <1>2 DEF Held, Rows
  <2>2. /\ tx'[y].op \in {"claim", "dispatch", "manual"}
        /\ tx'[y].at \in {"lockOld", "writeSos", "commit"}
        /\ tx'[y].teams # << >>
        => /\ lock'[InHand(y)] = y
           /\ tx'[y].copy = team'[InHand(y)]
           /\ tx'[y].op # "manual" => tx'[y].copy.status \in Free
    BY <1>3 DEF Held, Rows
  <2>3. tx'[y].op = "manual" /\ tx'[y].at \in {"writeSos", "commit"} /\ MovesTeam(y)
           => lock'[Old(y)] = y
    BY <1>5 DEF Held, Rows
  <2>4. tx'[y].op \in {"release", "saveTeam"} /\ tx'[y].at \in {"writeSos", "commit"}
           => lock'[InHand(y)] = y
    BY <1>4 DEF Held, Rows
  <2>5. /\ tx'[y].op \in {"dispatch", "manual", "release", "saveSos"}
        /\ tx'[y].at = "commit"
        /\ tx'[y].sos \in Sos
        => lock'[tx'[y].sos] = y
    BY DEF Held, Rows
  <2>6. tx'[y].op = "saveSos" /\ tx'[y].at = "lockTeam" => lock'[tx'[y].sos] = y
    BY DEF Operands, Held, Rows
  <2> QED
    BY <1>6, <2>1, <2>2, <2>3, <2>4, <2>5, <2>6 DEF Held
<1> QED
  BY <1>1, <1>7

(* A step of x that takes no lock from another and writes no committed row. *)
LEMMA LockStep ==
    ASSUME LocksInv, NEW x \in Txs, NEW c \in Tx,
           tx' = [tx EXCEPT ![x] = c],
           UNCHANGED <<sos, team, outcome>>,
           lock' \in [Rows -> Txs \cup {NoTx}],
           \A y \in Txs \ {x}, r \in Rows : lock[r] = y => lock'[r] = y,
           Operands(x)', Held(x)'
    PROVE  LocksInv'
<1>1. TypeOK'
  BY DEF LocksInv, TypeOK
<1>2. ASSUME NEW y \in Txs \ {x} PROVE Operands(y)' /\ Held(y)'
  <2>1. tx'[y] = tx[y]
    BY DEF LocksInv, TypeOK
  <2> QED
    BY <2>1, OthersKept DEF LocksInv
<1> QED
  BY <1>1, <1>2 DEF LocksInv

(* Getting a lock takes it from nobody. *)
LEMMA GetsLock ==
    ASSUME TypeOK, NEW x \in Txs, NEW at, Gets(x, at), Wanted(x) \in Rows
    PROVE  /\ lock' \in [Rows -> Txs \cup {NoTx}]
           /\ \A y \in Txs \ {x}, r \in Rows : lock[r] = y => lock'[r] = y
           /\ lock'[Wanted(x)] = x
           /\ \A r \in Rows : lock[r] = x => lock'[r] = x
BY LocksAssumption DEF TypeOK, Gets

(* The end of a transaction: its locks go, the rows it held may have changed. *)
LEMMA EndStep ==
    ASSUME LocksInv, NEW x \in Txs, tx[x].at # "new", Ends(x),
           sos' \in [Sos -> SosRow], team' \in [Teams -> TeamRow],
           outcome' \in A!Outcome,
           \A s \in Sos : lock[s] = x \/ sos'[s] = sos[s],
           \A t \in Teams : lock[t] = x \/ team'[t] = team[t]
    PROVE  LocksInv'
<1>1. lock' \in [Rows -> Txs \cup {NoTx}]
      /\ \A y \in Txs \ {x}, r \in Rows : lock[r] = y => lock'[r] = y
  BY DEF LocksInv, TypeOK, Ends
<1> DEFINE c == [tx[x] EXCEPT !.at = "done"]
<1>2. tx' = [tx EXCEPT ![x] = c]
  BY DEF Ends, Becomes, At
<1>3. c \in Tx
  BY DEF LocksInv, TypeOK, Tx, Places
<1>4. TypeOK'
  BY <1>1, <1>2, <1>3 DEF LocksInv, TypeOK
<1>5. tx'[x] = c
  BY <1>2 DEF LocksInv, TypeOK
<1>6. Operands(x)' /\ Held(x)'
  <2>1. /\ c.op = tx[x].op /\ c.sos = tx[x].sos /\ c.teams = tx[x].teams
        /\ c.cur = tx[x].cur /\ c.at = "done"
    BY DEF LocksInv, TypeOK, Tx
  <2> HIDE DEF c
  <2>2. Operands(x)'
    BY <1>5, <2>1 DEF LocksInv, Operands
  <2>3. Held(x)'
    BY <1>5, <2>1 DEF Held
  <2> QED
    BY <2>2, <2>3
<1>7. ASSUME NEW y \in Txs \ {x} PROVE Operands(y)' /\ Held(y)'
  <2>1. tx'[y] = tx[y]
    BY <1>2 DEF LocksInv, TypeOK
  <2>2. /\ \A s \in Sos : lock[s] = y => sos'[s] = sos[s]
        /\ \A t \in Teams : lock[t] = y => team'[t] = team[t]
    OBVIOUS
  <2> QED
    BY <1>1, <2>1, <2>2, OthersKept DEF LocksInv
<1> QED
  BY <1>4, <1>6, <1>7 DEF LocksInv

-----------------------------------------------------------------------------
(* The invariant: beginnings.                                              *)

(* A transaction that has not begun is a transaction. *)
LEMMA NewTxTyped == NewTx \in Tx
<1>1. Cardinality(Sos) \in Nat
  BY RowsAssumption, FS_CardinalityType
<1> QED
  BY <1>1 DEF NewTx, Tx, Ops, Places, NoRow, TeamRow, TeamStatus, SosRow

(* At first nobody holds a lock. *)
LEMMA LocksInit == Init => LocksInv
<1> SUFFICES ASSUME Init PROVE LocksInv
  OBVIOUS
<1>1. TypeOK
  BY NewTxTyped, LocksAssumption DEF Init, TypeOK, A!Outcome
<1>2. \A x \in Txs : Operands(x) /\ Held(x)
  BY DEF Init, NewTx, Operands, Held
<1> QED
  BY <1>1, <1>2 DEF LocksInv

(* A transaction that begins holds nothing and waits for its first lock. *)
LEMMA BeginStep ==
    ASSUME LocksInv, NEW x \in Txs, NEW c \in Tx, Starts(x, c),
           c.at \in {"lockSos", "lockTeam"},
           c.op = "claim" => c.at = "lockSos",
           c.at = "lockSos" => c.op \in {"claim", "saveSos"},
           c.op \in {"claim", "dispatch", "manual", "saveSos"} => c.sos \in Sos,
           c.op = "saveSos" => c.at = "lockSos",
           c.op # "saveSos" => c.teams # << >>,
           c.op = "manual" => c.cur = c.sos,
           c.op = "release" => c.sos = NoSos
    PROVE  LocksInv'
<1>1. tx' = [tx EXCEPT ![x] = c] /\ UNCHANGED <<sos, team, outcome, lock>>
  BY DEF Starts, Becomes
<1>2. tx'[x] = c
  BY <1>1 DEF LocksInv, TypeOK
<1>3. c.op \in Ops
  BY DEF Tx
<1>4. Operands(x)'
  BY <1>2, <1>3 DEF Operands, Ops
<1>5. Held(x)'
  BY <1>2 DEF Held
<1>6. lock' \in [Rows -> Txs \cup {NoTx}]
  BY <1>1 DEF LocksInv, TypeOK
<1> QED
  BY <1>1, <1>4, <1>5, <1>6, LockStep

(* A transaction begins: it holds nothing and its operands are set. *)
LEMMA BeginKeeps ==
    ASSUME LocksInv, NEW x \in Txs, Begin(x)
    PROVE  LocksInv'
<1>0. TypeOK
  BY DEF LocksInv
<1>1. ASSUME NEW s \in Sos, NEW t \in Teams, BeginClaim(x, s, t) PROVE LocksInv'
  <2> DEFINE c == [NewTx EXCEPT !.op = "claim", !.at = "lockSos", !.sos = s,
                                !.teams = <<t>>]
  <2>1. c \in Tx
    BY NewTxTyped, OneTeam DEF Tx, Ops, Places
  <2>2. c.op = "claim" /\ c.at = "lockSos" /\ c.sos = s /\ c.teams = <<t>>
    BY NewTxTyped DEF Tx
  <2>3. Starts(x, c)
    BY <1>1 DEF BeginClaim
  <2> HIDE DEF c
  <2> QED
    BY <2>1, <2>2, <2>3, OneTeam, BeginStep
<1>2. ASSUME NEW s \in Sos, NEW r \in Rankings, BeginDispatch(x, s, r) PROVE LocksInv'
  <2> DEFINE c == [NewTx EXCEPT !.op = "dispatch", !.at = "lockTeam", !.sos = s,
                                !.teams = r]
  <2>1. r \in Seq(Teams) /\ r # << >>
    BY LocksAssumption
  <2>2. c \in Tx
    BY <2>1, NewTxTyped DEF Tx, Ops, Places
  <2>3. c.op = "dispatch" /\ c.at = "lockTeam" /\ c.sos = s /\ c.teams = r
    BY NewTxTyped DEF Tx
  <2>4. Starts(x, c)
    BY <1>2 DEF BeginDispatch
  <2> HIDE DEF c
  <2> QED
    BY <2>1, <2>2, <2>3, <2>4, BeginStep
<1>3. ASSUME NEW s \in Sos, NEW t \in Teams, BeginManual(x, s, t) PROVE LocksInv'
  <2> DEFINE c == [NewTx EXCEPT !.op = "manual", !.at = "lockTeam", !.sos = s,
                                !.cur = s, !.teams = <<t>>, !.row = sos[s]]
  <2>1. sos[s] \in SosRow
    BY <1>0 DEF TypeOK
  <2>2. c \in Tx
    BY <2>1, NewTxTyped, OneTeam DEF Tx, Ops, Places
  <2>3. /\ c.op = "manual" /\ c.at = "lockTeam" /\ c.sos = s /\ c.cur = s
        /\ c.teams = <<t>>
    BY NewTxTyped DEF Tx
  <2>4. Starts(x, c)
    BY <1>3 DEF BeginManual
  <2> HIDE DEF c
  <2> QED
    BY <2>1, <2>2, <2>3, <2>4, OneTeam, BeginStep
<1>4. ASSUME NEW s \in Sos, BeginRelease(x, s) PROVE LocksInv'
  <2> DEFINE t == sos[s].team
             c == [NewTx EXCEPT !.op = "release", !.at = "lockTeam", !.cur = s,
                                !.teams = <<t>>]
  <2>1. t \in Teams
    BY <1>0, <1>4 DEF BeginRelease, TypeOK, SosRow
  <2>2. c \in Tx
    BY <2>1, NewTxTyped, OneTeam DEF Tx, Ops, Places
  <2>3. c.op = "release" /\ c.at = "lockTeam" /\ c.teams = <<t>> /\ c.sos = NoSos
    BY NewTxTyped DEF Tx, NewTx
  <2>4. Starts(x, c)
    BY <1>4 DEF BeginRelease
  <2> HIDE DEF c
  <2> QED
    BY <2>1, <2>2, <2>3, <2>4, OneTeam, BeginStep
<1>5. ASSUME NEW s \in Sos, NEW status \in NewStatuses, BeginSaveSos(x, s, status)
      PROVE  LocksInv'
  <2> DEFINE c == [NewTx EXCEPT !.op = "saveSos", !.at = "lockSos", !.sos = s,
                                !.row = [sos[s] EXCEPT !.status = status]]
  <2>1. [sos[s] EXCEPT !.status = status] \in SosRow
    BY <1>0, LocksAssumption DEF TypeOK, SosRow
  <2>2. c \in Tx
    BY <2>1, NewTxTyped DEF Tx, Ops, Places
  <2>3. c.op = "saveSos" /\ c.at = "lockSos" /\ c.sos = s
    BY NewTxTyped DEF Tx
  <2>4. Starts(x, c)
    BY <1>5 DEF BeginSaveSos
  <2> HIDE DEF c
  <2> QED
    BY <2>2, <2>3, <2>4, BeginStep
<1>6. ASSUME NEW t \in Teams, NEW status \in EditStatuses, BeginSaveTeam(x, t, status)
      PROVE  LocksInv'
  <2> DEFINE c == [NewTx EXCEPT !.op = "saveTeam", !.at = "lockTeam", !.teams = <<t>>,
                                !.copy = [team[t] EXCEPT !.status = status]]
  <2>1. [team[t] EXCEPT !.status = status] \in TeamRow
    BY <1>0, LocksAssumption DEF TypeOK, TeamRow
  <2>2. c \in Tx
    BY <2>1, NewTxTyped, OneTeam DEF Tx, Ops, Places
  <2>3. c.op = "saveTeam" /\ c.at = "lockTeam" /\ c.teams = <<t>>
    BY NewTxTyped DEF Tx
  <2>4. Starts(x, c)
    BY <1>6 DEF BeginSaveTeam
  <2> HIDE DEF c
  <2> QED
    BY <2>1, <2>2, <2>3, <2>4, OneTeam, BeginStep
<1> QED
  BY <1>1, <1>2, <1>3, <1>4, <1>5, <1>6 DEF Begin

-----------------------------------------------------------------------------
(* The invariant: locks.                                                   *)

(* The row wanted is a row of the database. *)
LEMMA WantedTyped ==
    ASSUME LocksInv, NEW x \in Txs,
           tx[x].at \in {"lockSos", "writeSos", "lockTeam", "lockOld"}
    PROVE  /\ Wanted(x) \in Rows
           /\ tx[x].at \in {"lockSos", "writeSos"} =>
                 Wanted(x) = tx[x].sos /\ tx[x].sos \in Sos
           /\ tx[x].at = "lockTeam" =>
                 Wanted(x) = InHand(x) /\ InHand(x) \in Teams /\ tx[x].teams # << >>
           /\ tx[x].at = "lockOld" => Wanted(x) = Old(x) /\ Old(x) \in Teams
<1>1. Operands(x) /\ TypeOK
  BY DEF LocksInv
<1>2. CASE tx[x].at \in {"lockSos", "writeSos"}
  BY <1>1, <1>2 DEF Operands, Wanted, Rows
<1>3. CASE tx[x].at = "lockTeam"
  BY <1>1, <1>3, InHandTyped DEF Operands, Wanted, Rows
<1>4. CASE tx[x].at = "lockOld"
  BY <1>1, <1>4 DEF Operands, MovesTeam, Wanted, Rows
<1> QED
  BY <1>2, <1>3, <1>4

(* A transaction that ends without writing. *)
LEMMA EmptyEnd ==
    ASSUME LocksInv, NEW x \in Txs, tx[x].at # "new", Ends(x),
           UNCHANGED <<sos, team, outcome>>
    PROVE  LocksInv'
BY EndStep DEF LocksInv, TypeOK

(* A step of x that gets the lock it wants and moves on with record c. *)
LEMMA GetsStep ==
    ASSUME LocksInv, NEW x \in Txs, NEW at, Gets(x, at),
           at \in {"lockSos", "writeSos", "lockTeam", "lockOld"},
           NEW c \in Tx, Becomes(x, c), UNCHANGED <<sos, team, outcome>>,
           Operands(x)', Held(x)'
    PROVE  LocksInv'
<1>1. Wanted(x) \in Rows
  BY WantedTyped DEF Gets
<1> QED
  BY <1>1, GetsLock, LockStep DEF LocksInv, Becomes

(* A claim locks the request, then the team. *)
LEMMA ClaimLocksKeep ==
    ASSUME LocksInv, NEW x \in Txs, ClaimLocksSos(x) \/ ClaimLocksTeam(x)
    PROVE  LocksInv'
<1>0. TypeOK /\ Operands(x) /\ Held(x) /\ tx[x] \in Tx
  BY DEF LocksInv, TypeOK
<1>1. CASE ClaimLocksSos(x)
  <2>1. CASE Ends(x)
    BY <1>1, <2>1, EmptyEnd DEF ClaimLocksSos
  <2>2. ASSUME Gets(x, "lockSos"), Becomes(x, At(x, "lockTeam")),
               sos[tx[x].sos].status \in Waiting
        PROVE  LocksInv'
    <3> DEFINE c == [tx[x] EXCEPT !.at = "lockTeam"]
    <3>1. c \in Tx /\ c.op = "claim" /\ c.at = "lockTeam"
          /\ c.sos = tx[x].sos /\ c.teams = tx[x].teams
      BY <1>0, <1>1 DEF ClaimLocksSos, Tx, Places
    <3>2. Becomes(x, c)
      BY <2>2 DEF At
    <3> HIDE DEF c
    <3>3. tx'[x] = c
      BY <1>0, <3>2 DEF Becomes, TypeOK
    <3>4. lock'[tx[x].sos] = x
      BY <1>0, <1>1, <2>2, GetsLock, WantedTyped DEF ClaimLocksSos
    <3>5. UNCHANGED <<sos, team, outcome>>
      BY <1>1 DEF ClaimLocksSos
    <3>6. Operands(x)'
      BY <1>0, <1>1, <3>1, <3>3 DEF ClaimLocksSos, Operands
    <3>7. Held(x)'
      BY <2>2, <3>1, <3>3, <3>4, <3>5 DEF Held
    <3> QED
      BY <2>2, <3>1, <3>2, <3>5, <3>6, <3>7, GetsStep
  <2> QED
    BY <1>1, <2>1, <2>2 DEF ClaimLocksSos
<1>2. CASE ClaimLocksTeam(x)
  <2>1. CASE Ends(x)
    BY <1>2, <2>1, EmptyEnd DEF ClaimLocksTeam
  <2>2. ASSUME Gets(x, "lockTeam"),
               Becomes(x, [At(x, "commit") EXCEPT !.copy = team[InHand(x)]]),
               team[InHand(x)].status \in Free
        PROVE  LocksInv'
    <3> DEFINE t == InHand(x)
               c == [tx[x] EXCEPT !.at = "commit", !.copy = team[t]]
    <3>1. t \in Teams /\ tx[x].teams # << >> /\ Wanted(x) = t /\ Wanted(x) \in Rows
      BY <1>2, WantedTyped DEF ClaimLocksTeam
    <3>2. team[t] \in TeamRow
      BY <1>0, <3>1 DEF TypeOK
    <3>3. c \in Tx /\ c.op = "claim" /\ c.at = "commit" /\ c.copy = team[t]
          /\ c.sos = tx[x].sos /\ c.teams = tx[x].teams
      BY <1>0, <1>2, <3>2 DEF ClaimLocksTeam, Tx, Places
    <3>4. Becomes(x, c)
      BY <2>2 DEF At
    <3> HIDE DEF c
    <3>5. tx'[x] = c /\ InHand(x)' = t
      BY <1>0, <3>3, <3>4 DEF Becomes, TypeOK, InHand
    <3>6. lock'[t] = x /\ \A r \in Rows : lock[r] = x => lock'[r] = x
      BY <1>0, <2>2, <3>1, GetsLock
    <3>7. UNCHANGED <<sos, team, outcome>>
      BY <1>2 DEF ClaimLocksTeam
    <3>8. Operands(x)'
      BY <1>0, <1>2, <3>3, <3>5 DEF ClaimLocksTeam, Operands
    <3>9. tx[x].sos \in Sos /\ lock[tx[x].sos] = x /\ sos[tx[x].sos].status \in Waiting
      BY <1>0, <1>2 DEF ClaimLocksTeam, Operands, Held
    <3>10. lock'[c.sos] = x /\ sos'[c.sos].status \in Waiting
      BY <3>3, <3>6, <3>7, <3>9 DEF Rows
    <3>11. Held(x)'
      BY <2>2, <3>3, <3>5, <3>6, <3>7, <3>10 DEF Held
    <3> QED
      BY <2>2, <3>3, <3>4, <3>7, <3>8, <3>11, GetsStep
  <2> QED
    BY <1>2, <2>1, <2>2 DEF ClaimLocksTeam
<1> QED
  BY <1>1, <1>2

(* A dispatch locks its candidates one by one. *)
LEMMA DispatchLocksKeep ==
    ASSUME LocksInv, NEW x \in Txs, DispatchLocksTeam(x)
    PROVE  LocksInv'
<1> DEFINE t == InHand(x)
<1>0. /\ TypeOK /\ Operands(x) /\ tx[x] \in Tx
      /\ tx[x].op = "dispatch" /\ tx[x].sos \in Sos
      /\ Gets(x, "lockTeam") /\ tx[x].at = "lockTeam"
      /\ UNCHANGED <<sos, team, outcome>>
  BY DEF LocksInv, TypeOK, DispatchLocksTeam, Gets, Operands
<1>1. t \in Teams /\ tx[x].teams # << >> /\ Wanted(x) = t /\ Wanted(x) \in Rows
  BY <1>0, WantedTyped
<1>2. lock'[t] = x
  BY <1>0, <1>1, GetsLock
<1>3. CASE team[t].status \in Free
  <2> DEFINE c == [tx[x] EXCEPT !.at = "writeSos", !.copy = team[t]]
  <2>1. team[t] \in TeamRow
    BY <1>0, <1>1 DEF TypeOK
  <2>2. c \in Tx /\ c.op = "dispatch" /\ c.at = "writeSos" /\ c.copy = team[t]
        /\ c.sos = tx[x].sos /\ c.teams = tx[x].teams
    BY <1>0, <2>1 DEF Tx, Places
  <2>3. Becomes(x, c)
    BY <1>3 DEF DispatchLocksTeam, At
  <2> HIDE DEF c
  <2>4. tx'[x] = c /\ InHand(x)' = t
    BY <1>0, <2>2, <2>3 DEF Becomes, TypeOK, InHand
  <2>5. Operands(x)'
    BY <1>0, <2>2, <2>4 DEF Operands
  <2>6. Held(x)'
    BY <1>0, <1>2, <1>3, <2>2, <2>4 DEF Held
  <2> QED
    BY <1>0, <2>2, <2>3, <2>5, <2>6, GetsStep
<1>4. CASE ~(team[t].status \in Free)
  <2> DEFINE at == IF Len(tx[x].teams) > 1 THEN "lockTeam" ELSE "writeSos"
             c == [tx[x] EXCEPT !.at = at, !.teams = Tail(tx[x].teams)]
  <2>1. /\ Tail(tx[x].teams) \in Seq(Teams)
        /\ at = "lockTeam" => Tail(tx[x].teams) # << >>
        /\ at = "writeSos" => Tail(tx[x].teams) = << >>
    BY <1>0, <1>1, TailTyped DEF Tx
  <2>2. at \in {"lockTeam", "writeSos"}
    OBVIOUS
  <2>3. Becomes(x, c)
    BY <1>4 DEF DispatchLocksTeam, At
  <2> HIDE DEF at
  <2>4. c \in Tx /\ c.op = "dispatch" /\ c.at = at
        /\ c.sos = tx[x].sos /\ c.teams = Tail(tx[x].teams)
    BY <1>0, <2>1, <2>2 DEF Tx, Places
  <2> HIDE DEF c
  <2>5. tx'[x] = c
    BY <1>0, <2>3 DEF Becomes, TypeOK
  <2>6. Operands(x)'
    BY <1>0, <2>1, <2>2, <2>4, <2>5 DEF Operands
  <2>7. Held(x)'
    BY <1>0, <2>1, <2>2, <2>4, <2>5 DEF Held
  <2> QED
    BY <1>0, <2>3, <2>4, <2>6, <2>7, GetsStep
<1> QED
  BY <1>3, <1>4

(* A manual dispatch locks the new team, then the old one. *)
LEMMA ManualLocksKeep ==
    ASSUME LocksInv, NEW x \in Txs, ManualLocksTeam(x) \/ ManualLocksOld(x)
    PROVE  LocksInv'
<1> DEFINE t == InHand(x)
<1>0. /\ TypeOK /\ Operands(x) /\ Held(x) /\ tx[x] \in Tx
      /\ tx[x].op = "manual" /\ tx[x].sos \in Sos /\ tx[x].cur = tx[x].sos
      /\ tx[x].teams # << >> /\ t \in Teams
      /\ UNCHANGED <<sos, team, outcome>>
  BY InHandTyped DEF LocksInv, TypeOK, ManualLocksTeam, ManualLocksOld, Gets, Operands
<1>1. CASE ManualLocksTeam(x)
  <2> DEFINE at == IF MovesTeam(x) THEN "lockOld" ELSE "writeSos"
             c == [tx[x] EXCEPT !.at = at, !.copy = team[t]]
  <2>1. Gets(x, "lockTeam") /\ tx[x].at = "lockTeam"
    BY <1>1 DEF ManualLocksTeam, Gets
  <2>2. lock'[t] = x
    BY <1>0, <2>1, GetsLock, WantedTyped
  <2>3. team[t] \in TeamRow
    BY <1>0 DEF TypeOK
  <2>4. at \in {"lockOld", "writeSos"} /\ (MovesTeam(x) <=> at = "lockOld")
    OBVIOUS
  <2>5. Becomes(x, c)
    BY <1>1 DEF ManualLocksTeam, At
  <2> HIDE DEF at
  <2>6. c \in Tx /\ c.op = "manual" /\ c.at = at /\ c.copy = team[t] /\ c.row = tx[x].row
        /\ c.sos = tx[x].sos /\ c.cur = tx[x].cur /\ c.teams = tx[x].teams
    BY <1>0, <2>3, <2>4 DEF Tx, Places
  <2> HIDE DEF c
  <2>7. tx'[x] = c /\ InHand(x)' = t /\ Old(x)' = Old(x) /\ (MovesTeam(x)' <=> MovesTeam(x))
    BY <1>0, <2>5, <2>6 DEF Becomes, TypeOK, InHand, Old, MovesTeam
  <2>8. Operands(x)'
    BY <1>0, <2>4, <2>6, <2>7 DEF Operands
  <2>9. Held(x)'
    BY <1>0, <2>2, <2>4, <2>6, <2>7 DEF Held
  <2> QED
    BY <1>0, <2>1, <2>5, <2>6, <2>8, <2>9, GetsStep
<1>2. CASE ManualLocksOld(x)
  <2> DEFINE n == ActiveOthers(sos, Old(x), tx[x].cur)
             c == [tx[x] EXCEPT !.at = "writeSos", !.n = n]
  <2>1. Gets(x, "lockOld") /\ tx[x].at = "lockOld"
    BY <1>2 DEF ManualLocksOld, Gets
  <2>2. /\ lock'[Old(x)] = x
        /\ lock[t] = x /\ tx[x].copy = team[t]
        /\ \A r \in Rows : lock[r] = x => lock'[r] = x
    BY <1>0, <2>1, GetsLock, WantedTyped DEF Held
  <2>3. lock'[t] = x
    BY <1>0, <2>2 DEF Rows
  <2>4. n \in 0..Cardinality(Sos)
    BY CountTyped
  <2>5. Becomes(x, c)
    BY <1>2 DEF ManualLocksOld, At
  <2> HIDE DEF n
  <2>6. c \in Tx /\ c.op = "manual" /\ c.at = "writeSos" /\ c.copy = tx[x].copy
        /\ c.row = tx[x].row
        /\ c.sos = tx[x].sos /\ c.cur = tx[x].cur /\ c.teams = tx[x].teams
    BY <1>0, <2>4 DEF Tx, Places
  <2> HIDE DEF c
  <2>7. tx'[x] = c /\ InHand(x)' = t /\ Old(x)' = Old(x)
    BY <1>0, <2>5, <2>6 DEF Becomes, TypeOK, InHand, Old
  <2>8. Operands(x)'
    BY <1>0, <2>6, <2>7 DEF Operands
  <2>9. Held(x)'
    BY <1>0, <2>2, <2>3, <2>6, <2>7 DEF Held
  <2> QED
    BY <1>0, <2>1, <2>5, <2>6, <2>8, <2>9, GetsStep
<1> QED
  BY <1>1, <1>2

(* A release locks its team and finds the next request. *)
LEMMA ReleaseLocksKeep ==
    ASSUME LocksInv, NEW x \in Txs, ReleaseLocksTeam(x)
    PROVE  LocksInv'
<1> DEFINE t == InHand(x)
<1>0. /\ TypeOK /\ Operands(x) /\ tx[x] \in Tx
      /\ tx[x].op = "release" /\ Gets(x, "lockTeam") /\ tx[x].at = "lockTeam"
      /\ tx[x].sos = NoSos /\ tx[x].teams # << >> /\ t \in Teams
      /\ UNCHANGED <<sos, team, outcome>>
  BY InHandTyped DEF LocksInv, TypeOK, ReleaseLocksTeam, Gets, Operands
<1>1. lock'[t] = x
  BY <1>0, GetsLock, WantedTyped
<1>2. ASSUME NEW next \in Sos,
             Becomes(x, [At(x, "writeSos") EXCEPT !.sos = next])
      PROVE  LocksInv'
  <2> DEFINE c == [tx[x] EXCEPT !.at = "writeSos", !.sos = next]
  <2>1. Becomes(x, c)
    BY <1>2 DEF At
  <2>2. c \in Tx /\ c.op = "release" /\ c.at = "writeSos" /\ c.sos = next
        /\ c.teams = tx[x].teams
    BY <1>0 DEF Tx, Places
  <2> HIDE DEF c
  <2>3. tx'[x] = c /\ InHand(x)' = t
    BY <1>0, <2>1, <2>2 DEF Becomes, TypeOK, InHand
  <2>4. Operands(x)'
    BY <1>0, <2>2, <2>3 DEF Operands
  <2>5. Held(x)'
    BY <1>1, <2>2, <2>3 DEF Held
  <2> QED
    BY <1>0, <2>1, <2>2, <2>4, <2>5, GetsStep
<1>3. ASSUME Becomes(x, [At(x, "commit") EXCEPT !.n = ActiveOthers(sos, t, tx[x].cur)])
      PROVE  LocksInv'
  <2> DEFINE n == ActiveOthers(sos, t, tx[x].cur)
             c == [tx[x] EXCEPT !.at = "commit", !.n = n]
  <2>1. Becomes(x, c)
    BY <1>3 DEF At
  <2>2. n \in 0..Cardinality(Sos)
    BY CountTyped
  <2> HIDE DEF n
  <2>3. c \in Tx /\ c.op = "release" /\ c.at = "commit" /\ c.sos = tx[x].sos
        /\ c.teams = tx[x].teams
    BY <1>0, <2>2 DEF Tx, Places
  <2> HIDE DEF c
  <2>4. tx'[x] = c /\ InHand(x)' = t
    BY <1>0, <2>1, <2>3 DEF Becomes, TypeOK, InHand
  <2>5. Operands(x)'
    BY <1>0, <2>3, <2>4 DEF Operands
  <2>6. ~(c.sos \in Sos)
    BY <1>0, <2>3, RowsAssumption
  <2>7. Held(x)'
    BY <1>1, <2>3, <2>4, <2>6 DEF Held
  <2> QED
    BY <1>0, <2>1, <2>3, <2>5, <2>7, GetsStep
<1> QED
  BY <1>2, <1>3 DEF ReleaseLocksTeam

(* The UPDATE of a request locks it. *)
LEMMA WriteKeeps ==
    ASSUME LocksInv, NEW x \in Txs, WriteSos(x)
    PROVE  LocksInv'
<1> DEFINE t == InHand(x)
           n == ActiveOthers(Assigned(sos, tx[x].sos, t), t, tx[x].cur)
           c == IF tx[x].op = "release" THEN [tx[x] EXCEPT !.at = "commit", !.n = n]
                                        ELSE [tx[x] EXCEPT !.at = "commit"]
<1>1. /\ TypeOK /\ Operands(x) /\ Held(x) /\ tx[x] \in Tx
      /\ tx[x].sos \in Sos
      /\ Gets(x, "writeSos") /\ tx[x].at = "writeSos"
      /\ UNCHANGED <<sos, team, outcome>>
  BY DEF LocksInv, TypeOK, WriteSos, Gets, Operands
<1>2. lock'[tx[x].sos] = x /\ \A r \in Rows : lock[r] = x => lock'[r] = x
  BY <1>1, GetsLock, WantedTyped
<1>3. tx[x].teams # << >> => t \in Teams
  BY <1>1, InHandTyped
<1>4. Becomes(x, c)
  BY DEF WriteSos, At
<1>5. n \in 0..Cardinality(Sos)
  BY CountTyped
<1> HIDE DEF n
<1>6. c \in Tx /\ c.op = tx[x].op /\ c.at = "commit" /\ c.copy = tx[x].copy
      /\ c.row = tx[x].row
      /\ c.sos = tx[x].sos /\ c.cur = tx[x].cur /\ c.teams = tx[x].teams
  BY <1>1, <1>5 DEF Tx, Places
<1> HIDE DEF c
<1>7. tx'[x] = c /\ InHand(x)' = t /\ Old(x)' = Old(x) /\ (MovesTeam(x)' <=> MovesTeam(x))
  BY <1>1, <1>4, <1>6 DEF Becomes, TypeOK, InHand, Old, MovesTeam
<1>8. Operands(x)'
  BY <1>1, <1>6, <1>7 DEF Operands
<1>9. Held(x)'
  <2>1. tx[x].op \in {"dispatch", "manual", "release"}
    BY <1>1 DEF Operands
  <2>2. tx[x].op \in {"dispatch", "manual"} /\ tx[x].teams # << >>
           => lock'[t] = x /\ tx[x].copy = team[t]
              /\ (tx[x].op # "manual" => tx[x].copy.status \in Free)
    BY <1>1, <1>2, <1>3 DEF Held, Rows
  <2>3. tx[x].op = "manual" /\ MovesTeam(x) => lock'[Old(x)] = x
    BY <1>1, <1>2 DEF Held, Rows, MovesTeam
  <2>4. tx[x].op = "release" => lock'[t] = x
    BY <1>1, <1>2, <1>3 DEF Held, Operands, Rows
  <2> QED
    BY <1>1, <1>2, <1>6, <1>7, <2>1, <2>2, <2>3, <2>4 DEF Held
<1> QED
  BY <1>1, <1>4, <1>6, <1>8, <1>9, GetsStep

(* A plain save locks the row it writes. *)
LEMMA SaveLocksKeep ==
    ASSUME LocksInv, NEW x \in Txs, SaveLocksSos(x) \/ SaveLocksTeam(x)
    PROVE  LocksInv'
<1>0. TypeOK /\ Operands(x) /\ Held(x) /\ tx[x] \in Tx /\ UNCHANGED <<sos, team, outcome>>
  BY DEF LocksInv, TypeOK, SaveLocksSos, SaveLocksTeam
<1>1. CASE SaveLocksSos(x)
  <2>1. tx[x].op = "saveSos" /\ Gets(x, "lockSos") /\ tx[x].at = "lockSos"
    BY <1>1 DEF SaveLocksSos, Gets
  <2>2. tx[x].sos \in Sos /\ lock'[tx[x].sos] = x
    BY <1>0, <2>1, GetsLock, WantedTyped
  <2>3. CASE Old(x) \in {NoTeam, sos[tx[x].sos].team}
    <3> DEFINE c == [tx[x] EXCEPT !.at = "commit"]
    <3>1. Becomes(x, c)
      BY <1>1, <2>3 DEF SaveLocksSos, At
    <3>2. c \in Tx /\ c.op = "saveSos" /\ c.at = "commit" /\ c.sos = tx[x].sos
      BY <1>0, <2>1 DEF Tx, Places
    <3> HIDE DEF c
    <3>3. tx'[x] = c
      BY <1>0, <3>1 DEF Becomes, TypeOK
    <3>4. Operands(x)' /\ Held(x)'
      BY <2>2, <3>2, <3>3 DEF Operands, Held
    <3> QED
      BY <1>0, <2>1, <3>1, <3>2, <3>4, GetsStep
  <2>4. CASE ~(Old(x) \in {NoTeam, sos[tx[x].sos].team})
    <3> DEFINE old == Old(x)
               c == [tx[x] EXCEPT !.at = "lockTeam", !.teams = <<old>>]
    <3>1. Becomes(x, c)
      BY <1>1, <2>4 DEF SaveLocksSos, At
    <3>2. old \in Teams
      BY <1>0, <2>4 DEF Old, Tx, SosRow
    <3>3. <<old>> \in Seq(Teams) /\ <<old>> # << >>
      BY <3>2, OneTeam
    <3> HIDE DEF old
    <3>4. c \in Tx /\ c.op = "saveSos" /\ c.at = "lockTeam" /\ c.sos = tx[x].sos
          /\ c.teams = <<old>>
      BY <1>0, <2>1, <3>3 DEF Tx, Places
    <3> HIDE DEF c
    <3>5. tx'[x] = c
      BY <1>0, <3>1 DEF Becomes, TypeOK
    <3>6. Operands(x)' /\ Held(x)'
      BY <2>2, <3>3, <3>4, <3>5 DEF Operands, Held
    <3> QED
      BY <1>0, <2>1, <3>1, <3>4, <3>6, GetsStep
  <2> QED
    BY <2>3, <2>4
<1>2. CASE SaveLocksTeam(x)
  <2> DEFINE t == InHand(x)
             c == [tx[x] EXCEPT !.at = "commit"]
  <2>1. tx[x].op \in {"saveSos", "saveTeam"} /\ Gets(x, "lockTeam") /\ tx[x].at = "lockTeam"
    BY <1>2 DEF SaveLocksTeam, Gets
  <2>2. /\ lock'[t] = x /\ tx[x].teams # << >>
        /\ \A r \in Rows : lock[r] = x => lock'[r] = x
    BY <1>0, <2>1, GetsLock, WantedTyped
  <2>3. tx[x].op = "saveSos" => tx[x].sos \in Sos /\ lock'[tx[x].sos] = x
    BY <1>0, <2>1, <2>2 DEF Operands, Held, Rows
  <2>4. Becomes(x, c)
    BY <1>2 DEF SaveLocksTeam, At
  <2>5. c \in Tx /\ c.op = tx[x].op /\ c.at = "commit" /\ c.sos = tx[x].sos
        /\ c.teams = tx[x].teams
    BY <1>0 DEF Tx, Places
  <2> HIDE DEF c
  <2>6. tx'[x] = c /\ InHand(x)' = t
    BY <1>0, <2>4, <2>5 DEF Becomes, TypeOK, InHand
  <2>7. Operands(x)'
    BY <1>0, <2>1, <2>2, <2>3, <2>5, <2>6 DEF Operands
  <2>8. Held(x)'
    BY <2>1, <2>2, <2>3, <2>5, <2>6 DEF Held
  <2> QED
    BY <1>0, <2>1, <2>4, <2>5, <2>7, <2>8, GetsStep
<1> QED
  BY <1>1, <1>2

-----------------------------------------------------------------------------
(* Commits.                                                                *)

(* The team as it is given the case is the committed team with one case more. *)
LEMMA GivenTakesCase ==
    ASSUME LocksInv, NEW x \in Txs, tx[x].at = "commit",
           tx[x].op \in {"claim", "dispatch", "manual"}, tx[x].teams # << >>
    PROVE  /\ InHand(x) \in Teams /\ lock[InHand(x)] = x
           /\ Given(x) = TakesCase(team, InHand(x))
           /\ tx[x].op # "manual" => team[InHand(x)].status \in Free
<1>1. TypeOK /\ Held(x)
  BY DEF LocksInv
<1>2. InHand(x) \in Teams
  BY <1>1, InHandTyped
<1>3. /\ lock[InHand(x)] = x
      /\ tx[x].copy = team[InHand(x)]
      /\ tx[x].op # "manual" => tx[x].copy.status \in Free
  BY <1>1 DEF Held
<1> QED
  BY <1>2, <1>3 DEF Given, TakesCase

(* A commit writes rows of the tables, and only rows that x has locked. *)
LEMMA CommitWrites ==
    ASSUME LocksInv, NEW x \in Txs, Commit(x)
    PROVE  /\ sos' \in [Sos -> SosRow] /\ team' \in [Teams -> TeamRow]
           /\ outcome' \in A!Outcome
           /\ \A s \in Sos : lock[s] = x \/ sos'[s] = sos[s]
           /\ \A t \in Teams : lock[t] = x \/ team'[t] = team[t]
<1> DEFINE t == InHand(x)
           s0 == tx[x].sos
<1>0. /\ TypeOK /\ Operands(x) /\ Held(x) /\ tx[x] \in Tx /\ tx[x].at = "commit"
      /\ sos \in [Sos -> SosRow] /\ team \in [Teams -> TeamRow]
  BY DEF LocksInv, TypeOK, Commit
<1>1. tx[x].teams # << >> => t \in Teams
  BY <1>0, InHandTyped
<1>2. ASSUME tx[x].op \in {"claim", "dispatch", "manual", "release"}, s0 \in Sos,
             tx[x].op = "claim" => lock[s0] = x,
             t \in Teams, sos' = Assigned(sos, s0, t)
      PROVE  sos' \in [Sos -> SosRow] /\ \A s \in Sos : lock[s] = x \/ sos'[s] = sos[s]
  <2>1. lock[s0] = x
    BY <1>0, <1>2 DEF Held
  <2> QED
    BY <1>0, <1>2, <2>1, AssignedTyped DEF Assigned
<1>3. ASSUME NEW row \in TeamRow, t \in Teams, lock[t] = x, team' = [team EXCEPT ![t] = row]
      PROVE  team' \in [Teams -> TeamRow] /\ \A u \in Teams : lock[u] = x \/ team'[u] = team[u]
  BY <1>0, <1>3
<1>4. tx[x].n \in 0..Cardinality(Sos) /\ Cardinality(Sos) \in Nat
  BY <1>0, RowsAssumption, FS_CardinalityType DEF Tx
<1>5. tx[x].n \in Nat
  BY <1>4
<1>6. ASSUME t \in Teams, lock[t] = x, team' = TakesCase(team, t)
      PROVE  team' \in [Teams -> TeamRow] /\ \A u \in Teams : lock[u] = x \/ team'[u] = team[u]
  BY <1>0, <1>6, TakesCaseTyped DEF TakesCase
<1>7. CASE CommitClaim(x)
  <2>1. tx[x].op = "claim" /\ tx[x].teams # << >> /\ s0 \in Sos /\ lock[s0] = x
    BY <1>0, <1>7 DEF CommitClaim, Operands, Held
  <2> QED
    BY <1>0, <1>1, <1>2, <1>6, <1>7, <2>1, GivenTakesCase
       DEF CommitClaim, A!Did, A!Outcome
<1>8. CASE CommitDispatch(x)
  <2>1. tx[x].op = "dispatch" /\ tx[x].teams # << >> /\ s0 \in Sos
    BY <1>0, <1>8 DEF CommitDispatch, Operands
  <2> QED
    BY <1>0, <1>1, <1>2, <1>6, <1>8, <2>1, GivenTakesCase
       DEF CommitDispatch, A!Did, A!Outcome
<1>9. CASE CommitQueue(x)
  <2>1. tx[x].op = "dispatch" /\ s0 \in Sos
    BY <1>0, <1>9 DEF CommitQueue, Operands
  <2>2. lock[s0] = x
    BY <1>0, <2>1 DEF Held
  <2>3. sos' = [sos EXCEPT ![s0].status = "PENDING"] /\ UNCHANGED team
    BY <1>9 DEF CommitQueue
  <2>4. sos' \in [Sos -> SosRow]
    BY <1>0, <2>1, <2>3 DEF SosRow, SosStatus
  <2>5. outcome' \in A!Outcome
    BY <1>9, <2>1 DEF CommitQueue, A!Did, A!Outcome
  <2> QED
    BY <1>0, <2>2, <2>3, <2>4, <2>5
<1>10. CASE CommitManual(x)
  <2>1. tx[x].op = "manual" /\ tx[x].teams # << >> /\ s0 \in Sos
    BY <1>0, <1>10 DEF CommitManual, Operands
  <2>2. t \in Teams /\ lock[t] = x /\ Given(x) = TakesCase(team, t)
    BY <1>0, <2>1, GivenTakesCase
  <2>3. outcome' \in A!Outcome
    BY <1>10, <2>1, <2>2 DEF CommitManual, A!Did, A!Outcome
  <2>4. sos' \in [Sos -> SosRow] /\ \A s \in Sos : lock[s] = x \/ sos'[s] = sos[s]
    BY <1>2, <1>10, <2>1, <2>2 DEF CommitManual
  <2>5. CASE MovesTeam(x)
    <3>1. Old(x) \in Teams /\ lock[Old(x)] = x
      BY <1>0, <2>1, <2>5 DEF Held, MovesTeam
    <3>2. team' = [TakesCase(team, t) EXCEPT ![Old(x)] = Recounted(tx[x].n)]
      BY <1>10, <2>2, <2>5 DEF CommitManual
    <3>3. TakesCase(team, t) \in [Teams -> TeamRow] /\ Recounted(tx[x].n) \in TeamRow
      BY <1>0, <1>5, <2>2, TakesCaseTyped, RecountedTyped
    <3>4. \A u \in Teams : lock[u] = x \/ TakesCase(team, t)[u] = team[u]
      BY <1>0, <2>2 DEF TakesCase
    <3>5. team' \in [Teams -> TeamRow] /\ \A u \in Teams : lock[u] = x \/ team'[u] = team[u]
      BY <3>1, <3>2, <3>3, <3>4
    <3> QED
      BY <2>3, <2>4, <3>5
  <2>6. CASE ~MovesTeam(x)
    BY <1>6, <1>10, <2>2, <2>3, <2>4, <2>6 DEF CommitManual
  <2> QED
    BY <2>5, <2>6
<1>11. CASE CommitHandoff(x)
  <2>1. tx[x].op = "release" /\ tx[x].teams # << >> /\ s0 \in Sos
    BY <1>0, <1>11 DEF CommitHandoff, Operands, Tx
  <2>2. t \in Teams /\ lock[t] = x
    BY <1>0, <1>1, <2>1 DEF Held
  <2> DEFINE row == [status |-> "DISPATCHED", cases |-> tx[x].n + 1]
  <2>3. row \in TeamRow
    BY <1>5 DEF TeamRow, TeamStatus
  <2>4. team' = [team EXCEPT ![t] = row]
    BY <1>11 DEF CommitHandoff
  <2> HIDE DEF row
  <2>5. outcome' \in A!Outcome
    BY <1>11, <2>1, <2>2 DEF CommitHandoff, A!Did, A!Outcome
  <2> QED
    BY <1>2, <1>3, <1>11, <2>1, <2>2, <2>3, <2>4, <2>5 DEF CommitHandoff
<1>12. CASE CommitRelease(x)
  <2>1. tx[x].op = "release" /\ tx[x].teams # << >>
    BY <1>0, <1>12 DEF CommitRelease, Operands
  <2>2. t \in Teams /\ lock[t] = x
    BY <1>0, <1>1, <2>1 DEF Held
  <2>3. outcome' \in A!Outcome
    BY <1>12, <2>2 DEF CommitRelease, A!Did, A!Outcome
  <2>4. Recounted(tx[x].n) \in TeamRow
    BY <1>5, RecountedTyped
  <2> QED
    BY <1>0, <1>3, <1>12, <2>2, <2>3, <2>4 DEF CommitRelease
<1>13. CASE CommitSaveSos(x)
  <2>1. tx[x].op = "saveSos" /\ s0 \in Sos
    BY <1>0, <1>13 DEF CommitSaveSos, Operands
  <2>2. lock[s0] = x
    BY <1>0, <2>1 DEF Held
  <2>3. outcome' \in A!Outcome
    BY <1>13, <2>1 DEF CommitSaveSos, A!Did, A!Outcome
  <2>4. sos' = [sos EXCEPT ![s0] = tx[x].row] /\ UNCHANGED team /\ tx[x].row \in SosRow
    BY <1>0, <1>13 DEF CommitSaveSos, Tx
  <2> QED
    BY <1>0, <2>2, <2>3, <2>4
<1>14. CASE CommitSaveTeam(x)
  <2>1. tx[x].op = "saveTeam" /\ tx[x].teams # << >>
    BY <1>0, <1>14 DEF CommitSaveTeam, Operands
  <2>2. t \in Teams /\ lock[t] = x
    BY <1>0, <1>1, <2>1 DEF Held
  <2>3. outcome' \in A!Outcome
    BY <1>14, <2>2 DEF CommitSaveTeam, A!Did, A!Outcome
  <2>4. tx[x].copy \in TeamRow
    BY <1>0 DEF Tx
  <2> QED
    BY <1>0, <1>3, <1>14, <2>2, <2>3, <2>4 DEF CommitSaveTeam
<1> QED
  BY <1>7, <1>8, <1>9, <1>10, <1>11, <1>12, <1>13, <1>14 DEF Commit

-----------------------------------------------------------------------------
(* The invariant holds in every state.                                     *)

(* Every step keeps the locks and copies right. *)
LEMMA LocksStep == LocksInv /\ [Next]_vars => LocksInv'
<1> SUFFICES ASSUME LocksInv, [Next]_vars PROVE LocksInv'
  OBVIOUS
<1>1. ASSUME NEW x \in Txs, Begin(x) PROVE LocksInv'
  BY <1>1, BeginKeeps
<1>2. ASSUME NEW x \in Txs, Commit(x) PROVE LocksInv'
  <2>1. tx[x].at # "new" /\ Ends(x)
    BY <1>2 DEF Commit
  <2> QED
    BY <1>2, <2>1, CommitWrites, EndStep
<1>3. ASSUME NEW x \in Txs, Proceeds(x) PROVE LocksInv'
  BY <1>2, <1>3, ClaimLocksKeep, DispatchLocksKeep, ManualLocksKeep, ReleaseLocksKeep,
     WriteKeeps, SaveLocksKeep DEF Proceeds
<1>4. ASSUME NEW x \in Txs, Fails(x) PROVE LocksInv'
  BY <1>4, EmptyEnd DEF Fails
<1>5. ASSUME NEW x \in Txs, Victim(x) PROVE LocksInv'
  <2>1. tx[x].at # "new"
    BY <1>5 DEF Victim, Deadlocked, Blocking
  <2> QED
    BY <1>5, <2>1, EmptyEnd DEF Victim
<1>6. ASSUME UNCHANGED vars PROVE LocksInv'
  BY <1>6 DEF vars, LocksInv, TypeOK, Operands, Held, MovesTeam, Old, InHand
<1> QED
  BY <1>1, <1>3, <1>4, <1>5, <1>6 DEF Next

(* Locks and copies are right in every behaviour. *)
LEMMA LocksAlways == Spec => []LocksInv
BY LocksInit, LocksStep, PTL DEF Spec

(* At every moment requests, teams, transactions and locks are rows and records of *)
(* the shapes the handlers read and write: the transaction body of each service.   *)
THEOREM LocksTypeCorrect == Spec => []TypeOK
<1>1. LocksInv => TypeOK
  BY DEF LocksInv
<1> QED
  BY <1>1, LocksAlways, PTL

(* A transaction past its FOR UPDATE never writes a team from a row that is out of *)
(* date, however many claims, dispatches, releases and plain saves run meanwhile.  *)
THEOREM CopiesStayCurrent == Spec => []CopiesCurrent
<1>1. LocksInv => CopiesCurrent
  BY DEF LocksInv, Held, CopiesCurrent
<1> QED
  BY <1>1, LocksAlways, PTL

-----------------------------------------------------------------------------
(* The transactions implement AtomicAssignment.                            *)

(* The rows and the counts of the abstract specification are those of this one. *)
LEMMA SameRows ==
    /\ A!SosRow = SosRow /\ A!TeamRow = TeamRow
    /\ A!Cardinality(Sos) = Cardinality(Sos)
<1>1. A!SosRow = SosRow /\ A!TeamRow = TeamRow
  BY DEF A!SosRow, SosRow, A!SosStatus, SosStatus, A!TeamRow, TeamRow,
     A!TeamStatus, TeamStatus
<1>2. A!Cardinality(Sos) = Cardinality(Sos)
  BY DEF A!Cardinality, Cardinality
<1> QED
  BY <1>1, <1>2

(* Initial states are initial states of the abstract specification. *)
LEMMA InitSimulated == Init => A!Init
BY SameRows, LocksAssumption DEF Init, A!Init

(* Each commit is one step of the abstract specification. *)
LEMMA CommitSimulated ==
    ASSUME LocksInv, NEW x \in Txs, Commit(x)
    PROVE  A!Next
<1> DEFINE t == InHand(x)
           s0 == tx[x].sos
<1>0. /\ TypeOK /\ Operands(x) /\ Held(x) /\ tx[x] \in Tx /\ tx[x].at = "commit"
      /\ sos \in [Sos -> SosRow] /\ team \in [Teams -> TeamRow]
  BY DEF LocksInv, TypeOK, Commit
<1>1. tx[x].teams # << >> => t \in Teams
  BY <1>0, InHandTyped
<1>2. tx[x].n \in 0..Cardinality(Sos)
  BY <1>0 DEF Tx
<1>3. CASE CommitClaim(x)
  <2>1. /\ tx[x].op = "claim" /\ tx[x].teams # << >> /\ s0 \in Sos
        /\ sos[s0].status \in Waiting
    BY <1>0, <1>3 DEF CommitClaim, Operands, Held
  <2>2. t \in Teams /\ team[t].status \in Free /\ Given(x) = TakesCase(team, t)
    BY <1>0, <2>1, GivenTakesCase
  <2>3. A!Claim(s0, t)
    BY <1>3, <2>1, <2>2 DEF CommitClaim, A!Claim, A!IsFree, A!Assigned, Assigned,
       A!TakesCase, TakesCase, A!Waiting, Waiting, A!Free, Free
  <2> QED
    BY <2>1, <2>2, <2>3 DEF A!Next
<1>4. CASE CommitDispatch(x)
  <2>1. tx[x].op = "dispatch" /\ tx[x].teams # << >> /\ s0 \in Sos
    BY <1>0, <1>4 DEF CommitDispatch, Operands
  <2>2. t \in Teams /\ team[t].status \in Free /\ Given(x) = TakesCase(team, t)
    BY <1>0, <2>1, GivenTakesCase
  <2>3. A!Dispatch(s0, t)
    BY <1>4, <2>2 DEF CommitDispatch, A!Dispatch, A!IsFree, A!Assigned, Assigned,
       A!TakesCase, TakesCase, A!Free, Free
  <2> QED
    BY <2>1, <2>2, <2>3 DEF A!Next
<1>5. CASE CommitQueue(x)
  <2>1. s0 \in Sos
    BY <1>0, <1>5 DEF CommitQueue, Operands
  <2>2. A!Queue(s0)
    BY <1>5 DEF CommitQueue, A!Queue
  <2> QED
    BY <2>1, <2>2 DEF A!Next
<1>6. CASE CommitManual(x)
  <2>1. tx[x].op = "manual" /\ tx[x].teams # << >> /\ s0 \in Sos
    BY <1>0, <1>6 DEF CommitManual, Operands
  <2>2. t \in Teams /\ Given(x) = TakesCase(team, t)
    BY <1>0, <2>1, GivenTakesCase
  <2>3. A!TakesCase(team, t) = TakesCase(team, t)
    BY DEF A!TakesCase, TakesCase
  <2>4. \/ team' = A!TakesCase(team, t)
        \/ \E old \in Teams \ {t}, n \in 0..Cardinality(Sos) :
              team' = [A!TakesCase(team, t) EXCEPT ![old] = A!Recounted(n)]
    <3>1. CASE MovesTeam(x)
      <4>1. Old(x) \in Teams \ {t}
        BY <3>1 DEF MovesTeam
      <4>2. Recounted(tx[x].n) = A!Recounted(tx[x].n)
        BY DEF Recounted, A!Recounted
      <4>3. team' = [A!TakesCase(team, t) EXCEPT ![Old(x)] = A!Recounted(tx[x].n)]
        BY <1>6, <2>2, <2>3, <3>1, <4>2 DEF CommitManual
      <4> QED
        BY <1>2, <4>1, <4>3
    <3>2. CASE ~MovesTeam(x)
      BY <1>6, <2>2, <2>3, <3>2 DEF CommitManual
    <3> QED
      BY <3>1, <3>2
  <2>5. A!Manual(s0, t)
    BY <1>6, <2>4, SameRows DEF CommitManual, A!Manual, A!Assigned, Assigned
  <2> QED
    BY <2>1, <2>2, <2>5 DEF A!Next
<1>7. CASE CommitHandoff(x)
  <2>1. s0 \in Sos /\ t \in Teams
    BY <1>0, <1>1, <1>7 DEF CommitHandoff, Operands, Tx
  <2>2. A!Handoff(s0, t)
    BY <1>2, <1>7, SameRows DEF CommitHandoff, A!Handoff, A!Assigned, Assigned
  <2> QED
    BY <2>1, <2>2 DEF A!Next
<1>8. CASE CommitRelease(x)
  <2>1. t \in Teams
    BY <1>0, <1>1, <1>8 DEF CommitRelease, Operands
  <2>2. A!Release(t)
    BY <1>2, <1>8, SameRows DEF CommitRelease, A!Release, A!Recounted, Recounted
  <2> QED
    BY <2>1, <2>2 DEF A!Next
<1>9. CASE CommitSaveSos(x)
  <2>1. s0 \in Sos /\ tx[x].row \in SosRow
    BY <1>0, <1>9 DEF CommitSaveSos, Operands, Tx
  <2>2. A!SaveSos(s0)
    BY <1>9, <2>1, SameRows DEF CommitSaveSos, A!SaveSos
  <2> QED
    BY <2>1, <2>2 DEF A!Next
<1>10. CASE CommitSaveTeam(x)
  <2> DEFINE row == tx[x].copy
  <2>1. t \in Teams /\ row \in TeamRow
    BY <1>0, <1>1, <1>10 DEF CommitSaveTeam, Operands, Tx
  <2>2. team' = [team EXCEPT ![t] = row]
    BY <1>10 DEF CommitSaveTeam
  <2> HIDE DEF row
  <2>3. team'[t] = row
    BY <1>0, <2>1, <2>2
  <2>4. row.status \in TeamStatus /\ row.cases \in Nat
        /\ row = [status |-> row.status, cases |-> row.cases]
    BY <2>1 DEF TeamRow
  <2>5. team' = [team EXCEPT ![t] = [status |-> row.status, cases |-> team'[t].cases]]
    BY <2>2, <2>3, <2>4
  <2>6. A!TeamStatus = TeamStatus
    BY DEF A!TeamStatus, TeamStatus
  <2>7. A!SaveTeam(t)
    BY <1>10, <2>3, <2>4, <2>5, <2>6 DEF CommitSaveTeam, A!SaveTeam
  <2> QED
    BY <2>1, <2>7 DEF A!Next
<1> QED
  BY <1>3, <1>4, <1>5, <1>6, <1>7, <1>8, <1>9, <1>10 DEF Commit

(* A commit is a step, everything else a stutter. *)
LEMMA StepSimulated == LocksInv /\ [Next]_vars => [A!Next]_(A!vars)
<1> SUFFICES ASSUME LocksInv, [Next]_vars PROVE [A!Next]_(A!vars)
  OBVIOUS
<1>1. ASSUME NEW x \in Txs, Begin(x) PROVE UNCHANGED <<sos, team, outcome>>
  BY <1>1 DEF Begin, Starts, BeginClaim, BeginDispatch, BeginManual, BeginRelease,
     BeginSaveSos, BeginSaveTeam
<1>2. ASSUME NEW x \in Txs, Proceeds(x), ~Commit(x) PROVE UNCHANGED <<sos, team, outcome>>
  BY <1>2 DEF Proceeds, ClaimLocksSos, ClaimLocksTeam, DispatchLocksTeam, ManualLocksTeam,
     ManualLocksOld, ReleaseLocksTeam, WriteSos, SaveLocksSos, SaveLocksTeam
<1>3. ASSUME NEW x \in Txs, Fails(x) \/ Victim(x) PROVE UNCHANGED <<sos, team, outcome>>
  BY <1>3 DEF Fails, Victim
<1>4. ASSUME NEW x \in Txs, Commit(x) PROVE A!Next
  BY <1>4, CommitSimulated
<1> QED
  BY <1>1, <1>2, <1>3, <1>4 DEF Next, vars, A!vars

(* Lock by lock, the transactions do what AtomicAssignment says in one step: a claim *)
(* is given only a request that still waits and a team that is free at that moment,  *)
(* and no case a team takes is overwritten by another transaction.                   *)
THEOREM TransactionsAreAtomic == Spec => Atomic
BY InitSimulated, StepSimulated, LocksAlways, PTL DEF Spec, Atomic, A!Spec
=============================================================================
