-------------------------- MODULE MCDispatchLocks --------------------------
(* Finite instances of DispatchLocks.                                      *)
EXTENDS DispatchLocks, TLC

CONSTANTS t1, t2

BothOrders == {<<t1, t2>>, <<t2, t1>>}

WaitsOrHasTeam == {[status |-> "PENDING", team |-> NoTeam],
                   [status |-> "DISPATCHED", team |-> t1]}
Waits == {[status |-> "PENDING", team |-> NoTeam]}
FreeOrNot == {[status |-> "STANDBY", cases |-> 0], [status |-> "DISPATCHED", cases |-> 1]}
FreeTeam == {[status |-> "STANDBY", cases |-> 0]}

TxSymmetry == Permutations(Txs)
=============================================================================
