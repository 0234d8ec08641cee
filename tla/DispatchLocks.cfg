SPECIFICATION FairSpec
CONSTANTS
    t1 = t1  t2 = t2
    Sos = {s1}
    Teams = {t1, t2}
    NoSos = NoSos
    NoTeam = NoTeam
    Txs = {x1, x2, x3}
    NoTx = NoTx
    Rankings <- BothOrders
    NewStatuses = {"CANCELLED"}
    EditStatuses = {"BUSY"}
    InitSos <- Waits
    InitTeam <- FreeTeam
INVARIANTS CopiesCurrent
PROPERTIES Atomic EveryTransactionEnds
CHECK_DEADLOCK FALSE
