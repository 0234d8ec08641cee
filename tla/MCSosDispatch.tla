--------------------------- MODULE MCSosDispatch ---------------------------
(* Finite instances of SosDispatch.                                        *)
EXTENDS SosDispatch

CONSTANTS s1, s2, t1, t2

\* Every team is in reach of every request.
ReachAll == [s \in Sos |-> Teams]

\* s1 is CRITICAL, any other request MEDIUM.
Weights == [s \in Sos |-> IF s = s1 THEN 100 ELSE 20]

\* t2 is the specialist team, t1 fits half.
Mismatches == [s \in Sos |-> [t \in Teams |-> IF t = t2 THEN 0 ELSE 5]]

CriticalOnly == {s1}
OffDutyAndBack == {"OFF_DUTY", "AVAILABLE"}
AnyStatus == SosStatus
=============================================================================
