----------------------------- MODULE MCReports ------------------------------
(* Two requests for one team, and one answer of the dashboard; or one life *)
(* of a request. Neither touches the other, so they are not interleaved.   *)
EXTENDS Reports, Timeline

CONSTANTS s1, s2, t1, t2, t3

MCReach == [s \in Sos |-> Teams]
MCWeight == [s \in Sos |-> IF s = s1 THEN 100 ELSE 20]
MCMismatch == [s \in Sos |-> [t \in Teams |-> 5]]
MCNeedsEquipment == {}
MCEdits == {}
MCShown == {s1}
MCDated == {s1, s2}

MCInit == RInit /\ Unborn
MCNext == \/ Unborn /\ RNext /\ UNCHANGED life
          \/ RInit /\ OperationDone /\ UNCHANGED allVars
MCSpec == MCInit /\ [][MCNext]_<<allVars, life>>
=============================================================================
