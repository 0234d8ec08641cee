------------------------------ MODULE MCAccess ------------------------------
(* The matrix gained two permissions, of one role and of two; a role AUDITOR *)
(* was made before those of the seeder, and one more can be made.            *)
EXTENDS Access, TLC

CONSTANTS r1, r2, c1, c2

MCNew == << <<"disaster", "create">>, <<"user", "manage">> >>

\* The rows are one off the ids the matrix is written with.
MCSeededAs ==
    [n \in ToSet(SystemRoles) |-> 1 + CHOOSE i \in DOMAIN SystemRoles : SystemRoles[i] = n]
MCMade == 1 :> "AUDITOR"
MCRoleIds == 1..7
MCEditedIds == {1, 3}

MCNames == {"PROVINCE_ADMIN", "AUDITOR"}

Alike == Permutations(Runs) \cup Permutations(RoleCalls)
=============================================================================
