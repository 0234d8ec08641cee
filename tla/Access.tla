------------------------------- MODULE Access -------------------------------
(* Who reaches which endpoint: the tables role, permission and             *)
(* role_permission, the script that brings them up to the matrix, the      *)
(* operations of the role service, and the guards that read them.          *)
(*                                                                         *)
(* The matrix has gained the permissions New since the script last ran;    *)
(* the others are in the tables already, for the roles the seeder made.    *)
(* Runs of the script overlap each other and the edits of roles, statement *)
(* by statement: nothing here is a transaction of more than one.           *)
EXTENDS Endpoints, FiniteSets

CONSTANTS New,          \* the permissions not in the tables yet, in the matrix's order
          SeededAs,     \* the row each role of the seeder has in the table role
          Made,         \* a row an administrator made, beside those: id -> name
          RoleIds,      \* the ids of roles, these and those to come
          EditedIds,    \* bound: the ids calls ask to change or delete
          Runs,         \* the runs of the script
          RoleCalls,        \* the slots for calls of the role service
          MaxRoleCalls,     \* bound: calls in all
          RoleNames         \* names a call gives a role

ASSUME AccessAssumption ==
    /\ New \in Seq(Permissions)
    /\ DOMAIN SeededAs = ToSet(SystemRoles)
    /\ \A n \in DOMAIN SeededAs : SeededAs[n] \in RoleIds
    /\ DOMAIN Made \subseteq RoleIds

VARIABLES roleRow,          \* id -> row, or NoRole
          permission,       \* the rows of New's permissions
          rolePermission,   \* their grants: pairs of a role's id and a permission's
          sync,             \* run -> its locals
          roleCall,         \* slot -> locals of the call in it
          roleCalls         \* how many calls were made

accessVars == <<roleRow, permission, rolePermission, sync, roleCall, roleCalls>>

NoRole == [name |-> "none", isSystem |-> FALSE]
RoleNamed(name, system) == [name |-> name, isSystem |-> system]
RoleExists(id) == roleRow[id] # NoRole
RolesNamed(n) == {id \in RoleIds : RoleExists(id) /\ roleRow[id].name = n}

\* The grants of the last run of the script.
Granted == [id \in RoleIds |->
    UNION {Matrix[n] \ ToSet(New) : n \in {m \in DOMAIN SeededAs : SeededAs[m] = id}}]

\* allowedRoleIds of an entry, which are in ascending order.
flattenPermissions ==
    [p \in Permissions |-> {i \in DOMAIN SystemRoles : p \in Matrix[SystemRoles[i]]}]

NoCall == [pc |-> "idle"]

\* A run that has not begun. steady is no local of the script: the seeded roles whose
\* names their rows, and no other, had when the run began and have had since.
Unstarted == [pc |-> "none", entry |-> 1, perm |-> 0, who |-> 0, id |-> 0, steady |-> {}]

AccessInit ==
    /\ roleRow = [id \in RoleIds |->
                    IF \E n \in DOMAIN SeededAs : SeededAs[n] = id
                    THEN RoleNamed(CHOOSE n \in DOMAIN SeededAs : SeededAs[n] = id, TRUE)
                    ELSE IF id \in DOMAIN Made THEN RoleNamed(Made[id], FALSE) ELSE NoRole]
    /\ permission = {} /\ rolePermission = {}
    /\ sync = [r \in Runs |-> Unstarted]
    /\ roleCall = [c \in RoleCalls |-> NoCall] /\ roleCalls = 0

-----------------------------------------------------------------------------
(* scripts/sync-permissions.ts                                             *)

Running(r) == sync[r].pc \notin {"none", "done", "failed"}
At(r, pc) == sync[r].pc = pc
RunGoes(r, pc) == sync' = [sync EXCEPT ![r].pc = pc]
Entry(r) == New[sync[r].entry]
Allowed(r) == flattenPermissions[Entry(r)]

\* On to the first role id of the entry above a given one, with the permission's row.
ToRole(r, above, perm) ==
    \E i \in Allowed(r) :
        /\ i > above /\ \A j \in Allowed(r) : j > above => i <= j
        /\ sync' = [sync EXCEPT ![r].pc = "role", ![r].perm = perm, ![r].who = i]

\* The next role of the entry, or the next entry, or the end.
NextRole(r) ==
    IF \E i \in Allowed(r) : i > sync[r].who
    THEN ToRole(r, sync[r].who, sync[r].perm)
    ELSE IF sync[r].entry < Len(New)
    THEN sync' = [sync EXCEPT ![r].pc = "permission", ![r].entry = @ + 1, ![r].who = 0]
    ELSE RunGoes(r, "done")

StartRun(r) ==
    /\ At(r, "none")
    /\ sync' = [sync EXCEPT ![r].pc = IF New = <<>> THEN "done" ELSE "permission",
                    ![r].steady = {n \in DOMAIN SeededAs : RolesNamed(n) = {SeededAs[n]}}]
    /\ UNCHANGED <<roleRow, permission, rolePermission, roleCall, roleCalls>>

\* The name of a permission is not unique; the first row found is taken.
FindPermission(r) ==
    /\ At(r, "permission")
    /\ LET found == {row \in permission : row.name = Entry(r)}
       IN  IF found = {} THEN RunGoes(r, "insert")
           ELSE \E row \in found : ToRole(r, 0, row.id)
    /\ UNCHANGED <<roleRow, permission, rolePermission, roleCall, roleCalls>>

InsertPermission(r) ==
    LET id == Cardinality(permission) + 1
    IN  /\ At(r, "insert")
        /\ permission' = permission \cup {[id |-> id, name |-> Entry(r)]}
        /\ ToRole(r, 0, id)
        /\ UNCHANGED <<roleRow, rolePermission, roleCall, roleCalls>>

FindsRole(r, id) == sync' = [sync EXCEPT ![r].pc = "mapping", ![r].id = id]

\* Mutant of FindRole: the id the matrix is written with, as the older script has it.
FindRoleByMatrixId(r) ==
    /\ At(r, "role")
    /\ FindsRole(r, sync[r].who)
    /\ UNCHANGED <<roleRow, permission, rolePermission, roleCall, roleCalls>>

\* Nor is the name of a role; a role nobody has is passed over.
FindRole(r) ==
    /\ At(r, "role")
    /\ LET found == RolesNamed(SystemRoles[sync[r].who])
       IN  IF found = {} THEN NextRole(r) ELSE \E id \in found : FindsRole(r, id)
    /\ UNCHANGED <<roleRow, permission, rolePermission, roleCall, roleCalls>>

FindMapping(r) ==
    /\ At(r, "mapping")
    /\ IF <<sync[r].id, sync[r].perm>> \in rolePermission
       THEN NextRole(r) ELSE RunGoes(r, "grant")
    /\ UNCHANGED <<roleRow, permission, rolePermission, roleCall, roleCalls>>

\* The key of role_permission and the reference to role are checked here; an error
\* ends the script.
Grant(r) ==
    LET row == <<sync[r].id, sync[r].perm>>
    IN  /\ At(r, "grant")
        /\ IF row \in rolePermission \/ ~RoleExists(sync[r].id)
           THEN RunGoes(r, "failed") /\ UNCHANGED rolePermission
           ELSE rolePermission' = rolePermission \cup {row} /\ NextRole(r)
        /\ UNCHANGED <<roleRow, permission, roleCall, roleCalls>>

\* The script is stopped, or loses its connection.
RunDies(r) ==
    /\ Running(r) /\ RunGoes(r, "failed")
    /\ UNCHANGED <<roleRow, permission, rolePermission, roleCall, roleCalls>>

-----------------------------------------------------------------------------
(* The role service. Every name a row loses or gains is steady no more.    *)

Writes(id, row) ==
    /\ roleRow' = [roleRow EXCEPT ![id] = row]
    /\ sync' = [r \in Runs |->
         IF roleRow[id].name = row.name \/ ~Running(r) THEN sync[r]
         ELSE [sync[r] EXCEPT !.steady = @ \ {roleRow[id].name, row.name}]]

OpenCall(c, local) ==
    /\ roleCall[c] = NoCall /\ roleCalls < MaxRoleCalls /\ roleCalls' = roleCalls + 1
    /\ roleCall' = [roleCall EXCEPT ![c] = local]
CallReturns(c) == roleCall' = [roleCall EXCEPT ![c] = NoCall]
Unwritten == UNCHANGED <<roleRow, sync>>

\* A row is inserted under an id no row had before; any name will do.
createRole(c) ==
    \E n \in RoleNames, system \in BOOLEAN :
        LET fresh == RoleIds \ ({SeededAs[m] : m \in DOMAIN SeededAs} \cup DOMAIN Made)
            unused == {id \in fresh : ~RoleExists(id)}
        IN  /\ unused # {}
            /\ roleCall[c] = NoCall /\ roleCalls < MaxRoleCalls /\ roleCalls' = roleCalls + 1
            /\ Writes(Min(unused), RoleNamed(n, system))
            /\ UNCHANGED <<permission, rolePermission, roleCall>>

\* The copy read is merged with the values given and saved as a whole: saving
\* reads the row again, and writes where they differ or inserts what is gone.
updateRole(c) ==
    \E id \in EditedIds, n \in RoleNames \cup {"same"} :
        /\ OpenCall(c, [pc |-> "merge", id |-> id, name |-> n, copy |-> NoRole, row |-> NoRole])
        /\ Unwritten /\ UNCHANGED <<permission, rolePermission>>

merge(c) ==
    LET a == roleCall[c]
        was == roleRow[a.id]
        merged == IF a.name = "same" THEN was ELSE [was EXCEPT !.name = a.name]
    IN  /\ a.pc = "merge"
        /\ IF was = NoRole THEN CallReturns(c)
           ELSE roleCall' = [roleCall EXCEPT ![c].pc = "reread", ![c].copy = merged]
        /\ Unwritten /\ UNCHANGED <<permission, rolePermission, roleCalls>>

reread(c) ==
    /\ roleCall[c].pc = "reread"
    /\ roleCall' = [roleCall EXCEPT ![c].pc = "save", ![c].row = roleRow[roleCall[c].id]]
    /\ Unwritten /\ UNCHANGED <<permission, rolePermission, roleCalls>>

save(c) ==
    LET a == roleCall[c]
        now == roleRow[a.id]
    IN  /\ a.pc = "save" /\ CallReturns(c)
        /\ CASE a.row = NoRole /\ now = NoRole -> Writes(a.id, a.copy)
             [] a.row # NoRole /\ now # NoRole /\ a.row.name # a.copy.name ->
                  Writes(a.id, [now EXCEPT !.name = a.copy.name])
             [] OTHER -> Unwritten
        /\ UNCHANGED <<permission, rolePermission, roleCalls>>

deleteRole(c) ==
    \E id \in EditedIds :
        /\ OpenCall(c, [pc |-> "drop", id |-> id])
        /\ RoleExists(id) /\ ~roleRow[id].isSystem
        /\ Unwritten /\ UNCHANGED <<permission, rolePermission>>

\* A role with grants, or that accounts have, is referred to and stays.
drop(c) ==
    LET id == roleCall[c].id
        referred == Granted[id] # {} \/ \E g \in rolePermission : g[1] = id
    IN  /\ roleCall[c].pc = "drop" /\ CallReturns(c)
        /\ \/ RoleExists(id) /\ ~referred /\ Writes(id, NoRole)
           \/ Unwritten
        /\ UNCHANGED <<permission, rolePermission, roleCalls>>

RunNext(r) ==
    \/ StartRun(r) \/ FindPermission(r) \/ InsertPermission(r) \/ FindRole(r)
    \/ FindMapping(r) \/ Grant(r) \/ RunDies(r)

CallNext(c) ==
    createRole(c) \/ updateRole(c) \/ merge(c) \/ reread(c) \/ save(c) \/ deleteRole(c) \/ drop(c)

AccessNext == (\E r \in Runs : RunNext(r)) \/ (\E c \in RoleCalls : CallNext(c))

AccessSpec == AccessInit /\ [][AccessNext]_accessVars

-----------------------------------------------------------------------------
(* The guards, in the order they run, for a caller with a token of role id. *)

findPermissionNamesByRoleId(id) ==
    Granted[id] \cup {row.name : row \in {p \in permission : <<id, p.id>> \in rolePermission}}

PermissionGuard(needs, id) == needs \subseteq findPermissionNamesByRoleId(id)

\* What endpoints ask of a token; at a public one nobody is asked, the token not read.
Asked == {Routes[k].needs : k \in {j \in DOMAIN Routes : ~Routes[j].public}}

-----------------------------------------------------------------------------
(* Properties *)

\* A run of the script that ended well has put the matrix in force: a token of a
\* role whose name stayed with its row is let in wherever the matrix has what the
\* endpoint asks for, whatever other runs and edits of roles did meanwhile.
MatrixInForce ==
    \A r \in Runs : sync[r].pc = "done" =>
        \A n \in sync[r].steady, needs \in Asked :
            needs \subseteq Matrix[n] => PermissionGuard(needs, SeededAs[n])

\* Every endpoint has a caller: once a run has ended well and the seeded roles kept
\* their rows, each request finds the handler it is written for, and the token of
\* some seeded role is let in there; no endpoint asks for a permission the matrix
\* does not generate, and none is hidden by one that comes before.
EveryEndpointHasCaller ==
    \A r \in Runs : sync[r].pc = "done" /\ sync[r].steady = DOMAIN SeededAs =>
        /\ \A k \in DOMAIN Routes : Handler[k] = k
        /\ \A needs \in Asked : \E n \in DOMAIN SeededAs : PermissionGuard(needs, SeededAs[n])

=============================================================================
