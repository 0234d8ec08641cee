------------------------------ MODULE Seeding -------------------------------
(* What fills the tables: the seeder, a process of its own that may run     *)
(* beside the server and be stopped and started again, and the scripts      *)
(* that make or remake the accounts of one province.                        *)
EXTENDS Accounts

CONSTANTS
    Plan,           \* Seq: the rows in seed()'s order, each <<table, key>>
    SeedRole,       \* [administrators of admin-users.json -> their role]
    SeedProvince,   \* [the same administrators -> their province]
    Mocks,          \* the people on the scripts' lists
    MockProvince,   \* the province of the scripts
    MaxRuns,        \* bound on the runs of the seeder and the scripts
    FirstUsers      \* accounts there may be to begin with: [Persons -> row or None]

Admins == DOMAIN SeedRole
PlanRows == {Plan[i] : i \in DOMAIN Plan}
CatalogRows == {row \in PlanRows : row[1] # "admin"}
HasSeedRow(p) == \E i \in RoleRows(p) : userRole[p][i] = RoleRow(SeedRole[p], SeedProvince[p])

\* seed() makes provinces and roles before administrators, of the list and no
\* others. The province of one need not be among the provinces.
ASSUME SeedingAssumption ==
    /\ Admins \subseteq Persons /\ DOMAIN SeedProvince = Admins
    /\ Mocks \subseteq Newcomers /\ Mocks # {}
    /\ Plan \in Seq({<<Plan[i][1], Plan[i][2]>> : i \in DOMAIN Plan})
    /\ \A i \in DOMAIN Plan :
          /\ Plan[i][1] \in {"province", "role", "specialization", "admin", "setting", "category"}
          /\ Plan[i][1] = "admin" => /\ Plan[i][2] \in Admins
                                    /\ \A j \in DOMAIN Plan :
                                          Plan[j][1] \in {"province", "role"} => j < i
    /\ \A p \in Admins : <<"admin", p>> \in PlanRows
    /\ \A first \in FirstUsers :
          /\ DOMAIN first = Persons
          /\ \A p \in Persons : first[p] # None => /\ p \in Admins
                                                /\ DOMAIN first[p] = Columns
                                                /\ first[p].id = p

VARIABLES
    catalog,        \* rows of province, role, specialization, setting, category
    seeder,         \* the seeder: place in Plan (0: not running), step, its copies
    script,         \* the script: step, whom it still has to make, whom it is making
    touched,        \* history: whose account a call held since the seeder started
    runs            \* bound

vars == <<user, userRole, call, hurt, calls, mishaps, catalog, seeder, script, touched,
          runs>>

NotSeeding == [at |-> 0, pc |-> "row", copy |-> None, cols |-> {}]
NoScript == [pc |-> "idle", todo |-> {}]

Row(table, key) == <<table, key>> \in catalog

Init ==
    /\ user \in FirstUsers
    /\ userRole = [p \in Persons |->
          IF user[p] = None THEN <<>> ELSE <<RoleRow(SeedRole[p], user[p].provinceId)>>]
    /\ catalog \in {{}, CatalogRows}
    /\ catalog = {} => \A p \in Persons : ~Exists(p)
    /\ call = [c \in Calls |-> Idle] /\ hurt = {} /\ touched = {}
    /\ seeder = NotSeeding /\ script = NoScript
    /\ calls = 0 /\ mishaps = 0 /\ runs = 0

-----------------------------------------------------------------------------
(* The seeder.                                                             *)

InFlight == UNION {Whom(call[c]) : c \in {d \in Calls : call[d] # Idle}}
Item == Plan[seeder.at]
Next2Seed == seeder' = [NotSeeding EXCEPT !.at = seeder.at + 1]
Seeds(table) == seeder.at \in DOMAIN Plan /\ Item[1] = table
SeedsAdmin(step) == Seeds("admin") /\ seeder.pc = step

RunStarts == runs < MaxRuns /\ runs' = runs + 1

SeedStarts ==
    /\ seeder = NotSeeding /\ script = NoScript
    /\ Next2Seed /\ touched' = InFlight /\ RunStarts
    /\ UNCHANGED <<accountVars, catalog, script>>

\* What is there, found by code, name or key, is left as it is.
SeedRow(table) ==
    /\ Seeds(table)
    /\ catalog' = catalog \cup {Item}
    /\ Next2Seed
    /\ UNCHANGED <<accountVars, script, touched, runs>>

seedProvinces == SeedRow("province")
seedRoles == SeedRow("role")
seedTeamSpecializations == SeedRow("specialization")
seedSettings == SeedRow("setting")
seedCategories == SeedRow("category")

\* Mutant of AfterFinding: who is there already is skipped.
SkipsKnown(p) == [NotSeeding EXCEPT !.at = seeder.at + 1]

\* An administrator who is there already is moved to the province of the list, if
\* there is one.
AfterFinding(p) ==
    IF user[p].provinceId = SeedProvince[p] \/ ~Row("province", SeedProvince[p])
    THEN [seeder EXCEPT !.pc = "role"]
    ELSE [seeder EXCEPT !.pc = "read", !.copy = [user[p] EXCEPT !.provinceId = SeedProvince[p]]]

\* Deleted accounts are found too.
seedAdminUser ==
    LET p == Item[2]
        rowsThere == Row("province", SeedProvince[p]) /\ Row("role", SeedRole[p]) IN
    /\ SeedsAdmin("row")
    /\ IF Exists(p)
       THEN seeder' = AfterFinding(p) /\ UNCHANGED user
       ELSE IF rowsThere
       THEN /\ user' = [user EXCEPT ![p] = Account(p, SeedProvince[p], FALSE)]
            /\ seeder' = [seeder EXCEPT !.pc = "role"]
       ELSE Next2Seed /\ UNCHANGED user
    /\ UNCHANGED <<userRole, call, hurt, calls, mishaps, catalog, script, touched, runs>>

\* Save of the province, in its two statements.
seedAdminRead ==
    /\ SeedsAdmin("read")
    /\ seeder' = [seeder EXCEPT !.pc = "write", !.cols = Differing(seeder.copy, user[Item[2]])]
    /\ UNCHANGED <<accountVars, catalog, script, touched, runs>>

seedAdminProvince ==
    /\ SeedsAdmin("write")
    /\ user' = [user EXCEPT ![Item[2]] = Written(@, seeder.copy, seeder.cols)]
    /\ seeder' = [NotSeeding EXCEPT !.at = seeder.at, !.pc = "role"]
    /\ UNCHANGED <<userRole, call, hurt, calls, mishaps, catalog, script, touched, runs>>

\* Without the row it wants, the seeder deletes the rows of this role and adds it.
seedAdminRole ==
    LET p == Item[2] IN
    /\ SeedsAdmin("role")
    /\ IF HasSeedRow(p) \/ ~Row("role", SeedRole[p]) \/ ~Row("province", SeedProvince[p])
       THEN Next2Seed
       ELSE seeder' = [seeder EXCEPT !.pc = "delete"]
    /\ UNCHANGED <<accountVars, catalog, script, touched, runs>>

seedAdminDelete ==
    LET p == Item[2] IN
    /\ SeedsAdmin("delete")
    /\ userRole' = [userRole EXCEPT ![p] =
          [i \in DOMAIN @ |-> IF i \in RowsWith(p, {SeedRole[p]}) THEN None ELSE @[i]]]
    /\ seeder' = [seeder EXCEPT !.pc = "insert"]
    /\ UNCHANGED <<user, call, hurt, calls, mishaps, catalog, script, touched, runs>>

seedAdminInsert ==
    LET p == Item[2] IN
    /\ SeedsAdmin("insert")
    /\ userRole' = [userRole EXCEPT ![p] = Append(@, RoleRow(SeedRole[p], SeedProvince[p]))]
    /\ Next2Seed /\ StillHurt({})
    /\ UNCHANGED <<user, call, calls, mishaps, catalog, script, touched, runs>>

SeedEnds ==
    /\ seeder.at > Len(Plan)
    /\ seeder' = NotSeeding /\ touched' = {}
    /\ UNCHANGED <<accountVars, catalog, script, runs>>

SeederDies ==
    /\ seeder.at \in DOMAIN Plan /\ mishaps < MaxMishaps
    /\ mishaps' = mishaps + 1
    /\ UNCHANGED <<user, userRole, call, calls, catalog, script, runs>>
    /\ StillHurt(IF Item[1] = "admin" THEN {Item[2]} ELSE {})
    /\ seeder' = NotSeeding /\ touched' = {}

-----------------------------------------------------------------------------
(* The scripts.  They are run on a quiet system: that is an assumption.    *)

Quiet == (\A c \in Calls : call[c] = Idle) /\ seeder = NotSeeding
Ready == Row("role", "USER") /\ Row("province", MockProvince)
ScriptGoes(step, todo) == script' = [pc |-> step, todo |-> todo]
Makes == CHOOSE p \in script.todo : TRUE
HasUser(p) == RowsWith(p, {"USER"}) # {}

\* One person of the list; who is there already, deleted or not, is skipped.
mockUser ==
    /\ script = NoScript /\ Quiet /\ Ready /\ RunStarts
    /\ \E p \in Mocks :
          /\ ~Exists(p)
          /\ user' = [user EXCEPT ![p] = Account(p, MockProvince, FALSE)]
          /\ ScriptGoes("grant", {p})
    /\ UNCHANGED <<userRole, call, hurt, calls, mishaps, catalog, seeder, touched>>

\* Three scripts make the account and no role.
MakesNoRole ==
    /\ script = NoScript /\ Quiet /\ Ready /\ RunStarts
    /\ \E p \in Mocks :
          /\ ~Exists(p)
          /\ user' = [user EXCEPT ![p] = Account(p, MockProvince, FALSE)]
          /\ UNCHANGED userRole /\ StillHurt({p})
    /\ UNCHANGED <<call, calls, mishaps, catalog, seeder, script, touched>>

runProvince2Seed == MakesNoRole
seedUsers == MakesNoRole
seedUsersByProvince == MakesNoRole

\* The role of the account just made; then the next of the list.
grantUser ==
    LET p == Makes
        rest == script.todo \ {p} IN
    /\ script.pc = "grant"
    /\ userRole' = [userRole EXCEPT ![p] = Append(@, RoleRow("USER", MockProvince))]
    /\ IF rest = {} THEN script' = NoScript ELSE ScriptGoes("remake", rest)
    /\ StillHurt({})
    /\ UNCHANGED <<user, call, calls, mishaps, catalog, seeder, touched, runs>>

\* The reset takes every user of the province, deleted ones too, all roles first.
resetRoles ==
    LET old == {p \in Persons : Exists(p) /\ user[p].provinceId = MockProvince /\ HasUser(p)} IN
    /\ script = NoScript /\ Quiet /\ old # {} /\ RunStarts
    /\ userRole' = [p \in Persons |-> IF p \in old THEN <<>> ELSE userRole[p]]
    /\ ScriptGoes("wipe", old)
    /\ UNCHANGED <<user, call, hurt, calls, mishaps, catalog, seeder, touched>>

\* A row that still refers to one of them refuses the whole statement, and the
\* script ends with the roles gone; else it goes on to make new.
DeletesUsers(old, new) ==
    /\ script.pc = "wipe"
    /\ UNCHANGED <<userRole, call, calls, mishaps, catalog, seeder, touched, runs>>
    /\ \/ /\ ScriptGoes("remake", new)
          /\ user' = [p \in Persons |-> IF p \in old THEN None ELSE user[p]]
          /\ UNCHANGED hurt
       \/ script' = NoScript /\ StillHurt(old) /\ UNCHANGED user

\* One script makes again whom it deleted, the other whom its own list names.
resetToRealData == DeletesUsers(script.todo, script.todo)
resetToMocks == DeletesUsers(script.todo, Mocks)

remakeUser ==
    LET p == Makes IN
    /\ script.pc = "remake"
    /\ IF Exists(p)
       THEN script' = NoScript /\ UNCHANGED user
       ELSE /\ user' = [user EXCEPT ![p] = Account(p, MockProvince, FALSE)]
            /\ ScriptGoes("grant", script.todo)
    /\ UNCHANGED <<userRole, call, hurt, calls, mishaps, catalog, seeder, touched, runs>>

ScriptDies ==
    /\ script # NoScript /\ mishaps < MaxMishaps
    /\ mishaps' = mishaps + 1
    /\ UNCHANGED <<user, userRole, call, calls, catalog, seeder, touched, runs>>
    /\ script' = NoScript /\ StillHurt(script.todo)

-----------------------------------------------------------------------------
\* Calls find provinces and roles, and no script at work.
Served == /\ Ready /\ script = NoScript
          /\ UNCHANGED <<catalog, seeder, script, runs>>
          /\ touched' = IF seeder = NotSeeding THEN {}
                        ELSE touched \cup InFlight'

Next ==
    \/ \E c \in Calls : (CallStarts(c) \/ CallGoesOn(c)) /\ Served
    \/ SeedStarts \/ seedProvinces \/ seedRoles \/ seedTeamSpecializations
    \/ seedAdminUser \/ seedAdminRead \/ seedAdminProvince \/ seedAdminRole
    \/ seedAdminDelete \/ seedAdminInsert \/ seedSettings \/ seedCategories
    \/ SeedEnds \/ SeederDies
    \/ mockUser \/ runProvince2Seed \/ seedUsers \/ seedUsersByProvince \/ grantUser
    \/ resetRoles \/ resetToRealData \/ resetToMocks \/ remakeUser \/ ScriptDies

Spec == Init /\ [][Next]_vars

-----------------------------------------------------------------------------
(* Properties.                                                             *)

\* Outside its own registration, a live account has a role: changing roles, the
\* seeder's delete and insert beside an edit, and a remake keep one.  Excepted are
\* those left without one by something that died, by a script that gives none, or by
\* an edit that named the id of nobody.
AtWork(p) == \/ \E c \in Calls : call[c].pc = "assign" /\ call[c].who = p
             \/ Seeds("admin") /\ Item[2] = p
             \/ p \in script.todo
EveryAccountHasRole ==
    \A p \in Persons : Live(p) /\ ~AtWork(p) /\ p \notin hurt => RoleRows(p) # {}

\* A seed run that reaches its end leaves everything it is for in place, whatever
\* an earlier run left half done and whoever edits other accounts: all rows, and
\* each administrator whose province and role there are and whom no call held
\* meanwhile, in that province and with that role.
SeedCompletes ==
    seeder.at > Len(Plan) =>
        /\ CatalogRows \subseteq catalog
        /\ \A p \in Admins \ touched :
              Row("province", SeedProvince[p]) /\ Row("role", SeedRole[p]) =>
                  Exists(p) /\ user[p].provinceId = SeedProvince[p] /\ HasSeedRow(p)

\* A deleted account stays deleted and locked, whatever is done to it later: only a
\* call, or the seeder, that had copied it while it was alive brings it back or
\* unlocks it, and the call whose edit gave another account's copy its id; and the
\* seeder unlocks it, having copied it after a call that lifted the lock too late.
HeldAlive(p) ==
    \/ \E c \in Calls :
          /\ call[c].pc \in {"read", "write"} /\ call[c].copy.id = p
          /\ call[c].who # p \/ ~call[c].copy.deletedAt \/ "deletedAt" \in DOMAIN call[c].edit
    \/ /\ (SeedsAdmin("read") \/ SeedsAdmin("write")) /\ Item[2] = p
       /\ ~seeder.copy.deletedAt \/ seeder.copy.isActive
DeletedStaysAway ==
    [][\A p \in Persons :
         Exists(p) /\ user[p].deletedAt /\ ~HeldAlive(p) /\ script = NoScript =>
            user'[p].deletedAt /\ (user'[p].isActive => user[p].isActive)]_vars
=============================================================================
