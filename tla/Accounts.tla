------------------------------ MODULE Accounts ------------------------------
(* Accounts and their roles: the rows of "user" and of user_role, and the   *)
(* calls of the server that write them.  No call runs in a transaction and  *)
(* none locks a row; every await is a place where another call may run.     *)
(* TypeORM's save of a loaded row is two statements: it reads the row again *)
(* and then updates the columns in which the copy differs from what it read.*)
EXTENDS Integers, Sequences

CONSTANTS
    Persons,        \* who may have an account
    Newcomers,      \* who may register
    Provinces,
    Roles,          \* rows of roles.json
    Lists,          \* accounts that are edited at once, in the order of their ids
    Edits,          \* what a body names: [some columns -> values]
    RoleChoices,    \* roles an administrator hands out
    Calls,          \* slots for concurrent calls
    MaxCalls,       \* bound on the calls made
    MaxMishaps      \* bound on the calls and runs that die half way

Keep == "keep"      \* roleId === undefined
None == <<>>        \* no such row

Columns == {"id", "deletedAt", "isActive", "isVolunteer", "provinceId"}

\* A body may name any column, those the DTO does not have too: the pipes strip
\* nothing.  One that names an id brings unique columns of its own, or is refused.
ASSUME AccountsAssumption ==
    /\ Newcomers \subseteq Persons /\ RoleChoices \subseteq Roles
    /\ Lists \subseteq Seq(Persons) \ {<<>>}
    /\ \A edit \in Edits : /\ DOMAIN edit \subseteq Columns
                           /\ "id" \in DOMAIN edit => edit["id"] \in Persons
    /\ {"USER", "VOLUNTEER"} \subseteq Roles /\ Keep \notin Roles
    /\ MaxCalls \in Nat /\ MaxMishaps \in Nat

VARIABLES
    user,           \* [Persons -> the row, or None]
    userRole,       \* [Persons -> Seq(row or None)], rows by id; None was deleted
    call,           \* [Calls -> what the call holds in its local variables]
    hurt,           \* history: who was left without a role by something that died,
                    \* or by an edit that named an id nobody had
    calls, mishaps  \* bounds

accountVars == <<user, userRole, call, hurt, calls, mishaps>>

Account(p, province, volunteer) ==
    [id |-> p, deletedAt |-> FALSE, isActive |-> TRUE, isVolunteer |-> volunteer,
     provinceId |-> province]

RoleRow(role, province) == [roleId |-> role, provinceId |-> province]

Exists(p) == user[p] # None
Live(p) == Exists(p) /\ ~user[p].deletedAt
RoleRows(p) == {i \in DOMAIN userRole[p] : userRole[p][i] # None}

\* Row ids of p whose role is one of rs.
RowsWith(p, rs) == {i \in RoleRows(p) : userRole[p][i].roleId \in rs}

\* Mutant of findById: deleted accounts are found too.
FindsDeleted(p) == user[p]

\* The server finds no deleted account.
findById(p) == IF Live(p) THEN user[p] ELSE None

\* The columns an UPDATE sends after save has read the row again.
Differing(copy, row) == {col \in DOMAIN copy : copy[col] # row[col]}

Written(row, copy, cols) ==
    IF row = None
    THEN None
    ELSE [col \in DOMAIN row |-> IF col \in cols THEN copy[col] ELSE row[col]]

\* The people hurt so far, and those in ps, who still have no role.
StillHurt(ps) ==
    hurt' = {p \in hurt \cup ps : \A i \in DOMAIN userRole'[p] : userRole'[p][i] = None}

\* pc, whom the call is about, roles still to give, accounts still to edit, the edit
\* and the role asked for, copies of the two rows, and what a save has found.
Idle == [pc |-> "idle", who |-> CHOOSE p \in Persons : TRUE, todo |-> <<>>, rest |-> <<>>,
         edit |-> None, role |-> Keep, copy |-> None, row |-> None, cols |-> {}, id |-> 0]

\* Whose rows a call may write: the account it is about and the one its copy names.
Whom(local) == {local.who} \cup IF local.copy = None THEN {} ELSE {local.copy.id}

Open(c, local) ==
    /\ call[c] = Idle /\ calls < MaxCalls
    /\ calls' = calls + 1
    /\ call' = [call EXCEPT ![c] = local]

Goes(c, step) == call' = [call EXCEPT ![c].pc = step]
Returns(c) == call' = [call EXCEPT ![c] = Idle]

-----------------------------------------------------------------------------
(* Registration: check, INSERT, then one INSERT for each role.             *)

\* Only a live account with the same identity card refuses: the checks of phone
\* and e-mail ask a live row for its deletedAt.
register(c) ==
    \E p \in Newcomers, prov \in Provinces, volunteer \in BOOLEAN :
        /\ ~Live(p)
        /\ Open(c, [Idle EXCEPT !.pc = "create", !.who = p, !.copy = Account(p, prov, volunteer),
                    !.todo = IF volunteer THEN <<"USER", "VOLUNTEER">> ELSE <<"USER">>])
        /\ UNCHANGED <<user, userRole, hurt, mishaps>>

adminRegister(c) ==
    \E p \in Newcomers, prov \in Provinces, volunteer \in BOOLEAN, role \in RoleChoices :
        /\ ~Live(p)
        /\ Open(c, [Idle EXCEPT !.pc = "create", !.who = p, !.copy = Account(p, prov, volunteer),
                    !.todo = IF volunteer /\ role # "VOLUNTEER" THEN <<role, "VOLUNTEER">>
                                                                ELSE <<role>>])
        /\ UNCHANGED <<user, userRole, hurt, mishaps>>

\* Mutant of create: the first role, too, is only for volunteers.
CreateForVolunteersOnly(c) ==
    LET p == call[c].who
    IN  /\ call[c].pc = "create"
        /\ IF Exists(p)
           THEN Returns(c) /\ UNCHANGED user
           ELSE /\ user' = [user EXCEPT ![p] = call[c].copy]
                /\ IF call[c].copy.isVolunteer THEN Goes(c, "assign") ELSE Returns(c)
        /\ UNCHANGED <<userRole, hurt, calls, mishaps>>

\* A row, even a deleted one, still holds its phone number and identity card.
create(c) ==
    LET p == call[c].who
    IN  /\ call[c].pc = "create"
        /\ IF Exists(p)
           THEN Returns(c) /\ UNCHANGED user
           ELSE user' = [user EXCEPT ![p] = call[c].copy] /\ Goes(c, "assign")
        /\ UNCHANGED <<userRole, hurt, calls, mishaps>>

assignRole(c) ==
    LET p == call[c].who
    IN  /\ call[c].pc = "assign"
        /\ userRole' = [userRole EXCEPT
              ![p] = Append(@, RoleRow(Head(call[c].todo), call[c].copy.provinceId))]
        /\ IF Len(call[c].todo) = 1 THEN Returns(c)
                                    ELSE call' = [call EXCEPT ![c].todo = Tail(@)]
        /\ StillHurt({}) /\ UNCHANGED <<user, calls, mishaps>>

-----------------------------------------------------------------------------
(* Edits: profile, status, password and role of one account, or of several. *)

\* A call that edits the accounts ps, before it has read anything of the first.
Finding(ps, edit, role) ==
    [Idle EXCEPT !.pc = "find", !.who = Head(ps), !.rest = Tail(ps), !.edit = edit, !.role = role]

\* The next of ps to be edited, in the order of the list of ids.
EditNext(c, ps) ==
    IF ps = <<>> THEN Returns(c)
                 ELSE call' = [call EXCEPT ![c] = Finding(ps, @.edit, @.role)]

Edit(c, ps, edit, role) ==
    /\ Open(c, Finding(ps, edit, role))
    /\ UNCHANGED <<user, userRole, hurt, mishaps>>

\* The body may name a role here, too.
updateProfile(c) ==
    \E p \in Persons, edit \in Edits, role \in RoleChoices \cup {Keep} :
        Edit(c, <<p>>, edit, role)

\* update and updateStatus look the account up, then let the repository do it again.
update(c) ==
    \E p \in Persons, edit \in Edits, role \in RoleChoices \cup {Keep} :
        Live(p) /\ Edit(c, <<p>>, edit, role)

bulkUpdate(c) ==
    \E ps \in Lists, edit \in Edits, role \in RoleChoices \cup {Keep} :
        DOMAIN edit \subseteq {"isActive"} /\ Edit(c, ps, edit, role)

\* A role decides the volunteer flag of the account, whatever the edit says of it.
Edited(row, edit, role) ==
    [col \in DOMAIN row |->
        IF col = "isVolunteer" /\ role # Keep THEN role = "VOLUNTEER"
        ELSE IF col \in DOMAIN edit THEN edit[col] ELSE row[col]]

findUser(c) ==
    LET p == call[c].who IN
    /\ call[c].pc = "find"
    /\ IF findById(p) = None
       THEN EditNext(c, call[c].rest)
       ELSE call' = [call EXCEPT ![c].pc = "read",
                                 ![c].copy = Edited(findById(p), call[c].edit, call[c].role)]
    /\ UNCHANGED <<user, userRole, hurt, calls, mishaps>>

\* save, first statement: it looks for the id that the copy has by now.
readUser(c) ==
    LET p == call[c].copy.id IN
    /\ call[c].pc = "read"
    /\ call' = [call EXCEPT ![c].pc = "write",
                            ![c].cols = IF Exists(p) THEN Differing(call[c].copy, user[p])
                                                     ELSE Columns]
    /\ UNCHANGED <<user, userRole, hurt, calls, mishaps>>

\* save, second statement: an UPDATE, or an INSERT, which another one's refuses.
saveUser(c) ==
    LET p == call[c].copy.id
        inserts == "id" \in call[c].cols IN
    /\ call[c].pc = "write"
    /\ IF inserts /\ Exists(p)
       THEN Returns(c) /\ UNCHANGED user
       ELSE /\ user' = [user EXCEPT ![p] = IF inserts THEN call[c].copy
                                           ELSE Written(@, call[c].copy, call[c].cols)]
            /\ IF call[c].role = Keep THEN EditNext(c, call[c].rest) ELSE Goes(c, "role")
    /\ UNCHANGED <<userRole, calls, mishaps>>
    /\ StillHurt(IF inserts /\ ~Exists(p) THEN {p} ELSE {})

\* Any active row of the account is changed, or there is none and one is added.
findRole(c) ==
    LET p == call[c].who
        row == RoleRow(call[c].role, call[c].copy.provinceId) IN
    /\ call[c].pc = "role"
    /\ \/ /\ RoleRows(p) = {}
          /\ userRole' = [userRole EXCEPT ![p] = Append(@, row)]
          /\ EditNext(c, call[c].rest)
       \/ /\ UNCHANGED userRole
          /\ \E i \in RoleRows(p) :
                IF userRole[p][i] = row
                THEN EditNext(c, call[c].rest)
                ELSE call' = [call EXCEPT ![c].pc = "readRole", ![c].id = i, ![c].row = row]
    /\ StillHurt({}) /\ UNCHANGED <<user, calls, mishaps>>

\* save of a row that is no longer there inserts it again.
readRole(c) ==
    LET p == call[c].who IN
    /\ call[c].pc = "readRole"
    /\ IF userRole[p][call[c].id] = None
       THEN /\ userRole' = [userRole EXCEPT ![p][call[c].id] = call[c].row]
            /\ EditNext(c, call[c].rest)
       ELSE /\ call' = [call EXCEPT ![c].pc = "writeRole",
                            ![c].cols = Differing(call[c].row, userRole[p][call[c].id])]
            /\ UNCHANGED userRole
    /\ StillHurt({}) /\ UNCHANGED <<user, calls, mishaps>>

\* An UPDATE of a row deleted in between changes nothing.
saveRole(c) ==
    /\ call[c].pc = "writeRole"
    /\ userRole' = [userRole EXCEPT
          ![call[c].who][call[c].id] = Written(@, call[c].row, call[c].cols)]
    /\ EditNext(c, call[c].rest)
    /\ StillHurt({}) /\ UNCHANGED <<user, calls, mishaps>>

-----------------------------------------------------------------------------
delete(c) ==
    \E p \in Persons :
        /\ Live(p) /\ Open(c, [Idle EXCEPT !.pc = "delete", !.who = p])
        /\ UNCHANGED <<user, userRole, hurt, mishaps>>

\* One UPDATE of two columns, whatever became of the account meanwhile.
softDelete(c) ==
    /\ call[c].pc = "delete"
    /\ user' = [user EXCEPT ![call[c].who].deletedAt = TRUE, ![call[c].who].isActive = FALSE]
    /\ Returns(c)
    /\ UNCHANGED <<userRole, hurt, calls, mishaps>>

\* The server stops, or a statement fails: what was written stays written.
CallDies(c) ==
    /\ call[c] # Idle /\ mishaps < MaxMishaps
    /\ mishaps' = mishaps + 1
    /\ Returns(c) /\ UNCHANGED <<user, userRole, calls>>
    /\ StillHurt({call[c].who})

CallStarts(c) ==
    \/ register(c) \/ adminRegister(c) \/ updateProfile(c) \/ update(c)
    \/ bulkUpdate(c) \/ delete(c)

CallGoesOn(c) ==
    \/ create(c) \/ assignRole(c) \/ findUser(c) \/ readUser(c) \/ saveUser(c)
    \/ findRole(c) \/ readRole(c) \/ saveRole(c) \/ softDelete(c) \/ CallDies(c)
=============================================================================
