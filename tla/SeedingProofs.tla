--------------------------- MODULE SeedingProofs ----------------------------
(***************************************************************************)
(* Accounts keep a role, a seed run that ends has completed its work and   *)
(* the deleted stay away, for any number of accounts, calls, runs, scripts *)
(* and lists, whatever dies half way; and the script that syncs the        *)
(* permissions puts the matrix in force.                                   *)
(***************************************************************************)
EXTENDS Seeding, Access, TLAPS

-----------------------------------------------------------------------------
(* Rows of user_role.                                                      *)

RoleColumns == {"roleId", "provinceId"}
IsRoleRow(row) == DOMAIN row = RoleColumns
Given(s) == {i \in DOMAIN s : s[i] # None}
RowSeq(s) == (\E S : s \in Seq(S)) /\ \A i \in Given(s) : IsRoleRow(s[i])

LEMMA NoneHasNoColumns ==
    ASSUME NEW row, DOMAIN row = Columns \/ DOMAIN row = RoleColumns
    PROVE  row # None
PROOF
<1>1. DOMAIN None = {}
  BY DEF None
<1>2. DOMAIN row # {}
  BY DEF Columns, RoleColumns
<1> QED
  BY <1>1, <1>2

LEMMA RoleRowIsOne ==
    ASSUME NEW role, NEW province
    PROVE  IsRoleRow(RoleRow(role, province)) /\ RoleRow(role, province) # None
PROOF
<1>1. IsRoleRow(RoleRow(role, province))
  BY DEF RoleRow, IsRoleRow, RoleColumns
<1> QED
  BY <1>1, NoneHasNoColumns DEF IsRoleRow

LEMMA NoRows == RowSeq(<<>>) /\ Given(<<>>) = {}
PROOF
<1>1. <<>> \in Seq({}) /\ DOMAIN <<>> = {}
  OBVIOUS
<1> QED
  BY <1>1 DEF RowSeq, Given

LEMMA OneRow ==
    ASSUME NEW role, NEW province
    PROVE  RowSeq(<<RoleRow(role, province)>>) /\ Given(<<RoleRow(role, province)>>) # {}
PROOF
<1> DEFINE row == RoleRow(role, province)
<1>1. <<row>> \in Seq({row}) /\ DOMAIN <<row>> = {1} /\ <<row>>[1] = row
  OBVIOUS
<1> HIDE DEF row
<1>2. IsRoleRow(row) /\ row # None
  BY RoleRowIsOne DEF row
<1>3. Given(<<row>>) = {1}
  BY <1>1, <1>2 DEF Given
<1> QED
  BY <1>1, <1>2, <1>3 DEF RowSeq, row

\* A new row comes after those there are.
LEMMA AppendGives ==
    ASSUME NEW s, RowSeq(s), NEW row, IsRoleRow(row), row # None
    PROVE  /\ RowSeq(Append(s, row))
           /\ \E i \in Given(Append(s, row)) : Append(s, row)[i] = row
           /\ \A i \in DOMAIN s : i \in DOMAIN Append(s, row) /\ Append(s, row)[i] = s[i]
PROOF
<1>1. PICK S : s \in Seq(S)
  BY DEF RowSeq
<1> DEFINE t == Append(s, row)
           n == Len(s)
<1>2. s \in Seq(S \cup {row})
  BY <1>1
<1>3. n \in Nat /\ DOMAIN s = 1..n
  BY <1>1
<1>4. t \in Seq(S \cup {row}) /\ DOMAIN t = 1..(n + 1) /\ t[n + 1] = row
  BY <1>2
<1>5. \A i \in 1..n : t[i] = s[i]
  BY <1>2
<1> HIDE DEF t, n
<1>6. n + 1 \in Given(t)
  BY <1>3, <1>4 DEF Given
<1>7. ASSUME NEW i \in Given(t)
      PROVE  IsRoleRow(t[i])
  <2>1. i \in 1..n \/ i = n + 1
    BY <1>3, <1>4 DEF Given
  <2>2. CASE i = n + 1
    BY <2>2, <1>4
  <2>3. CASE i \in 1..n
    BY <2>3, <1>3, <1>5 DEF RowSeq, Given
  <2> QED
    BY <2>1, <2>2, <2>3
<1> QED
  <2>1. RowSeq(t)
    BY <1>4, <1>7 DEF RowSeq
  <2>2. \E i \in Given(t) : t[i] = row
    BY <1>4, <1>6
  <2>3. \A i \in DOMAIN s : i \in DOMAIN t /\ t[i] = s[i]
    BY <1>3, <1>4, <1>5
  <2> QED
    BY <2>1, <2>2, <2>3 DEF t

\* Writing rows in place, or emptying some of them, leaves a sequence of rows.
LEMMA OverwriteKeepsRows ==
    ASSUME NEW s, RowSeq(s), NEW t, t = [i \in DOMAIN s |-> t[i]],
           \A i \in DOMAIN s : t[i] = None \/ IsRoleRow(t[i])
    PROVE  RowSeq(t)
PROOF
<1>1. PICK S : s \in Seq(S)
  BY DEF RowSeq
<1> DEFINE n == Len(s)
           T == {t[i] : i \in DOMAIN s}
<1>2. n \in Nat /\ DOMAIN s = 1..n
  BY <1>1
<1>3. t \in [1..n -> T]
  BY <1>2
<1>4. t \in Seq(T)
  BY <1>2, <1>3
<1>5. \A i \in Given(t) : IsRoleRow(t[i])
  BY DEF Given
<1> QED
  BY <1>4, <1>5 DEF RowSeq

-----------------------------------------------------------------------------
(* Calls.                                                                  *)

IsAccount(row) == DOMAIN row = Columns /\ row.id \in Persons

\* The tables hold rows with the columns they should have.
Tables ==
    /\ DOMAIN user = Persons /\ DOMAIN userRole = Persons
    /\ \A p \in Persons : user[p] # None => IsAccount(user[p])
    /\ \A p \in Persons : RowSeq(userRole[p])

EditOK(edit) ==
    DOMAIN edit \subseteq Columns /\ ("id" \in DOMAIN edit => edit["id"] \in Persons)

\* What a call holds; a copy it is about to save was alive when it was made.
CallOK(c) ==
    /\ DOMAIN call[c] = DOMAIN Idle
    /\ call[c].pc = "idle" => call[c] = Idle
    /\ call[c].who \in Persons /\ call[c].rest \in Seq(Persons)
    /\ EditOK(call[c].edit)
    /\ call[c].pc \in {"create", "read", "write"} => IsAccount(call[c].copy)
    /\ call[c].pc \in {"read", "write"} =>
          (call[c].copy.deletedAt => "deletedAt" \in DOMAIN call[c].edit)
    /\ call[c].pc = "readRole" => IsRoleRow(call[c].row)
    /\ call[c].pc = "delete" => Exists(call[c].who)

CallsOK == DOMAIN call = Calls /\ \A c \in Calls : CallOK(c)

About(c, p) == call[c].pc # "idle" /\ p \in Whom(call[c])
Assigns(c, p) == call[c].pc = "assign" /\ call[c].who = p
Needs(p) == Exists(p) /\ Given(userRole[p]) = {} /\ p \notin hurt

\* What one step of the call c does to the rest.
OnlyItsCall(c) == DOMAIN call' = Calls /\ \A d \in Calls : d # c => call'[d] = call[d]
OnlyItsOwn(c) ==
    \A p \in Persons : ~About(c, p) => user'[p] = user[p] /\ userRole'[p] = userRole[p]
Survive == \A p \in Persons : Exists(p) => user'[p] # None
NewNeeds(c) ==
    \A p \in Persons : Needs(p)' => (Needs(p) /\ ~Assigns(c, p)) \/ Assigns(c, p)'
KeepsDeleted(c) ==
    \A p \in Persons :
        Exists(p) /\ user[p].deletedAt /\ ~(call[c].pc = "write" /\ call[c].copy.id = p) =>
            user'[p].deletedAt /\ (user'[p].isActive => user[p].isActive)

CallEffect(c) ==
    /\ Tables' /\ CallsOK' /\ OnlyItsOwn(c) /\ Survive /\ NewNeeds(c) /\ KeepsDeleted(c)
    /\ OnlyItsCall(c)

LEMMA IdleIsOK ==
    /\ DOMAIN Idle = {"pc", "who", "todo", "rest", "edit", "role", "copy", "row", "cols", "id"}
    /\ Idle.pc = "idle" /\ Idle.who \in Persons /\ Idle.rest = <<>> /\ DOMAIN Idle.edit = {}
PROOF
<1>1. Persons # {}
  BY SeedingAssumption, AccountsAssumption
<1>2. (CHOOSE p \in Persons : TRUE) \in Persons
  BY <1>1
<1>3. DOMAIN None = {}
  BY DEF None
<1> QED
  BY <1>2, <1>3 DEF Idle

LEMMA AccountIsOne ==
    ASSUME NEW p \in Persons, NEW province, NEW volunteer
    PROVE  IsAccount(Account(p, province, volunteer))
PROOF BY DEF Account, IsAccount, Columns

LEMMA OthersStayOK ==
    ASSUME CallsOK, Survive, NEW c \in Calls, OnlyItsCall(c), CallOK(c)'
    PROVE  CallsOK'
PROOF
<1>1. ASSUME NEW d \in Calls, d # c
      PROVE  CallOK(d)'
  <2>1. call'[d] = call[d]
    BY <1>1 DEF OnlyItsCall
  <2>2. CallOK(d)
    BY DEF CallsOK
  <2> QED
    BY <2>1, <2>2 DEF CallOK, Survive, Exists
<1> QED
  BY <1>1 DEF CallsOK, OnlyItsCall

\* A step that writes no row and gives no role.
LEMMA QuietSteps ==
    ASSUME Tables, CallsOK, NEW c \in Calls, OnlyItsCall(c), CallOK(c)',
           UNCHANGED <<user, userRole, hurt>>, call[c].pc # "assign"
    PROVE  CallEffect(c)
PROOF
<1>1. Tables' /\ OnlyItsOwn(c) /\ Survive
  BY DEF Tables, OnlyItsOwn, Survive, Exists
<1>2. CallsOK'
  BY <1>1, OthersStayOK
<1>3. NewNeeds(c)
  BY DEF NewNeeds, Needs, Exists, Assigns
<1>4. KeepsDeleted(c)
  BY DEF KeepsDeleted
<1> QED
  BY <1>1, <1>2, <1>3, <1>4 DEF CallEffect

LEMMA StartingIsOK ==
    ASSUME Tables, CallsOK, NEW c \in Calls, CallStarts(c), UNCHANGED <<user, userRole, hurt>>
    PROVE  CallEffect(c)
PROOF
<1> USE IdleIsOK
<1>1. call[c] = Idle /\ DOMAIN call = Calls
  BY DEF CallStarts, register, adminRegister, updateProfile, update, bulkUpdate, delete, Edit,
         Open, CallsOK
<1>2. call[c].pc # "assign"
  BY <1>1
<1>3. ASSUME NEW local, Open(c, local)
      PROVE  OnlyItsCall(c) /\ call'[c] = local
  BY <1>1, <1>3 DEF Open, OnlyItsCall
<1>4. ASSUME register(c) \/ adminRegister(c)
      PROVE  CallOK(c)' /\ OnlyItsCall(c)
  <2>0. PICK p \in Newcomers, prov \in Provinces, volunteer \in BOOLEAN :
            \E todo : Open(c, [Idle EXCEPT !.pc = "create", !.who = p,
                                           !.copy = Account(p, prov, volunteer), !.todo = todo])
    BY <1>4 DEF register, adminRegister
  <2>1. PICK todo : Open(c, [Idle EXCEPT !.pc = "create", !.who = p,
                                         !.copy = Account(p, prov, volunteer), !.todo = todo])
    BY <2>0
  <2>2. call'[c] = [Idle EXCEPT !.pc = "create", !.who = p, !.copy = Account(p, prov, volunteer),
                                !.todo = todo]
    BY <1>3, <2>1
  <2>4. p \in Persons /\ Idle.rest \in Seq(Persons)
    BY AccountsAssumption
  <2>3. IsAccount(Account(p, prov, volunteer))
    BY <2>4, AccountIsOne
  <2>5. EditOK(Idle.edit)
    BY DEF EditOK
  <2> QED
    BY <1>3, <2>1, <2>2, <2>3, <2>4, <2>5 DEF CallOK
<1>5. ASSUME updateProfile(c) \/ update(c) \/ bulkUpdate(c)
      PROVE  CallOK(c)' /\ OnlyItsCall(c)
  <2>1. PICK ps \in Seq(Persons) \ {<<>>}, edit \in Edits, role \in RoleChoices \cup {Keep} :
            Open(c, Finding(ps, edit, role))
    <3> \A p \in Persons : <<p>> \in Seq(Persons) /\ <<p>> # <<>>
      OBVIOUS
    <3>1. CASE updateProfile(c)
      <4>1. PICK p \in Persons, edit \in Edits, role \in RoleChoices \cup {Keep} :
                Open(c, Finding(<<p>>, edit, role))
        BY <3>1 DEF updateProfile, Edit
      <4> QED
        BY <4>1
    <3>2. CASE update(c)
      <4>1. PICK p \in Persons, edit \in Edits, role \in RoleChoices \cup {Keep} :
                Open(c, Finding(<<p>>, edit, role))
        BY <3>2 DEF update, Edit
      <4> QED
        BY <4>1
    <3>3. CASE bulkUpdate(c)
      BY <3>3, AccountsAssumption DEF bulkUpdate, Edit
    <3> QED
      BY <1>5, <3>1, <3>2, <3>3
  <2>2. call'[c] = Finding(ps, edit, role)
    BY <1>3, <2>1
  <2>3. Head(ps) \in Persons /\ Tail(ps) \in Seq(Persons)
    BY <2>1
  <2>4. EditOK(edit)
    BY AccountsAssumption DEF EditOK
  <2> QED
    BY <1>3, <2>1, <2>2, <2>3, <2>4 DEF CallOK, Finding
<1>6. ASSUME delete(c)
      PROVE  CallOK(c)' /\ OnlyItsCall(c)
  <2>1. PICK p \in Persons : Live(p) /\ Open(c, [Idle EXCEPT !.pc = "delete", !.who = p])
    BY <1>6 DEF delete
  <2>2. call'[c] = [Idle EXCEPT !.pc = "delete", !.who = p]
    BY <1>3, <2>1
  <2>3. /\ DOMAIN call'[c] = DOMAIN Idle /\ call'[c].pc = "delete" /\ call'[c].who = p
        /\ call'[c].rest = <<>> /\ DOMAIN call'[c].edit = {}
    BY <2>2
  <2>4. user'[p] # None
    BY <2>1 DEF Live, Exists
  <2>5. EditOK(call'[c].edit)
    BY <2>3 DEF EditOK
  <2> QED
    BY <1>3, <2>1, <2>3, <2>4, <2>5 DEF CallOK, Exists
<1>7. CallOK(c)' /\ OnlyItsCall(c)
  BY <1>4, <1>5, <1>6 DEF CallStarts
<1> QED
  BY <1>2, <1>7, QuietSteps

-----------------------------------------------------------------------------
(* Calls that go on.                                                       *)

LEMMA ReturningIsOK ==
    ASSUME CallsOK, NEW c \in Calls, Returns(c)
    PROVE  OnlyItsCall(c) /\ CallOK(c)'
PROOF
<1>1. call'[c] = Idle /\ OnlyItsCall(c)
  BY DEF Returns, CallsOK, OnlyItsCall
<1>2. EditOK(Idle.edit)
  BY IdleIsOK DEF EditOK
<1> QED
  BY <1>1, <1>2, IdleIsOK DEF CallOK

LEMMA EditingOnIsOK ==
    ASSUME CallsOK, NEW c \in Calls, EditNext(c, call[c].rest)
    PROVE  OnlyItsCall(c) /\ CallOK(c)'
PROOF
<1>1. CASE call[c].rest = <<>>
  BY <1>1, ReturningIsOK DEF EditNext
<1>2. CASE call[c].rest # <<>>
  <2> DEFINE ps == call[c].rest
  <2>1. /\ call'[c] = Finding(ps, call[c].edit, call[c].role)
        /\ OnlyItsCall(c)
    BY <1>2 DEF EditNext, CallsOK, OnlyItsCall
  <2>2. Head(ps) \in Persons /\ Tail(ps) \in Seq(Persons)
    BY <1>2 DEF CallsOK, CallOK
  <2>3. EditOK(call[c].edit)
    BY DEF CallsOK, CallOK
  <2> HIDE DEF ps
  <2> QED
    BY <2>1, <2>2, <2>3, IdleIsOK DEF CallOK, Finding
<1> QED
  BY <1>1, <1>2

\* A step that writes one account only.
LEMMA UserSteps ==
    ASSUME Tables, CallsOK, NEW c \in Calls, OnlyItsCall(c), CallOK(c)',
           UNCHANGED userRole, call[c].pc # "idle",
           NEW p \in Persons, p \in Whom(call[c]), DOMAIN user' = Persons,
           \A q \in Persons : q # p => user'[q] = user[q],
           user'[p] # None => IsAccount(user'[p]),
           Exists(p) => user'[p] # None,
           NewNeeds(c), KeepsDeleted(c)
    PROVE  CallEffect(c)
PROOF
<1>1. Tables' /\ OnlyItsOwn(c) /\ Survive
  <2>1. OnlyItsOwn(c)
    BY DEF OnlyItsOwn, About
  <2>2. Survive
    BY DEF Survive, Exists
  <2>3. Tables'
    BY DEF Tables
  <2> QED
    BY <2>1, <2>2, <2>3
<1>2. CallsOK'
  BY <1>1, OthersStayOK
<1> QED
  BY <1>1, <1>2 DEF CallEffect

\* Whose account a step writes may need a role only if a role is being given.
LEMMA UserNeeds ==
    ASSUME NEW c \in Calls, call[c].pc # "assign",
           UNCHANGED <<userRole, hurt>>, NEW p \in Persons,
           \A q \in Persons : q # p => user'[q] = user[q],
           user'[p] # None => Exists(p) \/ Assigns(c, p)'
    PROVE  NewNeeds(c)
PROOF BY DEF NewNeeds, Needs, Exists, Assigns

\* A step about p that writes its roles only, or dies.
LEMMA RoleSteps ==
    ASSUME Tables, CallsOK, NEW c \in Calls, OnlyItsCall(c), CallOK(c)',
           NEW ps, StillHurt(ps), UNCHANGED user, call[c].pc # "idle",
           DOMAIN userRole' = Persons,
           \A q \in Persons : q # call[c].who => userRole'[q] = userRole[q],
           RowSeq(userRole'[call[c].who]),
           Given(userRole[call[c].who]) # {} => Given(userRole'[call[c].who]) # {},
           call[c].pc = "assign" => Given(userRole'[call[c].who]) # {} \/ call[c].who \in ps
    PROVE  CallEffect(c)
PROOF
<1>1. Tables' /\ OnlyItsOwn(c) /\ Survive
  <2>1. OnlyItsOwn(c)
    BY DEF OnlyItsOwn, About, Whom
  <2>2. Survive
    BY DEF Survive, Exists
  <2>3. Tables'
    BY DEF Tables
  <2> QED
    BY <2>1, <2>2, <2>3
<1>2. CallsOK'
  BY <1>1, OthersStayOK
<1>3. ASSUME NEW q \in Persons, Needs(q)'
      PROVE  Needs(q) /\ ~Assigns(c, q)
  <2>1. Given(userRole'[q]) = {} /\ q \notin hurt' /\ user'[q] # None
    BY <1>3 DEF Needs, Exists
  <2>2. q \notin hurt \cup ps
    BY <2>1 DEF StillHurt, Given
  <2>3. Given(userRole[q]) = {}
    BY <2>1
  <2> QED
    BY <2>1, <2>2, <2>3 DEF Needs, Exists, Assigns
<1>4. NewNeeds(c)
  BY <1>3 DEF NewNeeds
<1>5. KeepsDeleted(c)
  BY DEF KeepsDeleted
<1> QED
  BY <1>1, <1>2, <1>4, <1>5 DEF CallEffect

LEMMA CreateStep ==
    ASSUME Tables, CallsOK, NEW c \in Calls, create(c)
    PROVE  CallEffect(c)
PROOF
<1> DEFINE p == call[c].who
<1>1. call[c].pc = "create" /\ CallOK(c) /\ p \in Persons
  BY DEF create, CallsOK, CallOK
<1>2. CASE Exists(p)
  <2>1. Returns(c) /\ UNCHANGED <<user, userRole, hurt>>
    BY <1>2 DEF create
  <2> QED
    BY <1>1, <2>1, ReturningIsOK, QuietSteps
<1>3. CASE ~Exists(p)
  <2>1. /\ user' = [user EXCEPT ![p] = call[c].copy]
        /\ call' = [call EXCEPT ![c].pc = "assign"]
        /\ UNCHANGED <<userRole, hurt>>
    BY <1>3 DEF create, Goes
  <2>2. /\ OnlyItsCall(c) /\ call'[c].pc = "assign" /\ call'[c].who = p
        /\ DOMAIN call'[c] = DOMAIN Idle
        /\ call'[c].rest = call[c].rest /\ call'[c].edit = call[c].edit
    BY <1>1, <2>1, IdleIsOK DEF OnlyItsCall, CallsOK, CallOK
  <2>3. CallOK(c)'
    BY <1>1, <2>2 DEF CallOK
  <2>4. /\ DOMAIN user' = Persons /\ user'[p] = call[c].copy
        /\ \A q \in Persons : q # p => user'[q] = user[q]
    BY <1>1, <2>1 DEF Tables
  <2>5. IsAccount(user'[p])
    BY <1>1, <2>4 DEF CallOK
  <2>6. KeepsDeleted(c)
    BY <1>1, <1>3, <2>4 DEF KeepsDeleted
  <2>7. NewNeeds(c)
    BY <1>1, <2>1, <2>2, <2>4, UserNeeds DEF Assigns
  <2>8. p \in Whom(call[c])
    BY DEF Whom
  <2> HIDE DEF p
  <2> QED
    BY <1>1, <1>3, <2>1, <2>3, <2>2, <2>4, <2>5, <2>6, <2>7, <2>8, UserSteps
<1> QED
  BY <1>2, <1>3

LEMMA FindUserStep ==
    ASSUME Tables, CallsOK, NEW c \in Calls, findUser(c)
    PROVE  CallEffect(c)
PROOF
<1> DEFINE p == call[c].who
           copy == Edited(user[p], call[c].edit, call[c].role)
<1>1. call[c].pc = "find" /\ CallOK(c) /\ p \in Persons /\ UNCHANGED <<user, userRole, hurt>>
  BY DEF findUser, CallsOK, CallOK
<1>2. CASE findById(p) = None
  BY <1>1, <1>2, EditingOnIsOK, QuietSteps DEF findUser
<1>3. CASE findById(p) # None
  <2>1. Live(p) /\ findById(p) = user[p]
    BY <1>3 DEF findById
  <2>2. call' = [call EXCEPT ![c].pc = "read", ![c].copy = copy]
    BY <1>3, <2>1 DEF findUser
  <2>3. IsAccount(user[p]) /\ ~user[p].deletedAt
    BY <1>1, <2>1 DEF Live, Exists, Tables
  <2>4. /\ IsAccount(copy)
        /\ copy.deletedAt => "deletedAt" \in DOMAIN call[c].edit
    BY <1>1, <2>3 DEF Edited, CallOK, EditOK, Columns, Tables, IsAccount
  <2> HIDE DEF copy
  <2>5. /\ OnlyItsCall(c) /\ call'[c].pc = "read" /\ call'[c].copy = copy
        /\ DOMAIN call'[c] = DOMAIN Idle /\ call'[c].who = p
        /\ call'[c].rest = call[c].rest /\ call'[c].edit = call[c].edit
    BY <1>1, <2>2, IdleIsOK DEF OnlyItsCall, CallsOK, CallOK
  <2>6. CallOK(c)'
    BY <1>1, <2>3, <2>4, <2>5 DEF CallOK
  <2> QED
    BY <1>1, <2>5, <2>6, QuietSteps
<1> QED
  BY <1>2, <1>3

LEMMA ReadUserStep ==
    ASSUME Tables, CallsOK, NEW c \in Calls, readUser(c)
    PROVE  CallEffect(c)
PROOF
<1> DEFINE p == call[c].copy.id
           cols == IF Exists(p) THEN Differing(call[c].copy, user[p]) ELSE Columns
<1>1. call[c].pc = "read" /\ CallOK(c) /\ UNCHANGED <<user, userRole, hurt>>
  BY DEF readUser, CallsOK
<1>2. call' = [call EXCEPT ![c].pc = "write", ![c].cols = cols]
  BY DEF readUser
<1> HIDE DEF cols
<1>3. /\ OnlyItsCall(c) /\ call'[c].pc = "write" /\ call'[c].copy = call[c].copy
      /\ DOMAIN call'[c] = DOMAIN Idle /\ call'[c].who = call[c].who
      /\ call'[c].rest = call[c].rest /\ call'[c].edit = call[c].edit
  BY <1>1, <1>2, IdleIsOK DEF OnlyItsCall, CallsOK, CallOK
<1>4. CallOK(c)'
  BY <1>1, <1>3 DEF CallOK
<1> QED
  BY <1>1, <1>3, <1>4, QuietSteps

\* What save leaves of a row.
LEMMA WrittenRow ==
    ASSUME NEW row, NEW copy, NEW cols, row # None
    PROVE  /\ DOMAIN Written(row, copy, cols) = DOMAIN row
           /\ \A col \in DOMAIN row :
                Written(row, copy, cols)[col] = IF col \in cols THEN copy[col] ELSE row[col]
PROOF BY DEF Written

LEMMA SaveUserStep ==
    ASSUME Tables, CallsOK, NEW c \in Calls, saveUser(c)
    PROVE  CallEffect(c)
PROOF
<1> DEFINE p == call[c].copy.id
           inserts == "id" \in call[c].cols
           ps == IF inserts /\ ~Exists(p) THEN {p} ELSE {}
           written == IF inserts THEN call[c].copy
                                 ELSE Written(user[p], call[c].copy, call[c].cols)
<1>1. /\ call[c].pc = "write" /\ CallOK(c) /\ p \in Persons /\ IsAccount(call[c].copy)
      /\ UNCHANGED userRole /\ StillHurt(ps)
  BY DEF saveUser, CallsOK, CallOK, IsAccount
<1>2. CASE inserts /\ Exists(p)
  <2>1. Returns(c) /\ UNCHANGED user
    BY <1>2 DEF saveUser
  <2> HIDE DEF ps
  <2> QED
    BY <1>1, <2>1, ReturningIsOK, RoleSteps DEF Tables, CallOK
<1>3. CASE ~(inserts /\ Exists(p))
  <2>1. user' = [user EXCEPT ![p] = written]
    BY <1>3 DEF saveUser
  <2>2. OnlyItsCall(c) /\ CallOK(c)'
    <3>1. CASE call[c].role = Keep
      BY <1>3, <3>1, EditingOnIsOK DEF saveUser
    <3>2. CASE call[c].role # Keep
      <4>1. call' = [call EXCEPT ![c].pc = "role"]
        BY <1>3, <3>2 DEF saveUser, Goes
      <4>2. /\ OnlyItsCall(c) /\ call'[c].pc = "role"
            /\ DOMAIN call'[c] = DOMAIN Idle /\ call'[c].who = call[c].who
            /\ call'[c].rest = call[c].rest /\ call'[c].edit = call[c].edit
        BY <1>1, <4>1, IdleIsOK DEF OnlyItsCall, CallsOK, CallOK
      <4> QED
        BY <1>1, <4>2 DEF CallOK
    <3> QED
      BY <3>1, <3>2
  <2>3. written = None \/ IsAccount(written)
    BY <1>1, WrittenRow DEF Tables, Written, IsAccount, Columns
  <2>4. Exists(p) => IsAccount(written)
    BY <1>1, WrittenRow DEF Tables, Exists, IsAccount, Columns
  <2>5. ~Exists(p) => p \in ps \/ written = None
    BY DEF Exists, Written
  <2> HIDE DEF written, ps
  <2>6. /\ DOMAIN user' = Persons /\ user'[p] = written
        /\ \A q \in Persons : q # p => user'[q] = user[q]
    BY <1>1, <2>1 DEF Tables
  <2>7. KeepsDeleted(c)
    BY <1>1, <2>6 DEF KeepsDeleted
  <2>8. Exists(p) => written # None
    BY <2>4, NoneHasNoColumns DEF IsAccount
  <2>9. NewNeeds(c)
    <3>1. ASSUME NEW q \in Persons, Needs(q)'
          PROVE  Needs(q)
      <4>1. q \notin hurt /\ q \notin ps
        BY <1>1, <3>1 DEF Needs, StillHurt, Given
      <4>2. Exists(q)
        BY <2>5, <2>6, <3>1, <4>1 DEF Needs, Exists
      <4> QED
        BY <1>1, <3>1, <4>1, <4>2 DEF Needs
    <3> QED
      BY <1>1, <3>1 DEF NewNeeds, Assigns
  <2>10. p \in Whom(call[c])
    <3>1. call[c].copy # None
      BY <1>1, NoneHasNoColumns DEF IsAccount
    <3> QED
      BY <3>1 DEF Whom
  <2> HIDE DEF p
  <2> QED
    BY <1>1, <2>2, <2>3, <2>6, <2>7, <2>8, <2>9, <2>10, UserSteps
<1> QED
  BY <1>2, <1>3

LEMMA SoftDeleteStep ==
    ASSUME Tables, CallsOK, NEW c \in Calls, softDelete(c)
    PROVE  CallEffect(c)
PROOF
<1> DEFINE p == call[c].who
<1>1. /\ call[c].pc = "delete" /\ CallOK(c) /\ p \in Persons /\ Exists(p)
      /\ UNCHANGED <<userRole, hurt>> /\ IsAccount(user[p])
  BY DEF softDelete, CallsOK, CallOK, Tables, Exists
<1>2. user' = [user EXCEPT ![p].deletedAt = TRUE, ![p].isActive = FALSE]
  BY DEF softDelete
<1>3. OnlyItsCall(c) /\ CallOK(c)'
  BY ReturningIsOK DEF softDelete
<1>4. /\ DOMAIN user' = Persons
      /\ \A q \in Persons : q # p => user'[q] = user[q]
      /\ user'[p] = [user[p] EXCEPT !.deletedAt = TRUE, !.isActive = FALSE]
  BY <1>1, <1>2 DEF Tables
<1>5. /\ IsAccount(user'[p])
      /\ user'[p].deletedAt = TRUE /\ user'[p].isActive = FALSE
  BY <1>1, <1>4 DEF Columns, IsAccount
<1>6. KeepsDeleted(c)
  BY <1>4, <1>5 DEF KeepsDeleted
<1>7. user'[p] # None
  BY <1>5, NoneHasNoColumns DEF IsAccount
<1>8. NewNeeds(c)
  BY <1>1, <1>4, UserNeeds
<1>9. p \in Whom(call[c])
  BY DEF Whom
<1> HIDE DEF p
<1> QED
  BY <1>1, <1>3, <1>4, <1>5, <1>6, <1>7, <1>8, <1>9, UserSteps

LEMMA AssignRoleStep ==
    ASSUME Tables, CallsOK, NEW c \in Calls, assignRole(c)
    PROVE  CallEffect(c)
PROOF
<1> DEFINE p == call[c].who
           row == RoleRow(Head(call[c].todo), call[c].copy.provinceId)
<1>1. /\ call[c].pc = "assign" /\ CallOK(c) /\ p \in Persons
      /\ UNCHANGED user /\ StillHurt({}) /\ RowSeq(userRole[p])
  BY DEF assignRole, CallsOK, CallOK, Tables
<1>2. userRole' = [userRole EXCEPT ![p] = Append(userRole[p], row)]
  BY DEF assignRole
<1>3. OnlyItsCall(c) /\ CallOK(c)'
  <2>1. CASE Len(call[c].todo) = 1
    BY <2>1, ReturningIsOK DEF assignRole
  <2>2. CASE Len(call[c].todo) # 1
    <3>1. call' = [call EXCEPT ![c].todo = Tail(call[c].todo)]
      BY <2>2 DEF assignRole
    <3>2. /\ OnlyItsCall(c) /\ call'[c].pc = "assign"
          /\ DOMAIN call'[c] = DOMAIN Idle /\ call'[c].who = call[c].who
          /\ call'[c].rest = call[c].rest /\ call'[c].edit = call[c].edit
      BY <1>1, <3>1, IdleIsOK DEF OnlyItsCall, CallsOK, CallOK
    <3> QED
      BY <1>1, <3>2 DEF CallOK
  <2> QED
    BY <2>1, <2>2
<1>4. IsRoleRow(row) /\ row # None
  BY RoleRowIsOne
<1> HIDE DEF row
<1>5. RowSeq(Append(userRole[p], row)) /\ Given(Append(userRole[p], row)) # {}
  BY <1>1, <1>4, AppendGives
<1>6. /\ DOMAIN userRole' = Persons /\ userRole'[p] = Append(userRole[p], row)
      /\ \A q \in Persons : q # p => userRole'[q] = userRole[q]
  BY <1>1, <1>2 DEF Tables
<1> QED
  BY <1>1, <1>3, <1>5, <1>6, RoleSteps

LEMMA FindRoleStep ==
    ASSUME Tables, CallsOK, NEW c \in Calls, findRole(c)
    PROVE  CallEffect(c)
PROOF
<1> DEFINE p == call[c].who
           row == RoleRow(call[c].role, call[c].copy.provinceId)
<1>1. /\ call[c].pc = "role" /\ CallOK(c) /\ p \in Persons
      /\ UNCHANGED user /\ StillHurt({}) /\ RowSeq(userRole[p]) /\ DOMAIN userRole = Persons
  BY DEF findRole, CallsOK, CallOK, Tables
<1>2. IsRoleRow(row) /\ row # None
  BY RoleRowIsOne
<1>3. ASSUME userRole' = [userRole EXCEPT ![p] = Append(userRole[p], row)],
             EditNext(c, call[c].rest)
      PROVE  CallEffect(c)
  <2> HIDE DEF row
  <2>1. RowSeq(Append(userRole[p], row)) /\ Given(Append(userRole[p], row)) # {}
    BY <1>1, <1>2, AppendGives
  <2>2. /\ DOMAIN userRole' = Persons /\ userRole'[p] = Append(userRole[p], row)
        /\ \A q \in Persons : q # p => userRole'[q] = userRole[q]
    BY <1>1, <1>3
  <2> QED
    BY <1>1, <1>3, <2>1, <2>2, EditingOnIsOK, RoleSteps
<1>4. ASSUME UNCHANGED userRole, OnlyItsCall(c), CallOK(c)'
      PROVE  CallEffect(c)
  BY <1>1, <1>4, RoleSteps
<1>5. ASSUME NEW i, call' = [call EXCEPT ![c].pc = "readRole", ![c].id = i, ![c].row = row]
      PROVE  OnlyItsCall(c) /\ CallOK(c)'
  <2> HIDE DEF row
  <2>1. /\ OnlyItsCall(c) /\ call'[c].pc = "readRole" /\ call'[c].row = row
        /\ DOMAIN call'[c] = DOMAIN Idle /\ call'[c].who = call[c].who
        /\ call'[c].rest = call[c].rest /\ call'[c].edit = call[c].edit
    BY <1>1, <1>5, IdleIsOK DEF OnlyItsCall, CallsOK, CallOK
  <2> QED
    BY <1>1, <1>2, <2>1 DEF CallOK
<1> QED
  BY <1>3, <1>4, <1>5, EditingOnIsOK DEF findRole

\* One row is put in place of another, or of none.
LEMMA PutRow ==
    ASSUME NEW s, RowSeq(s), NEW i, NEW t, NEW row, t = [s EXCEPT ![i] = row],
           IsRoleRow(row) \/ (row = None /\ (i \in DOMAIN s => s[i] = None))
    PROVE  RowSeq(t) /\ (Given(s) # {} => Given(t) # {})
PROOF
<1>1. t = [j \in DOMAIN s |-> t[j]] /\ DOMAIN t = DOMAIN s
  OBVIOUS
<1>2. \A j \in DOMAIN s : t[j] = IF j = i THEN row ELSE s[j]
  OBVIOUS
<1>3. \A j \in DOMAIN s : t[j] = None \/ IsRoleRow(t[j])
  BY <1>2 DEF RowSeq, Given
<1>4. RowSeq(t)
  BY <1>1, <1>3, OverwriteKeepsRows
<1>5. row # None \/ (i \in DOMAIN s => s[i] = None)
  BY NoneHasNoColumns DEF IsRoleRow
<1>6. Given(s) \subseteq Given(t)
  BY <1>1, <1>2, <1>5 DEF Given
<1> QED
  BY <1>4, <1>6

LEMMA ReadRoleStep ==
    ASSUME Tables, CallsOK, NEW c \in Calls, readRole(c)
    PROVE  CallEffect(c)
PROOF
<1> DEFINE p == call[c].who
           i == call[c].id
           row == call[c].row
<1>1. /\ call[c].pc = "readRole" /\ CallOK(c) /\ p \in Persons /\ IsRoleRow(row)
      /\ UNCHANGED user /\ StillHurt({}) /\ RowSeq(userRole[p]) /\ DOMAIN userRole = Persons
  BY DEF readRole, CallsOK, CallOK, Tables
<1>2. CASE userRole[p][i] = None
  <2>1. userRole' = [userRole EXCEPT ![p][i] = row] /\ EditNext(c, call[c].rest)
    BY <1>2 DEF readRole
  <2> HIDE DEF row, i
  <2>2. /\ DOMAIN userRole' = Persons /\ userRole'[p] = [userRole[p] EXCEPT ![i] = row]
        /\ \A q \in Persons : q # p => userRole'[q] = userRole[q]
    BY <1>1, <2>1
  <2> DEFINE old == userRole[p]
             new == userRole'[p]
  <2>3. RowSeq(new) /\ (Given(old) # {} => Given(new) # {})
    <3>1. RowSeq(old) /\ new = [old EXCEPT ![i] = row] /\ IsRoleRow(row)
      BY <1>1, <2>2
    <3> HIDE DEF old, new
    <3> QED
      BY <3>1, PutRow
  <2> QED
    BY <1>1, <2>1, <2>2, <2>3, EditingOnIsOK, RoleSteps
<1>3. CASE userRole[p][i] # None
  <2>1. /\ call' = [call EXCEPT ![c].pc = "writeRole",
                                ![c].cols = Differing(call[c].row, userRole[p][i])]
        /\ UNCHANGED userRole
    BY <1>3 DEF readRole
  <2>2. /\ OnlyItsCall(c) /\ call'[c].pc = "writeRole"
        /\ DOMAIN call'[c] = DOMAIN Idle /\ call'[c].who = call[c].who
        /\ call'[c].rest = call[c].rest /\ call'[c].edit = call[c].edit
    BY <1>1, <2>1, IdleIsOK DEF OnlyItsCall, CallsOK, CallOK
  <2>3. CallOK(c)'
    BY <1>1, <2>2 DEF CallOK
  <2> QED
    BY <1>1, <2>1, <2>2, <2>3, RoleSteps DEF Tables
<1> QED
  BY <1>2, <1>3

LEMMA SaveRoleStep ==
    ASSUME Tables, CallsOK, NEW c \in Calls, saveRole(c)
    PROVE  CallEffect(c)
PROOF
<1> DEFINE p == call[c].who
           i == call[c].id
           row == Written(userRole[p][i], call[c].row, call[c].cols)
<1>1. /\ call[c].pc = "writeRole" /\ p \in Persons
      /\ UNCHANGED user /\ StillHurt({}) /\ RowSeq(userRole[p]) /\ DOMAIN userRole = Persons
      /\ EditNext(c, call[c].rest)
  BY DEF saveRole, CallsOK, CallOK, Tables
<1>2. userRole' = [userRole EXCEPT ![p][i] = row]
  BY DEF saveRole
<1>3. userRole[p][i] = None => row = None
  BY DEF Written
<1>4. userRole[p][i] # None => DOMAIN row = DOMAIN userRole[p][i]
  BY WrittenRow
<1> HIDE DEF row, i
<1>5. /\ DOMAIN userRole' = Persons /\ userRole'[p] = [userRole[p] EXCEPT ![i] = row]
      /\ \A q \in Persons : q # p => userRole'[q] = userRole[q]
  BY <1>1, <1>2
<1> DEFINE old == userRole[p]
           new == userRole'[p]
<1>6. RowSeq(old) /\ new = [old EXCEPT ![i] = row]
  BY <1>1, <1>5
<1>7. i \in DOMAIN old => IsRoleRow(row) \/ (row = None /\ old[i] = None)
  BY <1>1, <1>3, <1>4 DEF RowSeq, Given, IsRoleRow
<1>8. RowSeq(new) /\ (Given(old) # {} => Given(new) # {})
  <2> HIDE DEF old, new
  <2>1. CASE i \notin DOMAIN old
    <3>1. new = [old EXCEPT ![i] = None]
      BY <1>6, <2>1
    <3> QED
      BY <1>6, <2>1, <3>1, PutRow
  <2>2. CASE i \in DOMAIN old
    BY <1>6, <1>7, <2>2, PutRow
  <2> QED
    BY <2>1, <2>2
<1> QED
  BY <1>1, <1>5, <1>8, EditingOnIsOK, RoleSteps

LEMMA CallDiesStep ==
    ASSUME Tables, CallsOK, NEW c \in Calls, CallDies(c)
    PROVE  CallEffect(c)
PROOF
<1>1. /\ UNCHANGED <<user, userRole>> /\ StillHurt({call[c].who}) /\ Returns(c)
      /\ call[c].who \in Persons
  BY DEF CallDies, CallsOK, CallOK
<1>2. call[c].pc # "idle"
  BY DEF CallDies, CallsOK, CallOK
<1> QED
  BY <1>1, <1>2, ReturningIsOK, RoleSteps DEF Tables

\* Every step of a call, whatever it is.
LEMMA CallStep ==
    ASSUME Tables, CallsOK, NEW c \in Calls, CallStarts(c) \/ CallGoesOn(c)
    PROVE  CallEffect(c)
PROOF
<1>1. CASE CallStarts(c)
  <2>1. UNCHANGED <<user, userRole, hurt>>
    BY <1>1 DEF CallStarts, register, adminRegister, updateProfile, update, bulkUpdate, delete,
                Edit
  <2> QED
    BY <1>1, <2>1, StartingIsOK
<1>2. CASE CallGoesOn(c)
  BY <1>2, CreateStep, AssignRoleStep, FindUserStep, ReadUserStep, SaveUserStep, FindRoleStep,
     ReadRoleStep, SaveRoleStep, SoftDeleteStep, CallDiesStep DEF CallGoesOn
<1> QED
  BY <1>1, <1>2

-----------------------------------------------------------------------------
(* The seeder and the scripts.                                             *)

SeederOK ==
    /\ DOMAIN seeder = DOMAIN NotSeeding /\ seeder.at \in Nat
    /\ seeder.at = 0 => seeder = NotSeeding
    /\ seeder.pc \in {"read", "write"} => IsAccount(seeder.copy)

ScriptOK ==
    /\ script \in [pc : {"idle", "grant", "wipe", "remake"}, todo : SUBSET Persons]
    /\ script.pc = "idle" => script = NoScript
    /\ script.pc # "idle" => script.todo # {}
    /\ script # NoScript => Quiet

\* What the three theorems rest on: everything has its form, and scripts work alone.
Shape == Tables /\ CallsOK /\ SeederOK /\ ScriptOK /\ catalog \subseteq CatalogRows

\* Who has no role, though nothing died over it, is about to get one.
RowsThere(p) == Row("province", SeedProvince[p]) /\ Row("role", SeedRole[p])
SeederGives(p) ==
    /\ Seeds("admin") /\ Item[2] = p /\ RowsThere(p)
    /\ seeder.pc \in {"role", "delete", "insert"}
ScriptGives(p) ==
    \/ script.pc = "wipe" /\ p \in script.todo
    \/ script.pc = "grant" /\ p = Makes
RolesComing ==
    /\ \A p \in Persons :
          Needs(p) => (\E c \in Calls : Assigns(c, p)) \/ SeederGives(p) \/ ScriptGives(p)
    /\ Seeds("admin") /\ seeder.pc \in {"delete", "insert"} => RowsThere(Item[2])

\* What a seed run has done so far, for the accounts no call has held since.
InPlace(p) == Exists(p) /\ user[p].provinceId = SeedProvince[p] /\ HasSeedRow(p)
Watched == seeder.at # 0 => \A c \in Calls : call[c].pc # "idle" => Whom(call[c]) \subseteq touched
Behind ==
    \A i \in DOMAIN Plan : i < seeder.at =>
        /\ Plan[i][1] # "admin" => Plan[i] \in catalog
        /\ Plan[i][1] = "admin" /\ Plan[i][2] \notin touched /\ RowsThere(Plan[i][2]) =>
              InPlace(Plan[i][2])
InHand(p) ==
    /\ seeder.pc # "row" => Exists(p)
    /\ seeder.pc \in {"read", "write"} => seeder.copy.provinceId = SeedProvince[p]
    /\ seeder.pc \in {"delete", "insert"} => RowsThere(p)
    /\ p \notin touched /\ RowsThere(p) =>
          /\ seeder.pc = "write" /\ "provinceId" \notin seeder.cols =>
                user[p].provinceId = SeedProvince[p]
          /\ seeder.pc \in {"role", "delete", "insert"} => user[p].provinceId = SeedProvince[p]
          /\ seeder.pc \in {"delete", "insert"} =>
                \A i \in DOMAIN Plan : i < seeder.at => Plan[i] # <<"admin", p>>
Progress == Watched /\ Behind /\ (Seeds("admin") => InHand(Item[2]))

LEMMA PlanFacts ==
    /\ Len(Plan) \in Nat /\ DOMAIN Plan = 1..Len(Plan)
    /\ \A i \in DOMAIN Plan : Plan[i] = <<Plan[i][1], Plan[i][2]>> /\ Plan[i] \in PlanRows
PROOF
<1> DEFINE S == {<<Plan[i][1], Plan[i][2]>> : i \in DOMAIN Plan}
<1>1. Plan \in Seq(S)
  BY SeedingAssumption
<1>2. \A row \in S : row = <<row[1], row[2]>>
  OBVIOUS
<1> HIDE DEF S
<1>3. Len(Plan) \in Nat /\ DOMAIN Plan = 1..Len(Plan)
  BY <1>1
<1>4. \A i \in DOMAIN Plan : Plan[i] \in S
  BY <1>1, <1>3
<1> QED
  BY <1>2, <1>3, <1>4 DEF PlanRows

LEMMA SeederAlone ==
    ASSUME Shape, seeder.at # 0
    PROVE  script = NoScript
PROOF BY DEF Shape, SeederOK, ScriptOK, Quiet, NotSeeding

LEMMA SameCalls ==
    ASSUME CallsOK, UNCHANGED call, Survive
    PROVE  CallsOK'
PROOF BY DEF CallsOK, CallOK, Survive, Exists

LEMMA IdleCalls ==
    ASSUME CallsOK, UNCHANGED call, \A c \in Calls : call[c] = Idle
    PROVE  CallsOK'
PROOF BY IdleIsOK DEF CallsOK, CallOK

LEMMA SameTables ==
    ASSUME Tables, UNCHANGED <<user, userRole>>
    PROVE  Tables' /\ Survive
PROOF BY DEF Tables, Survive, Exists

\* A step of the seeder, of which the rest takes no notice.
LEMMA SeederKeepsShape ==
    ASSUME Shape, seeder.at # 0 \/ script = NoScript, UNCHANGED <<call, script>>,
           Tables', SeederOK', Survive, catalog' \subseteq CatalogRows
    PROVE  Shape'
PROOF
<1>1. script = NoScript
  BY SeederAlone
<1>2. ScriptOK'
  BY <1>1 DEF ScriptOK, NoScript
<1>3. CallsOK'
  BY SameCalls DEF Shape
<1> QED
  BY <1>2, <1>3 DEF Shape

LEMMA NextRowIsOK ==
    ASSUME Shape, Next2Seed
    PROVE  SeederOK' /\ seeder'.at = seeder.at + 1 /\ seeder'.pc = "row"
PROOF
<1>1. seeder.at \in Nat
  BY DEF Shape, SeederOK
<1> QED
  BY <1>1 DEF Next2Seed, NotSeeding, SeederOK

LEMMA StopsSeedingIsOK ==
    ASSUME seeder' = NotSeeding
    PROVE  SeederOK' /\ seeder'.at = 0
PROOF BY DEF NotSeeding, SeederOK

LEMMA SeedsFacts ==
    ASSUME Shape, NEW table, Seeds(table)
    PROVE  /\ seeder.at \in DOMAIN Plan /\ seeder.at \in Nat /\ seeder.at # 0
           /\ Item \in PlanRows /\ Item[1] = table /\ Item = <<table, Item[2]>>
           /\ table = "admin" => Item[2] \in Admins /\ Item[2] \in Persons
PROOF BY PlanFacts, SeedingAssumption DEF Seeds, Item, Shape, SeederOK

LEMMA SeedRowKeepsShape ==
    ASSUME Shape, NEW table, table # "admin", SeedRow(table)
    PROVE  Shape'
PROOF
<1>1. Seeds(table) /\ Next2Seed /\ UNCHANGED <<user, userRole, call, script>>
  BY DEF SeedRow, accountVars
<1>2. Item \in CatalogRows /\ seeder.at # 0
  BY <1>1, SeedsFacts DEF CatalogRows
<1>3. catalog' \subseteq CatalogRows
  BY <1>2 DEF SeedRow, Shape
<1> QED
  BY <1>1, <1>2, <1>3, NextRowIsOK, SameTables, SeederKeepsShape DEF Shape

LEMMA SeedAdminKeepsShape ==
    ASSUME Shape,
           \/ seedAdminUser \/ seedAdminRead \/ seedAdminProvince \/ seedAdminRole
           \/ seedAdminDelete \/ seedAdminInsert
    PROVE  Shape' /\ Survive
PROOF
<1> DEFINE p == Item[2]
<1>1. Seeds("admin") /\ UNCHANGED <<call, script, catalog>>
  BY DEF seedAdminUser, seedAdminRead, seedAdminProvince, seedAdminRole, seedAdminDelete,
         seedAdminInsert, SeedsAdmin, accountVars
<1>2. seeder.at \in Nat /\ seeder.at # 0 /\ p \in Persons
  BY <1>1, SeedsFacts
<1>3. /\ DOMAIN user = Persons /\ DOMAIN userRole = Persons /\ RowSeq(userRole[p])
      /\ user[p] # None => IsAccount(user[p])
      /\ DOMAIN seeder = {"at", "pc", "copy", "cols"}
      /\ seeder.pc \in {"read", "write"} => IsAccount(seeder.copy)
  BY <1>2 DEF Shape, Tables, SeederOK, NotSeeding
<1>4. ASSUME Tables', Survive, SeederOK'
      PROVE  Shape' /\ Survive
  BY <1>1, <1>2, <1>4, SeederKeepsShape DEF Shape
<1>5. CASE seedAdminUser
  <2>1. CASE Exists(p)
    <3>1. UNCHANGED <<user, userRole>> /\ seeder' = AfterFinding(p)
      BY <1>5, <2>1 DEF seedAdminUser
    <3>2. IsAccount([user[p] EXCEPT !.provinceId = SeedProvince[p]])
      BY <1>3, <2>1 DEF Exists, IsAccount, Columns
    <3>3. SeederOK'
      BY <1>2, <1>3, <3>1, <3>2 DEF AfterFinding, SeederOK, NotSeeding
    <3> QED
      BY <1>4, <3>1, <3>3, SameTables DEF Shape
  <2>2. CASE ~Exists(p) /\ Next2Seed /\ UNCHANGED user
    <3>1. UNCHANGED userRole
      BY <1>5 DEF seedAdminUser
    <3> QED
      BY <1>4, <2>2, <3>1, SameTables, NextRowIsOK DEF Shape
  <2>3. CASE /\ ~Exists(p)
             /\ user' = [user EXCEPT ![p] = Account(p, SeedProvince[p], FALSE)]
             /\ seeder' = [seeder EXCEPT !.pc = "role"]
    <3>1. IsAccount(Account(p, SeedProvince[p], FALSE))
      BY <1>2, AccountIsOne
    <3>2. UNCHANGED userRole
      BY <1>5 DEF seedAdminUser
    <3>3. Tables' /\ Survive
      BY <1>2, <1>3, <2>3, <3>1, <3>2 DEF Shape, Tables, Survive, Exists
    <3>4. SeederOK'
      BY <1>2, <1>3, <2>3 DEF SeederOK, NotSeeding
    <3> QED
      BY <1>4, <3>3, <3>4
  <2> QED
    BY <1>5, <2>1, <2>2, <2>3 DEF seedAdminUser
<1>6. CASE seedAdminRead
  <2>1. UNCHANGED <<user, userRole>> /\ seeder.pc = "read"
    BY <1>6 DEF seedAdminRead, accountVars, SeedsAdmin
  <2>2. SeederOK'
    BY <1>2, <1>3, <1>6, <2>1 DEF seedAdminRead, SeederOK, NotSeeding
  <2> QED
    BY <1>4, <2>1, <2>2, SameTables DEF Shape
<1>7. CASE seedAdminProvince
  <2> DEFINE written == Written(user[p], seeder.copy, seeder.cols)
  <2>1. /\ user' = [user EXCEPT ![p] = written] /\ UNCHANGED userRole
        /\ seeder' = [NotSeeding EXCEPT !.at = seeder.at, !.pc = "role"]
    BY <1>7 DEF seedAdminProvince
  <2>2. IF user[p] = None THEN written = None ELSE IsAccount(written)
    BY <1>3, <1>7, WrittenRow DEF Written, IsAccount, Columns, seedAdminProvince, SeedsAdmin
  <2> HIDE DEF written
  <2>3. Tables'
    BY <1>2, <1>3, <2>1, <2>2 DEF Shape, Tables
  <2>4. Survive
    BY <1>2, <1>3, <2>1, <2>2, NoneHasNoColumns DEF Survive, Exists, IsAccount
  <2>5. SeederOK'
    BY <1>2, <2>1 DEF SeederOK, NotSeeding
  <2> QED
    BY <1>4, <2>3, <2>4, <2>5
<1>8. CASE seedAdminRole
  <2>1. UNCHANGED <<user, userRole>>
    BY <1>8 DEF seedAdminRole, accountVars
  <2>2. SeederOK'
    <3>1. CASE Next2Seed
      BY <3>1, NextRowIsOK
    <3>2. CASE seeder' = [seeder EXCEPT !.pc = "delete"]
      BY <1>2, <1>3, <3>2 DEF SeederOK, NotSeeding
    <3> QED
      BY <1>8, <3>1, <3>2 DEF seedAdminRole
  <2> QED
    BY <1>4, <2>1, <2>2, SameTables DEF Shape
<1>9. CASE seedAdminDelete
  <2> DEFINE old == userRole[p]
             new == [i \in DOMAIN old |-> IF i \in RowsWith(p, {SeedRole[p]}) THEN None ELSE old[i]]
  <2>1. userRole' = [userRole EXCEPT ![p] = new] /\ UNCHANGED user
    BY <1>9 DEF seedAdminDelete
  <2>2. RowSeq(old)
    BY <1>3
  <2>3. new = [i \in DOMAIN old |-> new[i]]
    OBVIOUS
  <2>4. \A i \in DOMAIN old : new[i] = None \/ IsRoleRow(new[i])
    BY <2>2 DEF RowSeq, Given
  <2> HIDE DEF old, new
  <2>5. RowSeq(new)
    BY <2>2, <2>3, <2>4, OverwriteKeepsRows
  <2>6. Tables' /\ Survive
    BY <1>2, <1>3, <2>1, <2>5 DEF Shape, Tables, Survive, Exists
  <2>7. SeederOK'
    BY <1>2, <1>3, <1>9 DEF seedAdminDelete, SeederOK, NotSeeding
  <2> QED
    BY <1>4, <2>6, <2>7
<1>10. CASE seedAdminInsert
  <2> DEFINE row == RoleRow(SeedRole[p], SeedProvince[p])
  <2>1. /\ userRole' = [userRole EXCEPT ![p] = Append(userRole[p], row)] /\ UNCHANGED user
        /\ Next2Seed
    BY <1>10 DEF seedAdminInsert
  <2>2. IsRoleRow(row) /\ row # None
    BY RoleRowIsOne
  <2> HIDE DEF row
  <2>3. RowSeq(Append(userRole[p], row))
    BY <1>3, <2>2, AppendGives
  <2>4. Tables' /\ Survive
    BY <1>2, <1>3, <2>1, <2>3 DEF Shape, Tables, Survive, Exists
  <2> QED
    BY <1>4, <2>1, <2>4, NextRowIsOK
<1> QED
  BY <1>5, <1>6, <1>7, <1>8, <1>9, <1>10

\* A step of a script: all calls are idle, and the seeder does not run.
LEMMA ScriptKeepsShape ==
    ASSUME Shape, Quiet, UNCHANGED <<call, seeder, catalog>>, Tables',
           script' = NoScript \/ \E todo \in SUBSET Persons : todo # {} /\
              (ScriptGoes("wipe", todo) \/ ScriptGoes("grant", todo) \/ ScriptGoes("remake", todo))
    PROVE  Shape'
PROOF
<1>1. CallsOK'
  BY IdleCalls DEF Shape, Quiet
<1>2. Quiet'
  BY DEF Quiet
<1>3. ScriptOK'
  BY <1>2 DEF ScriptOK, NoScript, ScriptGoes
<1> QED
  BY <1>1, <1>3 DEF Shape, SeederOK

LEMMA ScriptFacts ==
    ASSUME Shape
    PROVE  /\ script.todo \in SUBSET Persons
           /\ script.pc # "idle" => script # NoScript /\ Quiet /\ script.todo # {}
           /\ script.pc \in {"grant", "remake"} => Makes \in script.todo /\ Makes \in Persons
           /\ Mocks \in SUBSET Persons /\ Mocks # {}
PROOF
<1>1. script.todo \in SUBSET Persons /\ Mocks \in SUBSET Persons /\ Mocks # {}
  BY SeedingAssumption, AccountsAssumption DEF Shape, ScriptOK
<1>2. script.pc # "idle" => script # NoScript /\ Quiet /\ script.todo # {}
  BY DEF Shape, ScriptOK, NoScript
<1>3. script.todo # {} => Makes \in script.todo
  BY DEF Makes
<1> QED
  BY <1>1, <1>2, <1>3 DEF Shape, ScriptOK

LEMMA ScriptStepKeepsShape ==
    ASSUME Shape,
           \/ mockUser \/ MakesNoRole \/ grantUser \/ resetRoles
           \/ resetToRealData \/ resetToMocks \/ remakeUser \/ ScriptDies
    PROVE  Shape'
PROOF
<1> USE ScriptFacts
<1>1. /\ DOMAIN user = Persons /\ DOMAIN userRole = Persons
      /\ \A p \in Persons : user[p] # None => IsAccount(user[p])
      /\ \A p \in Persons : RowSeq(userRole[p])
  BY DEF Shape, Tables
<1>2. \A p \in Persons : IsAccount(Account(p, MockProvince, FALSE))
  BY AccountIsOne
<1>3. CASE mockUser
  <2>1. PICK p \in Mocks : /\ user' = [user EXCEPT ![p] = Account(p, MockProvince, FALSE)]
                           /\ ScriptGoes("grant", {p})
    BY <1>3 DEF mockUser
  <2>2. Quiet /\ UNCHANGED <<userRole, call, seeder, catalog>>
    BY <1>3 DEF mockUser
  <2>3. Tables'
    BY <1>1, <1>2, <2>1, <2>2 DEF Tables
  <2>4. {p} \in SUBSET Persons /\ {p} # {}
    OBVIOUS
  <2> QED
    BY <2>1, <2>2, <2>3, <2>4, ScriptKeepsShape
<1>4. CASE MakesNoRole
  <2>1. PICK p \in Mocks : user' = [user EXCEPT ![p] = Account(p, MockProvince, FALSE)]
    BY <1>4 DEF MakesNoRole
  <2>2. Quiet /\ UNCHANGED <<userRole, call, seeder, catalog, script>> /\ script = NoScript
    BY <1>4 DEF MakesNoRole
  <2>3. Tables'
    BY <1>1, <1>2, <2>1, <2>2 DEF Tables
  <2> QED
    BY <2>2, <2>3, ScriptKeepsShape
<1>5. CASE grantUser
  <2> DEFINE p == Makes
             row == RoleRow("USER", MockProvince)
             rest == script.todo \ {p}
  <2>1. script.pc = "grant" /\ UNCHANGED <<user, call, seeder, catalog>>
    BY <1>5 DEF grantUser
  <2>2. userRole' = [userRole EXCEPT ![p] = Append(userRole[p], row)]
    BY <1>5 DEF grantUser
  <2>3. IsRoleRow(row) /\ row # None
    BY RoleRowIsOne
  <2>4. p \in Persons /\ Quiet
    BY <2>1
  <2>5. script' = NoScript \/ (rest # {} /\ ScriptGoes("remake", rest))
    BY <1>5 DEF grantUser
  <2> HIDE DEF row, p
  <2>6. RowSeq(Append(userRole[p], row))
    BY <1>1, <2>3, <2>4, AppendGives
  <2>7. Tables'
    BY <1>1, <2>1, <2>2, <2>4, <2>6 DEF Tables
  <2>8. rest \in SUBSET Persons
    OBVIOUS
  <2> QED
    BY <2>1, <2>4, <2>5, <2>7, <2>8, ScriptKeepsShape
<1>6. CASE resetRoles
  <2>1. PICK old \in SUBSET Persons :
            /\ userRole' = [p \in Persons |-> IF p \in old THEN <<>> ELSE userRole[p]]
            /\ ScriptGoes("wipe", old) /\ old # {}
    BY <1>6 DEF resetRoles
  <2>2. Quiet /\ UNCHANGED <<user, call, seeder, catalog>>
    BY <1>6 DEF resetRoles
  <2>3. Tables'
    BY <1>1, <2>1, <2>2, NoRows DEF Tables
  <2> QED
    BY <2>1, <2>2, <2>3, ScriptKeepsShape
<1>7. ASSUME NEW old \in SUBSET Persons, NEW new \in SUBSET Persons, new # {},
             DeletesUsers(old, new)
      PROVE  Shape'
  <2>1. script.pc = "wipe" /\ UNCHANGED <<userRole, call, seeder, catalog>> /\ Quiet
    BY <1>7 DEF DeletesUsers
  <2>2. Tables'
    <3>1. CASE user' = [p \in Persons |-> IF p \in old THEN None ELSE user[p]]
      BY <1>1, <2>1, <3>1 DEF Tables
    <3>2. CASE UNCHANGED user
      BY <1>1, <2>1, <3>2 DEF Tables
    <3> QED
      BY <1>7, <3>1, <3>2 DEF DeletesUsers
  <2>3. script' = NoScript \/ ScriptGoes("remake", new)
    BY <1>7 DEF DeletesUsers
  <2> QED
    BY <1>7, <2>1, <2>2, <2>3, ScriptKeepsShape
<1>8. CASE resetToRealData
  <2>1. script.pc = "wipe"
    BY <1>8 DEF resetToRealData, DeletesUsers
  <2> QED
    BY <1>7, <1>8, <2>1 DEF resetToRealData
<1>9. CASE resetToMocks
  BY <1>7, <1>9 DEF resetToMocks
<1>10. CASE remakeUser
  <2>1. script.pc = "remake" /\ Quiet /\ UNCHANGED <<userRole, call, seeder, catalog>>
    BY <1>10 DEF remakeUser
  <2>2. Makes \in Persons /\ script.todo # {}
    BY <2>1
  <2>3. CASE script' = NoScript /\ UNCHANGED user
    BY <2>1, <2>3, SameTables, ScriptKeepsShape DEF Shape
  <2>4. CASE /\ user' = [user EXCEPT ![Makes] = Account(Makes, MockProvince, FALSE)]
             /\ ScriptGoes("grant", script.todo)
    <3>1. Tables'
      BY <1>1, <1>2, <2>1, <2>2, <2>4 DEF Tables
    <3> QED
      BY <2>1, <2>2, <2>4, <3>1, ScriptKeepsShape
  <2> QED
    BY <1>10, <2>3, <2>4 DEF remakeUser
<1>11. CASE ScriptDies
  <2>1. script # NoScript /\ UNCHANGED <<user, userRole, call, seeder, catalog>>
        /\ script' = NoScript
    BY <1>11 DEF ScriptDies
  <2>2. Quiet
    BY <2>1 DEF Shape, ScriptOK
  <2> QED
    BY <2>1, <2>2, SameTables, ScriptKeepsShape DEF Shape
<1> QED
  BY <1>3, <1>4, <1>5, <1>6, <1>8, <1>9, <1>10, <1>11

-----------------------------------------------------------------------------
(* Everything keeps its form.                                              *)

LEMMA ShapeInit == Init => Shape
PROOF
<1> SUFFICES ASSUME Init
             PROVE  Shape
  OBVIOUS
<1>1. \A p \in Persons : user[p] # None => IsAccount(user[p])
  BY SeedingAssumption DEF Init, IsAccount
<1>2. DOMAIN user = Persons
  BY SeedingAssumption DEF Init
<1>3. \A p \in Persons : RowSeq(userRole[p])
  <2> SUFFICES ASSUME NEW p \in Persons
               PROVE  RowSeq(userRole[p])
    OBVIOUS
  <2>1. userRole[p] = <<>> \/ userRole[p] = <<RoleRow(SeedRole[p], user[p].provinceId)>>
    BY DEF Init
  <2> QED
    BY <2>1, NoRows, OneRow
<1>4. CallsOK
  <2>1. DOMAIN call = Calls /\ \A c \in Calls : call[c] = Idle
    BY DEF Init
  <2>2. Idle.rest \in Seq(Persons) /\ EditOK(Idle.edit)
    BY IdleIsOK DEF EditOK
  <2>3. ASSUME NEW c \in Calls
        PROVE  CallOK(c)
    BY <2>1, <2>2, IdleIsOK DEF CallOK
  <2> QED
    BY <2>1, <2>3 DEF CallsOK
<1>5. SeederOK /\ ScriptOK
  BY DEF Init, SeederOK, ScriptOK, NotSeeding, NoScript
<1>6. DOMAIN userRole = Persons /\ catalog \subseteq CatalogRows
  BY DEF Init
<1> QED
  BY <1>1, <1>2, <1>3, <1>4, <1>5, <1>6 DEF Shape, Tables

\* What calls do while provinces and roles are there and no script is at work.
LEMMA ServedKeepsShape ==
    ASSUME Shape, NEW c \in Calls, CallStarts(c) \/ CallGoesOn(c), Served
    PROVE  Shape' /\ CallEffect(c)
PROOF
<1>1. CallEffect(c)
  BY CallStep DEF Shape
<1>2. script = NoScript /\ UNCHANGED <<catalog, seeder, script>>
  BY DEF Served
<1>3. SeederOK' /\ ScriptOK'
  BY <1>2 DEF Shape, SeederOK, ScriptOK, NoScript
<1> QED
  BY <1>1, <1>2, <1>3 DEF Shape, CallEffect

LEMMA SeedingKeepsShape ==
    ASSUME Shape, SeedStarts \/ SeedEnds \/ SeederDies
    PROVE  Shape'
PROOF
<1>1. UNCHANGED <<user, userRole, call, catalog, script>>
  BY DEF SeedStarts, SeedEnds, SeederDies, accountVars
<1>2. Tables' /\ Survive /\ catalog' \subseteq CatalogRows
  BY <1>1, SameTables DEF Shape
<1>3. CASE SeedStarts
  BY <1>1, <1>2, <1>3, NextRowIsOK, SeederKeepsShape DEF SeedStarts
<1>4. CASE SeedEnds \/ SeederDies
  <2>1. seeder.at # 0 /\ seeder' = NotSeeding
    BY <1>4, PlanFacts DEF SeedEnds, SeederDies
  <2> QED
    BY <1>1, <1>2, <2>1, StopsSeedingIsOK, SeederKeepsShape
<1> QED
  BY <1>3, <1>4

LEMMA ShapeStep ==
    ASSUME Shape, [Next]_vars
    PROVE  Shape'
PROOF
<1>1. CASE \E c \in Calls : (CallStarts(c) \/ CallGoesOn(c)) /\ Served
  BY <1>1, ServedKeepsShape
<1>2. CASE seedProvinces \/ seedRoles \/ seedTeamSpecializations \/ seedSettings \/ seedCategories
  BY <1>2, SeedRowKeepsShape
     DEF seedProvinces, seedRoles, seedTeamSpecializations, seedSettings, seedCategories
<1>3. CASE UNCHANGED vars
  <2>1. UNCHANGED <<user, userRole, call, catalog, seeder, script>>
    BY <1>3 DEF vars
  <2>2. Tables' /\ CallsOK'
    BY <2>1, SameTables, SameCalls DEF Shape
  <2> QED
    BY <2>1, <2>2 DEF Shape, SeederOK, ScriptOK, Quiet
<1> QED
  BY <1>1, <1>2, <1>3, SeedAdminKeepsShape, SeedingKeepsShape, ScriptStepKeepsShape
     DEF Next, runProvince2Seed, seedUsers, seedUsersByProvince

-----------------------------------------------------------------------------
(* The deleted stay away.                                                  *)

LEMMA DeletedStep ==
    ASSUME Shape, [Next]_vars, NEW p \in Persons,
           Exists(p), user[p].deletedAt, ~HeldAlive(p), script = NoScript
    PROVE  user'[p].deletedAt /\ (user'[p].isActive => user[p].isActive)
PROOF
<1>1. CASE \E c \in Calls : (CallStarts(c) \/ CallGoesOn(c)) /\ Served
  <2>1. PICK c \in Calls : (CallStarts(c) \/ CallGoesOn(c)) /\ Served
    BY <1>1
  <2>2. KeepsDeleted(c)
    BY <2>1, ServedKeepsShape DEF CallEffect
  <2>3. ~(call[c].pc = "write" /\ call[c].copy.id = p)
    BY DEF HeldAlive, Shape, CallsOK, CallOK
  <2> QED
    BY <2>2, <2>3 DEF KeepsDeleted
<1>2. CASE seedAdminUser
  <2>1. user'[p] = user[p]
    <3>1. CASE UNCHANGED user
      BY <3>1
    <3>2. CASE ~Exists(Item[2]) /\ \E row : user' = [user EXCEPT ![Item[2]] = row]
      <4>1. Item[2] # p
        BY <3>2
      <4> QED
        BY <3>2, <4>1 DEF Shape, Tables
    <3> QED
      BY <1>2, <3>1, <3>2 DEF seedAdminUser
  <2> QED
    BY <2>1
<1>3. CASE seedAdminProvince
  <2> DEFINE written == Written(user[Item[2]], seeder.copy, seeder.cols)
  <2>1. SeedsAdmin("write") /\ user' = [user EXCEPT ![Item[2]] = written]
    BY <1>3 DEF seedAdminProvince
  <2>2. CASE Item[2] # p
    <3> HIDE DEF written
    <3>1. user'[p] = user[p]
      BY <2>1, <2>2 DEF Shape, Tables
    <3> QED
      BY <3>1
  <2>3. CASE Item[2] = p
    <3>1. seeder.copy.deletedAt /\ ~seeder.copy.isActive
      BY <2>1, <2>3 DEF HeldAlive
    <3>2. DOMAIN user[p] = Columns /\ user[p] # None
      BY DEF Shape, Tables, Exists, IsAccount
    <3>3. \A col \in Columns :
            written[col] = IF col \in seeder.cols THEN seeder.copy[col] ELSE user[p][col]
      BY <2>3, <3>2, WrittenRow
    <3> HIDE DEF written
    <3>4. user'[p] = written
      BY <2>1, <2>3 DEF Shape, Tables
    <3>5. written.deletedAt = (IF "deletedAt" \in seeder.cols THEN seeder.copy.deletedAt
                                                              ELSE user[p].deletedAt)
      BY <3>3 DEF Columns
    <3>6. written.isActive = (IF "isActive" \in seeder.cols THEN seeder.copy.isActive
                                                            ELSE user[p].isActive)
      BY <3>3 DEF Columns
    <3>7. written.deletedAt
      BY <3>1, <3>5
    <3>8. written.isActive => user[p].isActive
      BY <3>1, <3>6
    <3> QED
      BY <3>4, <3>7, <3>8
  <2> QED
    BY <2>2, <2>3
<1>4. CASE mockUser \/ MakesNoRole
  <2>0. PICK q \in Mocks : ~Exists(q) /\ \E row : user' = [user EXCEPT ![q] = row]
    BY <1>4 DEF mockUser, MakesNoRole
  <2>1. PICK row : ~Exists(q) /\ user' = [user EXCEPT ![q] = row]
    BY <2>0
  <2>2. q # p
    BY <2>1
  <2>3. user'[p] = user[p]
    BY <2>1, <2>2 DEF Shape, Tables
  <2> QED
    BY <2>3
<1>5. CASE grantUser \/ resetToRealData \/ resetToMocks \/ remakeUser \/ ScriptDies
  BY <1>5 DEF grantUser, resetToRealData, resetToMocks, DeletesUsers, remakeUser, ScriptDies,
              NoScript
<1>6. CASE UNCHANGED user
  BY <1>6
<1> QED
  BY <1>1, <1>2, <1>3, <1>4, <1>5, <1>6
     DEF Next, vars, SeedStarts, seedProvinces, seedRoles, seedTeamSpecializations, seedSettings,
         seedCategories, SeedRow, SeedEnds, SeederDies, seedAdminRead, seedAdminRole,
         seedAdminDelete, seedAdminInsert, resetRoles, runProvince2Seed, seedUsers,
         seedUsersByProvince, accountVars

\* Everything keeps its form in every run of the program.
LEMMA ShapeHolds == Spec => []Shape
PROOF
<1>1. Init => Shape
  BY ShapeInit
<1>2. Shape /\ [Next]_vars => Shape'
  BY ShapeStep
<1> QED
  BY <1>1, <1>2, PTL DEF Spec

\* A deleted account stays deleted and locked whatever is done to it later, by calls, the
\* seeder and the scripts (user.repository.ts:145 writes whole copies back): the property
\* DeletedStaysAway, for any number of accounts and calls.
THEOREM DeletedAccountsStay == Spec => DeletedStaysAway
PROOF
<1>1. ASSUME Shape, [Next]_vars
      PROVE  [\A p \in Persons :
                Exists(p) /\ user[p].deletedAt /\ ~HeldAlive(p) /\ script = NoScript =>
                   user'[p].deletedAt /\ (user'[p].isActive => user[p].isActive)]_vars
  BY <1>1, DeletedStep
<1> QED
  BY <1>1, ShapeHolds, PTL DEF Spec, DeletedStaysAway

-----------------------------------------------------------------------------
(* Every account has a role.                                               *)

LEMMA NotHurt ==
    ASSUME NEW ps, StillHurt(ps), NEW p \in Persons, Needs(p)'
    PROVE  p \notin hurt /\ p \notin ps
PROOF BY DEF Needs, StillHurt, Given

\* Who needs a role while a script is at work needs it of the script.
LEMMA QuietNeeds ==
    ASSUME Shape, RolesComing, Quiet, NEW p \in Persons, Needs(p)
    PROVE  ScriptGives(p)
PROOF
<1>1. ~\E c \in Calls : Assigns(c, p)
  BY IdleIsOK DEF Quiet, Assigns
<1>2. seeder.at \notin DOMAIN Plan
  BY PlanFacts DEF Quiet, NotSeeding
<1> QED
  BY <1>1, <1>2 DEF RolesComing, SeederGives, Seeds

LEMMA CallsKeepComing ==
    ASSUME Shape, RolesComing, NEW c \in Calls, CallStarts(c) \/ CallGoesOn(c), Served
    PROVE  RolesComing'
PROOF
<1>1. CallEffect(c)
  BY ServedKeepsShape
<1>2. script = NoScript /\ UNCHANGED <<catalog, seeder, script>>
  BY DEF Served
<1>3. ASSUME NEW p \in Persons, Needs(p)'
      PROVE  (\E d \in Calls : Assigns(d, p)') \/ SeederGives(p)'
  <2>1. CASE Assigns(c, p)'
    BY <2>1
  <2>2. CASE Needs(p) /\ ~Assigns(c, p)
    <3>1. ~ScriptGives(p)
      BY <1>2 DEF ScriptGives, NoScript
    <3>2. CASE SeederGives(p)
      BY <1>2, <3>2 DEF SeederGives, Seeds, Item, RowsThere, Row
    <3>3. CASE \E d \in Calls : Assigns(d, p)
      <4>1. PICK d \in Calls : Assigns(d, p)
        BY <3>3
      <4>2. d # c
        BY <2>2, <4>1
      <4>3. Assigns(d, p)'
        BY <1>1, <4>1, <4>2 DEF CallEffect, OnlyItsCall, Assigns
      <4> QED
        BY <4>3
    <3> QED
      BY <2>2, <3>1, <3>2, <3>3 DEF RolesComing
  <2> QED
    BY <1>1, <1>3, <2>1, <2>2 DEF CallEffect, NewNeeds
<1>4. (Seeds("admin") /\ seeder.pc \in {"delete", "insert"} => RowsThere(Item[2]))'
  BY <1>2 DEF RolesComing, Seeds, Item, RowsThere, Row
<1> QED
  BY <1>3, <1>4 DEF RolesComing

\* A step of the seeder or of nobody that gives no account a new need.
LEMMA SeederKeepsComing ==
    ASSUME RolesComing, UNCHANGED <<call, script>>,
           \A p \in Persons : Needs(p)' => SeederGives(p)' \/ (Needs(p) /\ ~SeederGives(p)),
           (Seeds("admin") /\ seeder.pc \in {"delete", "insert"} => RowsThere(Item[2]))'
    PROVE  RolesComing'
PROOF
<1>1. ASSUME NEW p \in Persons, Needs(p)'
      PROVE  ((\E c \in Calls : Assigns(c, p)) \/ SeederGives(p) \/ ScriptGives(p))'
  <2>1. CASE SeederGives(p)'
    BY <2>1
  <2>2. CASE Needs(p) /\ ~SeederGives(p)
    <3>1. (\E c \in Calls : Assigns(c, p)) \/ ScriptGives(p)
      BY <2>2 DEF RolesComing
    <3> QED
      BY <3>1 DEF Assigns, ScriptGives, Makes
  <2> QED
    BY <1>1, <2>1, <2>2
<1> QED
  BY <1>1 DEF RolesComing

LEMMA SameNeeds ==
    ASSUME UNCHANGED <<user, userRole, hurt>>, NEW p \in Persons
    PROVE  Needs(p)' = Needs(p)
PROOF BY DEF Needs, Exists

LEMMA PlainSeedingKeepsComing ==
    ASSUME Shape, RolesComing,
           \/ SeedStarts \/ SeedEnds \/ SeederDies
           \/ \E table : table # "admin" /\ SeedRow(table)
    PROVE  RolesComing'
PROOF
<1> USE PlanFacts
<1>1. UNCHANGED <<user, userRole, call, script>>
  BY DEF SeedStarts, SeedEnds, SeederDies, SeedRow, accountVars
<1>2. seeder'.pc = "row"
  BY DEF SeedStarts, SeedEnds, SeederDies, SeedRow, Next2Seed, NotSeeding
<1>3. CASE ~SeederDies
  <2>1. ~Seeds("admin")
    BY <1>3 DEF SeedStarts, SeedEnds, SeedRow, Seeds, NotSeeding
  <2>2. UNCHANGED hurt
    BY <1>3 DEF SeedStarts, SeedEnds, SeedRow, accountVars
  <2>3. \A p \in Persons : Needs(p)' => Needs(p) /\ ~SeederGives(p)
    BY <1>1, <2>1, <2>2, SameNeeds DEF SeederGives
  <2> QED
    BY <1>1, <1>2, <2>3, SeederKeepsComing
<1>4. CASE SeederDies
  <2>1. PICK ps : StillHurt(ps) /\ (Item[1] = "admin" => Item[2] \in ps)
    BY <1>4 DEF SeederDies
  <2>2. ASSUME NEW p \in Persons, Needs(p)'
        PROVE  Needs(p) /\ ~SeederGives(p)
    <3>1. p \notin hurt /\ p \notin ps
      BY <2>1, <2>2, NotHurt
    <3>2. Needs(p)
      BY <1>1, <2>2, <3>1 DEF Needs, Exists
    <3> QED
      BY <2>1, <3>1, <3>2 DEF SeederGives, Seeds
  <2> QED
    BY <1>1, <1>2, <2>2, SeederKeepsComing
<1> QED
  BY <1>3, <1>4

LEMMA AdminSeedingKeepsComing ==
    ASSUME Shape, RolesComing,
           \/ seedAdminUser \/ seedAdminRead \/ seedAdminProvince \/ seedAdminRole
           \/ seedAdminDelete \/ seedAdminInsert
    PROVE  RolesComing'
PROOF
<1> DEFINE a == Item[2]
<1>1. Seeds("admin") /\ UNCHANGED <<call, script, catalog>>
  BY DEF seedAdminUser, seedAdminRead, seedAdminProvince, seedAdminRole, seedAdminDelete,
         seedAdminInsert, SeedsAdmin, accountVars
<1>2. /\ seeder.at \in Nat /\ a \in Persons
      /\ DOMAIN user = Persons /\ DOMAIN userRole = Persons /\ RowSeq(userRole[a])
      /\ DOMAIN seeder = {"at", "pc", "copy", "cols"}
  BY <1>1, SeedsFacts DEF Shape, Tables, SeederOK, NotSeeding
<1>3. seeder'.at = seeder.at => Seeds("admin")' /\ Item' = Item
  BY <1>1 DEF Seeds, Item
<1>4. \A p : RowsThere(p)' = RowsThere(p)
  BY <1>1 DEF RowsThere, Row
<1>5. CASE seedAdminUser
  <2>1. seeder.pc = "row" /\ UNCHANGED <<userRole, hurt>>
    BY <1>5 DEF seedAdminUser, SeedsAdmin
  <2>2. seeder'.pc \in {"row", "role", "read"}
    BY <1>2, <1>5, <2>1 DEF seedAdminUser, AfterFinding, Next2Seed, NotSeeding
  <2>3. \A p \in Persons : ~SeederGives(p)
    BY <2>1 DEF SeederGives
  <2>4. CASE UNCHANGED user
    <3>1. \A p \in Persons : Needs(p)' => Needs(p)
      BY <2>1, <2>4, SameNeeds
    <3> QED
      BY <1>1, <2>2, <2>3, <3>1, SeederKeepsComing
  <2>5. CASE /\ \E row : user' = [user EXCEPT ![a] = row]
             /\ RowsThere(a) /\ seeder' = [seeder EXCEPT !.pc = "role"]
    <3>1. seeder'.pc = "role" /\ Seeds("admin")' /\ Item' = Item
      BY <1>2, <1>3, <2>5
    <3>2. ASSUME NEW p \in Persons, p = a
          PROVE  SeederGives(p)'
      BY <1>4, <2>5, <3>1, <3>2 DEF SeederGives
    <3>3. ASSUME NEW p \in Persons, p # a, Needs(p)'
          PROVE  Needs(p)
      BY <1>2, <2>1, <2>5, <3>3 DEF Needs, Exists
    <3> QED
      BY <1>1, <2>2, <2>3, <3>2, <3>3, SeederKeepsComing
  <2> QED
    BY <1>5, <2>4, <2>5 DEF seedAdminUser, RowsThere
<1>6. CASE seedAdminRead \/ seedAdminProvince
  <2>1. seeder.pc \in {"read", "write"} /\ UNCHANGED <<userRole, hurt>>
    BY <1>6 DEF seedAdminRead, seedAdminProvince, SeedsAdmin, accountVars
  <2>2. seeder'.pc \in {"write", "role"}
    BY <1>2, <1>6 DEF seedAdminRead, seedAdminProvince, NotSeeding
  <2>3. \A p \in Persons : ~SeederGives(p)
    BY <2>1 DEF SeederGives
  <2>4. \A p \in Persons : user'[p] # None => Exists(p)
    <3>1. CASE UNCHANGED user
      BY <3>1 DEF Exists
    <3>2. CASE user' = [user EXCEPT ![a] = Written(@, seeder.copy, seeder.cols)]
      <4> DEFINE written == Written(user[a], seeder.copy, seeder.cols)
      <4>1. user[a] = None => written = None
        BY DEF Written
      <4>2. user' = [user EXCEPT ![a] = written]
        BY <3>2
      <4> HIDE DEF written
      <4> QED
        BY <1>2, <4>1, <4>2 DEF Exists
    <3> QED
      BY <1>6, <3>1, <3>2 DEF seedAdminRead, seedAdminProvince, accountVars
  <2>5. \A p \in Persons : Needs(p)' => Needs(p)
    BY <2>1, <2>4 DEF Needs, Exists
  <2> QED
    BY <1>1, <2>2, <2>3, <2>5, SeederKeepsComing
<1>7. CASE seedAdminRole
  <2>1. UNCHANGED <<user, userRole, hurt>>
    BY <1>7 DEF seedAdminRole, accountVars
  <2>2. \A p \in Persons : Needs(p)' => Needs(p)
    BY <2>1, SameNeeds
  <2>3. CASE Next2Seed /\ (HasSeedRow(a) \/ ~RowsThere(a))
    <3>1. seeder'.pc = "row"
      BY <2>3 DEF Next2Seed, NotSeeding
    <3>2. ASSUME NEW p \in Persons, SeederGives(p)
          PROVE  ~Needs(p)
      <4>1. p = a /\ HasSeedRow(a)
        BY <2>3, <3>2 DEF SeederGives
      <4> QED
        BY <4>1 DEF HasSeedRow, RoleRows, Needs, Given
    <3> QED
      BY <1>1, <2>2, <3>1, <3>2, SeederKeepsComing
  <2>4. CASE seeder' = [seeder EXCEPT !.pc = "delete"] /\ RowsThere(a)
    <3>1. seeder'.pc = "delete" /\ Seeds("admin")' /\ Item' = Item
      BY <1>2, <1>3, <2>4
    <3>2. ASSUME NEW p \in Persons, p = a
          PROVE  SeederGives(p)'
      BY <1>4, <2>4, <3>1, <3>2 DEF SeederGives
    <3>3. RowsThere(Item[2])'
      BY <1>4, <2>4, <3>1
    <3>4. \A p \in Persons : SeederGives(p) => p = a
      BY DEF SeederGives
    <3> QED
      BY <1>1, <2>2, <3>2, <3>3, <3>4, SeederKeepsComing
  <2> QED
    BY <1>7, <2>3, <2>4 DEF seedAdminRole, RowsThere
<1>8. CASE seedAdminDelete
  <2>1. /\ seeder.pc = "delete" /\ UNCHANGED <<user, hurt>>
        /\ seeder' = [seeder EXCEPT !.pc = "insert"]
        /\ \E row : userRole' = [userRole EXCEPT ![a] = row]
    BY <1>8 DEF seedAdminDelete, SeedsAdmin
  <2>2. seeder'.pc = "insert" /\ Seeds("admin")' /\ Item' = Item
    BY <1>2, <1>3, <2>1
  <2>3. RowsThere(a)
    BY <1>1, <2>1 DEF RolesComing
  <2>4. ASSUME NEW p \in Persons, p = a
        PROVE  SeederGives(p)'
    BY <1>4, <2>2, <2>3, <2>4 DEF SeederGives
  <2>5. ASSUME NEW p \in Persons, p # a, Needs(p)'
        PROVE  Needs(p) /\ ~SeederGives(p)
    BY <1>2, <2>1, <2>5 DEF Needs, Exists, SeederGives
  <2>6. RowsThere(Item[2])'
    BY <1>4, <2>2, <2>3
  <2> QED
    BY <1>1, <2>4, <2>5, <2>6, SeederKeepsComing
<1>9. CASE seedAdminInsert
  <2> DEFINE row == RoleRow(SeedRole[a], SeedProvince[a])
  <2>1. /\ userRole' = [userRole EXCEPT ![a] = Append(userRole[a], row)]
        /\ UNCHANGED user /\ Next2Seed /\ StillHurt({})
    BY <1>9 DEF seedAdminInsert
  <2>2. IsRoleRow(row) /\ row # None
    BY RoleRowIsOne
  <2> HIDE DEF row
  <2>3. Given(Append(userRole[a], row)) # {}
    BY <1>2, <2>2, AppendGives
  <2>4. seeder'.pc = "row"
    BY <2>1 DEF Next2Seed, NotSeeding
  <2>5. ASSUME NEW p \in Persons, Needs(p)'
        PROVE  Needs(p) /\ ~SeederGives(p)
    <3>1. p \notin hurt
      BY <2>1, <2>5, NotHurt
    <3>2. p # a
      BY <1>2, <2>1, <2>3, <2>5 DEF Needs
    <3> QED
      BY <1>2, <2>1, <2>5, <3>1, <3>2 DEF Needs, Exists, SeederGives
  <2> QED
    BY <1>1, <2>4, <2>5, SeederKeepsComing
<1> QED
  BY <1>5, <1>6, <1>7, <1>8, <1>9

\* A step of a script that gives no account a need it does not see to.
LEMMA ScriptKeepsComing ==
    ASSUME Quiet, UNCHANGED <<seeder, catalog>>,
           \A p \in Persons : Needs(p)' => ScriptGives(p)'
    PROVE  RolesComing'
PROOF BY PlanFacts DEF RolesComing, Quiet, Seeds, NotSeeding

LEMMA ScriptStepKeepsComing ==
    ASSUME Shape, RolesComing,
           \/ mockUser \/ MakesNoRole \/ grantUser \/ resetRoles
           \/ resetToRealData \/ resetToMocks \/ remakeUser \/ ScriptDies
    PROVE  RolesComing'
PROOF
<1> USE ScriptFacts, QuietNeeds
<1>1. DOMAIN user = Persons /\ DOMAIN userRole = Persons /\ \A p \in Persons : RowSeq(userRole[p])
  BY DEF Shape, Tables
<1>2. /\ Quiet /\ UNCHANGED <<call, seeder, catalog>>
  <2>1. UNCHANGED <<call, seeder, catalog>>
    BY DEF mockUser, MakesNoRole, grantUser, resetRoles, resetToRealData, resetToMocks,
           DeletesUsers, remakeUser, ScriptDies
  <2>2. script # NoScript => Quiet
    BY DEF Shape, ScriptOK
  <2>3. script.pc # "idle" => Quiet
    OBVIOUS
  <2> QED
    BY <2>1, <2>2, <2>3 DEF mockUser, MakesNoRole, grantUser, resetRoles, resetToRealData,
       resetToMocks, DeletesUsers, remakeUser, ScriptDies
<1>3. ASSUME script = NoScript, NEW p \in Persons
      PROVE  ~Needs(p)
  <2>1. ~ScriptGives(p)
    BY <1>3 DEF ScriptGives, NoScript
  <2> QED
    BY <1>2, <2>1
<1>4. CASE mockUser
  <2>1. PICK new \in Mocks : /\ \E row : user' = [user EXCEPT ![new] = row]
                             /\ ScriptGoes("grant", {new})
    BY <1>4 DEF mockUser
  <2>2. script = NoScript /\ UNCHANGED <<userRole, hurt>>
    BY <1>4 DEF mockUser
  <2>3. script'.pc = "grant" /\ script'.todo = {new}
    BY <2>1 DEF ScriptGoes
  <2>4. ASSUME NEW p \in Persons, Needs(p)'
        PROVE  ScriptGives(p)'
    <3>1. CASE p = new
      BY <2>3, <3>1 DEF ScriptGives, Makes
    <3>2. CASE p # new
      <4>1. Needs(p)
        BY <1>1, <2>1, <2>2, <2>4, <3>2 DEF Needs, Exists
      <4> QED
        BY <1>3, <2>2, <4>1
    <3> QED
      BY <3>1, <3>2
  <2> QED
    BY <1>2, <2>4, ScriptKeepsComing
<1>5. CASE MakesNoRole
  <2>1. PICK new \in Mocks : /\ \E row : user' = [user EXCEPT ![new] = row]
                             /\ UNCHANGED userRole /\ StillHurt({new})
    BY <1>5 DEF MakesNoRole
  <2>2. script = NoScript
    BY <1>5 DEF MakesNoRole
  <2>3. ASSUME NEW p \in Persons
        PROVE  ~Needs(p)'
    <3> SUFFICES ASSUME Needs(p)'
                 PROVE  Needs(p)
      BY <1>3, <2>2
    <3>1. p \notin hurt /\ p # new
      BY <2>1, NotHurt
    <3> QED
      BY <1>1, <2>1, <3>1 DEF Needs, Exists
  <2> QED
    BY <1>2, <2>3, ScriptKeepsComing
<1>6. CASE grantUser
  <2> DEFINE a == Makes
             row == RoleRow("USER", MockProvince)
  <2>1. /\ script.pc = "grant" /\ UNCHANGED user /\ StillHurt({})
        /\ userRole' = [userRole EXCEPT ![a] = Append(userRole[a], row)]
    BY <1>6 DEF grantUser
  <2>2. IsRoleRow(row) /\ row # None /\ a \in Persons
    BY <2>1, RoleRowIsOne
  <2>3. ScriptGives(a) /\ \A p : ScriptGives(p) => p = a
    BY <2>1 DEF ScriptGives
  <2> HIDE DEF row, a
  <2>4. Given(Append(userRole[a], row)) # {}
    BY <1>1, <2>2, AppendGives
  <2>5. ASSUME NEW p \in Persons
        PROVE  ~Needs(p)'
    <3> SUFFICES ASSUME Needs(p)'
                 PROVE  FALSE
      OBVIOUS
    <3>1. p \notin hurt
      BY <2>1, NotHurt
    <3>2. p # a
      BY <1>1, <2>1, <2>2, <2>4 DEF Needs
    <3>3. Needs(p)
      BY <1>1, <2>1, <2>2, <3>1, <3>2 DEF Needs, Exists
    <3> QED
      BY <1>2, <2>3, <3>2, <3>3
  <2> QED
    BY <1>2, <2>5, ScriptKeepsComing
<1>7. CASE resetRoles
  <2>1. PICK old \in SUBSET Persons :
            /\ userRole' = [p \in Persons |-> IF p \in old THEN <<>> ELSE userRole[p]]
            /\ ScriptGoes("wipe", old)
    BY <1>7 DEF resetRoles
  <2>2. script = NoScript /\ UNCHANGED <<user, hurt>>
    BY <1>7 DEF resetRoles
  <2>3. script'.pc = "wipe" /\ script'.todo = old
    BY <2>1 DEF ScriptGoes
  <2>4. ASSUME NEW p \in Persons, Needs(p)'
        PROVE  ScriptGives(p)'
    <3>1. CASE p \in old
      BY <2>3, <3>1 DEF ScriptGives
    <3>2. CASE p \notin old
      <4>1. Needs(p)
        BY <2>1, <2>2, <2>4, <3>2 DEF Needs, Exists
      <4> QED
        BY <1>3, <2>2, <4>1
    <3> QED
      BY <3>1, <3>2
  <2> QED
    BY <1>2, <2>4, ScriptKeepsComing
<1>8. ASSUME NEW new, DeletesUsers(script.todo, new)
      PROVE  RolesComing'
  <2>1. script.pc = "wipe" /\ UNCHANGED userRole
    BY <1>8 DEF DeletesUsers
  <2>2. ASSUME NEW p \in Persons
        PROVE  ~Needs(p)'
    <3> SUFFICES ASSUME Needs(p)'
                 PROVE  Needs(p) /\ p \notin script.todo
      BY <1>2, <2>1 DEF ScriptGives
    <3>1. CASE /\ user' = [q \in Persons |-> IF q \in script.todo THEN None ELSE user[q]]
               /\ UNCHANGED hurt
      BY <2>1, <3>1 DEF Needs, Exists
    <3>2. CASE StillHurt(script.todo) /\ UNCHANGED user
      <4>1. p \notin hurt /\ p \notin script.todo
        BY <3>2, NotHurt
      <4> QED
        BY <2>1, <3>2, <4>1 DEF Needs, Exists
    <3> QED
      BY <1>8, <3>1, <3>2 DEF DeletesUsers
  <2> QED
    BY <1>2, <2>2, ScriptKeepsComing
<1>9. CASE resetToRealData \/ resetToMocks
  BY <1>8, <1>9 DEF resetToRealData, resetToMocks
<1>10. CASE remakeUser
  <2>1. script.pc = "remake" /\ UNCHANGED <<userRole, hurt>>
    BY <1>10 DEF remakeUser
  <2>2. \A p \in Persons : ~Needs(p)
    BY <1>2, <2>1 DEF ScriptGives
  <2>3. CASE UNCHANGED user
    BY <1>2, <2>1, <2>2, <2>3, SameNeeds, ScriptKeepsComing
  <2>4. CASE /\ \E row : user' = [user EXCEPT ![Makes] = row]
             /\ ScriptGoes("grant", script.todo)
    <3>1. script'.pc = "grant" /\ script'.todo = script.todo
      BY <2>4 DEF ScriptGoes
    <3>2. ASSUME NEW p \in Persons, Needs(p)'
          PROVE  ScriptGives(p)'
      <4>1. CASE p = Makes
        <5>1. Makes' = Makes
          BY <3>1 DEF Makes
        <5> QED
          BY <3>1, <4>1, <5>1 DEF ScriptGives
      <4>2. CASE p # Makes
        <5>1. Needs(p)
          BY <1>1, <2>1, <2>4, <3>2, <4>2 DEF Needs, Exists
        <5> QED
          BY <2>2, <5>1
      <4> QED
        BY <4>1, <4>2
    <3> QED
      BY <1>2, <3>2, ScriptKeepsComing
  <2> QED
    BY <1>10, <2>3, <2>4 DEF remakeUser
<1>11. CASE ScriptDies
  <2>1. UNCHANGED <<user, userRole>> /\ StillHurt(script.todo)
    BY <1>11 DEF ScriptDies
  <2>2. ASSUME NEW p \in Persons
        PROVE  ~Needs(p)'
    <3> SUFFICES ASSUME Needs(p)'
                 PROVE  FALSE
      OBVIOUS
    <3>1. p \notin hurt /\ p \notin script.todo
      BY <2>1, NotHurt
    <3>2. Needs(p)
      BY <2>1, <3>1 DEF Needs, Exists
    <3>3. ScriptGives(p)
      BY <1>2, <3>2
    <3> QED
      BY <3>1, <3>3 DEF ScriptGives
  <2> QED
    BY <1>2, <2>2, ScriptKeepsComing
<1> QED
  BY <1>4, <1>5, <1>6, <1>7, <1>9, <1>10, <1>11

LEMMA ComingInit == Init => RolesComing
PROOF
<1> SUFFICES ASSUME Init
             PROVE  RolesComing
  OBVIOUS
<1>1. ASSUME NEW p \in Persons
      PROVE  ~Needs(p)
  BY OneRow DEF Init, Needs, Exists
<1>2. ~Seeds("admin")
  BY PlanFacts DEF Init, Seeds, NotSeeding
<1> QED
  BY <1>1, <1>2 DEF RolesComing

LEMMA ComingStep ==
    ASSUME Shape, RolesComing, [Next]_vars
    PROVE  RolesComing'
PROOF
<1>1. CASE \E c \in Calls : (CallStarts(c) \/ CallGoesOn(c)) /\ Served
  BY <1>1, CallsKeepComing
<1>2. CASE seedProvinces \/ seedRoles \/ seedTeamSpecializations \/ seedSettings \/ seedCategories
  BY <1>2, PlainSeedingKeepsComing
     DEF seedProvinces, seedRoles, seedTeamSpecializations, seedSettings, seedCategories
<1>3. CASE UNCHANGED vars
  BY <1>3 DEF vars, RolesComing, Needs, Exists, Assigns, SeederGives, ScriptGives, Makes, Seeds,
              Item, RowsThere, Row
<1> QED
  BY <1>1, <1>2, <1>3, PlainSeedingKeepsComing, AdminSeedingKeepsComing, ScriptStepKeepsComing
     DEF Next, runProvince2Seed, seedUsers, seedUsersByProvince

\* Whoever may log in has a role, apart from those who are being given one and those left
\* without by something that died (auth.service.ts:115, seeder.service.ts:314): the property
\* EveryAccountHasRole, for any number of accounts, calls and runs.
THEOREM RolesAreKept == Spec => []EveryAccountHasRole
PROOF
<1>1. Init => Shape /\ RolesComing
  BY ShapeInit, ComingInit
<1>2. Shape /\ RolesComing /\ [Next]_vars => Shape' /\ RolesComing'
  BY ShapeStep, ComingStep
<1>3. ASSUME Shape, RolesComing
      PROVE  EveryAccountHasRole
  <2> SUFFICES ASSUME NEW p \in Persons, Live(p), ~AtWork(p), p \notin hurt, RoleRows(p) = {}
               PROVE  FALSE
    BY DEF EveryAccountHasRole
  <2>1. Needs(p)
    BY DEF Needs, Live, RoleRows, Given
  <2>2. script.pc = "grant" => Makes \in script.todo
    BY <1>3, ScriptFacts
  <2> QED
    BY <1>3, <2>1, <2>2 DEF RolesComing, Assigns, SeederGives, ScriptGives, AtWork
<1> QED
  BY <1>1, <1>2, <1>3, PTL DEF Spec

-----------------------------------------------------------------------------
(* A seed run that ends has done its work.                                 *)

\* Between runs there is nothing to keep.
LEMMA NoRunNoProgress ==
    ASSUME seeder'.at = 0
    PROVE  Progress'
PROOF BY PlanFacts DEF Progress, Watched, Behind, Seeds

LEMMA CallsKeepProgress ==
    ASSUME Shape, Progress, NEW c \in Calls, CallStarts(c) \/ CallGoesOn(c), Served
    PROVE  Progress'
PROOF
<1>1. CallEffect(c) /\ UNCHANGED <<catalog, seeder>>
  BY ServedKeepsShape DEF Served
<1>2. CASE seeder.at = 0
  BY <1>1, <1>2, NoRunNoProgress
<1>3. CASE seeder.at # 0
  <2>1. touched' = touched \cup InFlight'
    BY <1>3 DEF Served, NotSeeding
  <2>2. Watched'
    BY <2>1, IdleIsOK DEF Watched, InFlight
  <2>3. ASSUME NEW p \in Persons, p \notin touched'
        PROVE  /\ p \notin touched /\ user'[p] = user[p]
               /\ InPlace(p)' = InPlace(p)
    <3>1. p \notin touched /\ ~About(c, p)
      BY <1>3, <2>1, <2>3 DEF Progress, Watched, About
    <3>2. user'[p] = user[p] /\ userRole'[p] = userRole[p]
      BY <1>1, <3>1 DEF CallEffect, OnlyItsOwn
    <3> QED
      BY <3>1, <3>2 DEF InPlace, Exists, HasSeedRow, RoleRows
  <2>4. \A p : RowsThere(p)' = RowsThere(p)
    BY <1>1 DEF RowsThere, Row
  <2>5. Behind'
    <3>1. ASSUME NEW i \in DOMAIN Plan, i < seeder.at
          PROVE  /\ Plan[i][1] # "admin" => Plan[i] \in catalog
                 /\ Plan[i][1] = "admin" /\ Plan[i][2] \notin touched' /\ RowsThere(Plan[i][2]) =>
                       InPlace(Plan[i][2])'
      <4>1. Plan[i][1] = "admin" => Plan[i][2] \in Persons
        BY SeedingAssumption
      <4> QED
        BY <2>3, <3>1, <4>1 DEF Progress, Behind
    <3> QED
      BY <1>1, <2>4, <3>1 DEF Behind
  <2>6. ASSUME Seeds("admin")
        PROVE  InHand(Item[2])'
    <3> DEFINE a == Item[2]
    <3>1. a \in Persons /\ InHand(a)
      BY <2>6, SeedsFacts DEF Progress
    <3>2. Item' = Item
      BY <1>1 DEF Item
    <3>3. Exists(a) => user'[a] # None
      BY <1>1, <3>1 DEF CallEffect, Survive
    <3> HIDE DEF a
    <3>4. a \notin touched' => a \notin touched /\ user'[a] = user[a]
      BY <2>3, <3>1
    <3>5. ASSUME NEW p, p = a
          PROVE  InHand(p)'
      <4>1. RowsThere(p)' = RowsThere(p) /\ UNCHANGED seeder
        BY <1>1, <2>4
      <4> QED
        BY <3>1, <3>3, <3>4, <3>5, <4>1 DEF InHand, Exists
    <3> QED
      BY <3>2, <3>5 DEF a
  <2>7. Seeds("admin")' = Seeds("admin")
    BY <1>1 DEF Seeds, Item
  <2> QED
    BY <2>2, <2>5, <2>6, <2>7 DEF Progress
<1> QED
  BY <1>2, <1>3


\* When the seeder goes on to the next row, the one it leaves has to be done.
LEMMA NextRowKeepsProgress ==
    ASSUME Shape, Progress, seeder.at \in DOMAIN Plan, Next2Seed, UNCHANGED <<call, touched>>,
           catalog \subseteq catalog',
           \A p : InPlace(p) => InPlace(p)',
           \A i \in DOMAIN Plan :
               i < seeder.at /\ Plan[i][1] = "admin" /\ RowsThere(Plan[i][2])' =>
                   RowsThere(Plan[i][2]),
           Item[1] # "admin" => Item \in catalog',
           \A p : Item[1] = "admin" /\ p = Item[2] /\ p \notin touched /\ RowsThere(p)' =>
               InPlace(p)'
    PROVE  Progress'
PROOF
<1>1. seeder'.at = seeder.at + 1 /\ seeder'.pc = "row" /\ seeder.at \in Nat /\ seeder.at # 0
  BY NextRowIsOK, PlanFacts DEF Shape, SeederOK
<1>2. Watched'
  BY <1>1 DEF Progress, Watched
<1>3. ASSUME NEW i \in DOMAIN Plan, i < seeder.at + 1
      PROVE  /\ Plan[i][1] # "admin" => Plan[i] \in catalog'
             /\ \A p : Plan[i][1] = "admin" /\ p = Plan[i][2] /\ p \notin touched
                       /\ RowsThere(p)' => InPlace(p)'
  <2>1. i < seeder.at \/ i = seeder.at
    BY <1>1, <1>3, PlanFacts
  <2>2. CASE i < seeder.at
    <3>1. /\ Plan[i][1] # "admin" => Plan[i] \in catalog
          /\ \A p : Plan[i][1] = "admin" /\ p = Plan[i][2] /\ p \notin touched
                    /\ RowsThere(p) => InPlace(p)
      BY <2>2 DEF Progress, Behind
    <3>2. \A p : Plan[i][1] = "admin" /\ p = Plan[i][2] /\ RowsThere(p)' => RowsThere(p)
      BY <2>2
    <3> QED
      BY <3>1, <3>2
  <2>3. CASE i = seeder.at
    BY <2>3 DEF Item
  <2> QED
    BY <2>1, <2>2, <2>3
<1>4. Behind'
  BY <1>1, <1>3 DEF Behind
<1>5. \A p : InHand(p)'
  BY <1>1 DEF InHand
<1> QED
  BY <1>2, <1>4, <1>5 DEF Progress

\* While the seeder is at work on one administrator, the others stay as they are.
LEMMA SameRowKeepsProgress ==
    ASSUME Shape, Progress, Seeds("admin"), seeder'.at = seeder.at,
           UNCHANGED <<call, touched, catalog>>,
           NEW a, a = Item[2],
           \A p : p # a /\ InPlace(p) => InPlace(p)',
           InPlace(a) /\ a \notin touched /\ RowsThere(a)
             /\ (\E i \in DOMAIN Plan : i < seeder.at /\ Plan[i] = <<"admin", a>>) => InPlace(a)',
           InHand(a)'
    PROVE  Progress'
PROOF
<1>1. Watched'
  BY DEF Progress, Watched
<1>2. \A p : RowsThere(p)' = RowsThere(p)
  BY DEF RowsThere, Row
<1>3. ASSUME NEW i \in DOMAIN Plan, i < seeder.at
      PROVE  /\ Plan[i][1] # "admin" => Plan[i] \in catalog
             /\ \A p : Plan[i][1] = "admin" /\ p = Plan[i][2] /\ p \notin touched
                       /\ RowsThere(p) => InPlace(p)'
  <2>1. /\ Plan[i][1] # "admin" => Plan[i] \in catalog
        /\ \A p : Plan[i][1] = "admin" /\ p = Plan[i][2] /\ p \notin touched
                  /\ RowsThere(p) => InPlace(p)
    BY <1>3 DEF Progress, Behind
  <2>2. Plan[i] = <<Plan[i][1], Plan[i][2]>>
    BY PlanFacts
  <2> QED
    BY <1>3, <2>1, <2>2
<1>4. Behind'
  BY <1>2, <1>3 DEF Behind
<1>5. Item' = Item
  BY DEF Item
<1>6. \A p : p = a => InHand(p)'
  OBVIOUS
<1> QED
  BY <1>1, <1>4, <1>5, <1>6 DEF Progress

\* Provinces and roles are all there before the first administrator.
LEMMA SeedRowKeepsProgress ==
    ASSUME Shape, Progress, NEW table, table # "admin", SeedRow(table)
    PROVE  Progress'
PROOF
<1>1. /\ Seeds(table) /\ Next2Seed /\ UNCHANGED <<user, userRole, call, touched>>
      /\ catalog' = catalog \cup {Item}
  BY DEF SeedRow, accountVars
<1>2. seeder.at \in DOMAIN Plan /\ seeder.at \in Nat /\ Item[1] = table
  BY <1>1, SeedsFacts
<1>3. \A p : InPlace(p) => InPlace(p)'
  BY <1>1 DEF InPlace, Exists, HasSeedRow, RoleRows
<1>4. ASSUME NEW i \in DOMAIN Plan, i < seeder.at, Plan[i][1] = "admin"
      PROVE  Item[1] \notin {"province", "role"}
  <2>1. Item[1] \in {"province", "role"} => seeder.at < i
    BY <1>2, <1>4, SeedingAssumption DEF Item
  <2> QED
    BY <1>2, <1>4, <2>1, PlanFacts
<1>5. ASSUME NEW p, RowsThere(p)', Item[1] \notin {"province", "role"}
      PROVE  RowsThere(p)
  <2>1. Item # <<"province", SeedProvince[p]>> /\ Item # <<"role", SeedRole[p]>>
    BY <1>5
  <2> QED
    BY <1>1, <1>5, <2>1 DEF RowsThere, Row
<1> QED
  BY <1>1, <1>2, <1>3, <1>4, <1>5, NextRowKeepsProgress

LEMMA SeedAdminKeepsProgress ==
    ASSUME Shape, Progress,
           \/ seedAdminUser \/ seedAdminRead \/ seedAdminProvince \/ seedAdminRole
           \/ seedAdminDelete \/ seedAdminInsert
    PROVE  Progress'
PROOF
<1> DEFINE a == Item[2]
<1>1. Seeds("admin") /\ UNCHANGED <<call, touched, catalog>>
  BY DEF seedAdminUser, seedAdminRead, seedAdminProvince, seedAdminRole, seedAdminDelete,
         seedAdminInsert, SeedsAdmin, accountVars
<1>2. /\ seeder.at \in DOMAIN Plan /\ Item[1] = "admin" /\ a \in Persons
      /\ DOMAIN user = Persons /\ DOMAIN userRole = Persons /\ RowSeq(userRole[a])
      /\ user[a] # None => DOMAIN user[a] = Columns
      /\ DOMAIN seeder = {"at", "pc", "copy", "cols"}
      /\ seeder.pc \in {"read", "write"} => DOMAIN seeder.copy = Columns
  BY <1>1, SeedsFacts DEF Shape, Tables, SeederOK, NotSeeding, IsAccount
<1>3. InHand(a)
  BY <1>1 DEF Progress
<1>4. \A p : RowsThere(p)' = RowsThere(p)
  BY <1>1 DEF RowsThere, Row
\* The rows of an administrator met earlier in the list.
<1>5. ASSUME NEW i \in DOMAIN Plan, i < seeder.at, Plan[i] = <<"admin", a>>,
             a \notin touched, RowsThere(a)
      PROVE  InPlace(a)
  <2>1. Plan[i][1] = "admin" /\ Plan[i][2] = a
    BY <1>5
  <2> QED
    BY <1>5, <2>1 DEF Progress, Behind
<1>6. ASSUME Next2Seed, \A p : InPlace(p) => InPlace(p)',
             \A p : p = a /\ p \notin touched /\ RowsThere(p) => InPlace(p)'
      PROVE  Progress'
  BY <1>1, <1>2, <1>4, <1>6, NextRowKeepsProgress
<1>7. ASSUME UNCHANGED <<user, userRole>>
      PROVE  \A p : InPlace(p)' = InPlace(p)
  BY <1>7 DEF InPlace, Exists, HasSeedRow, RoleRows
<1>8. CASE seedAdminUser
  <2>1. UNCHANGED userRole /\ seeder.pc = "row"
    BY <1>8 DEF seedAdminUser, SeedsAdmin
  <2>2. CASE Exists(a)
    <3>1. seeder' = AfterFinding(a) /\ UNCHANGED user
      BY <1>8, <2>2 DEF seedAdminUser
    <3>2. \/ /\ user[a].provinceId = SeedProvince[a] \/ ~RowsThere(a)
             /\ seeder' = [seeder EXCEPT !.pc = "role"]
          \/ seeder' = [seeder EXCEPT !.pc = "read",
                                      !.copy = [user[a] EXCEPT !.provinceId = SeedProvince[a]]]
      BY <3>1 DEF AfterFinding, RowsThere
    <3> DEFINE copy == [user[a] EXCEPT !.provinceId = SeedProvince[a]]
    <3>3. copy.provinceId = SeedProvince[a]
      BY <1>2, <2>2 DEF Exists, Columns
    <3> HIDE DEF copy
    <3>4. seeder'.at = seeder.at
      BY <1>2, <3>2 DEF copy
    <3>5. ASSUME NEW p, p = a
          PROVE  InHand(p)'
      <4>1. Exists(p)' /\ user'[p] = user[p]
        BY <2>2, <3>1, <3>5 DEF Exists
      <4>2. CASE seeder' = [seeder EXCEPT !.pc = "read", !.copy = copy]
        <5>1. seeder'.pc = "read" /\ seeder'.copy = copy
          BY <1>2, <4>2
        <5> QED
          BY <3>3, <3>5, <4>1, <5>1 DEF InHand
      <4>3. CASE /\ user[a].provinceId = SeedProvince[a] \/ ~RowsThere(a)
                 /\ seeder' = [seeder EXCEPT !.pc = "role"]
        <5>1. seeder'.pc = "role"
          BY <1>2, <4>3
        <5> QED
          BY <1>4, <3>5, <4>1, <4>3, <5>1 DEF InHand
      <4> QED
        BY <3>2, <4>2, <4>3 DEF copy
    <3> QED
      BY <1>1, <1>7, <2>1, <3>1, <3>4, <3>5, SameRowKeepsProgress
  <2>3. CASE ~Exists(a) /\ ~RowsThere(a)
    <3>1. Next2Seed /\ UNCHANGED user
      BY <1>8, <2>3 DEF seedAdminUser, RowsThere
    <3> QED
      BY <1>6, <1>7, <2>1, <2>3, <3>1
  <2>4. CASE ~Exists(a) /\ RowsThere(a)
    <3> DEFINE row == Account(a, SeedProvince[a], FALSE)
    <3>1. user' = [user EXCEPT ![a] = row] /\ seeder' = [seeder EXCEPT !.pc = "role"]
      BY <1>8, <2>4 DEF seedAdminUser, RowsThere
    <3>2. DOMAIN row = Columns /\ row.provinceId = SeedProvince[a]
      BY DEF Account, Columns
    <3> HIDE DEF row
    <3>3. row # None /\ user'[a] = row /\ seeder'.pc = "role" /\ seeder'.at = seeder.at
      BY <1>2, <3>1, <3>2, NoneHasNoColumns
    <3>4. ASSUME NEW p, p # a, InPlace(p)
          PROVE  InPlace(p)'
      <4>1. user'[p] = user[p]
        BY <1>2, <3>1, <3>4 DEF InPlace, Exists
      <4> QED
        BY <2>1, <3>4, <4>1 DEF InPlace, Exists, HasSeedRow, RoleRows
    <3>5. ASSUME NEW p, p = a
          PROVE  InHand(p)'
      BY <3>2, <3>3, <3>5 DEF InHand, Exists
    <3>6. ~InPlace(a)
      BY <2>4 DEF InPlace
    <3> QED
      BY <1>1, <3>3, <3>4, <3>5, <3>6, SameRowKeepsProgress
  <2> QED
    BY <2>2, <2>3, <2>4
<1>9. CASE seedAdminRead
  <2> DEFINE cols == Differing(seeder.copy, user[a])
  <2>1. seeder.pc = "read" /\ UNCHANGED <<user, userRole>>
    BY <1>9 DEF seedAdminRead, SeedsAdmin, accountVars
  <2>2. seeder' = [seeder EXCEPT !.pc = "write", !.cols = cols]
    BY <1>9 DEF seedAdminRead
  <2>3. seeder.copy.provinceId = SeedProvince[a] /\ Exists(a)
    BY <1>3, <2>1 DEF InHand
  <2>4. "provinceId" \notin cols => user[a].provinceId = SeedProvince[a]
    BY <1>2, <2>1, <2>3 DEF Differing, Columns
  <2> HIDE DEF cols
  <2>5. /\ seeder'.pc = "write" /\ seeder'.cols = cols /\ seeder'.copy = seeder.copy
        /\ seeder'.at = seeder.at
    BY <1>2, <2>2
  <2>6. ASSUME NEW p, p = a
        PROVE  InHand(p)'
    BY <2>1, <2>3, <2>4, <2>5, <2>6 DEF InHand, Exists
  <2> QED
    BY <1>1, <1>7, <2>1, <2>5, <2>6, SameRowKeepsProgress
<1>10. CASE seedAdminProvince
  <2> DEFINE row == Written(user[a], seeder.copy, seeder.cols)
  <2>1. /\ seeder.pc = "write" /\ UNCHANGED userRole /\ user' = [user EXCEPT ![a] = row]
        /\ seeder' = [NotSeeding EXCEPT !.at = seeder.at, !.pc = "role"]
    BY <1>10 DEF seedAdminProvince, SeedsAdmin
  <2>2. seeder.copy.provinceId = SeedProvince[a] /\ Exists(a)
    BY <1>3, <2>1 DEF InHand
  <2>3. /\ DOMAIN row = Columns
        /\ row.provinceId = IF "provinceId" \in seeder.cols THEN SeedProvince[a]
                                                           ELSE user[a].provinceId
    <3>1. DOMAIN user[a] = Columns /\ user[a] # None /\ "provinceId" \in Columns
      BY <1>2, <2>2 DEF Exists, Columns
    <3>2. /\ DOMAIN row = Columns
          /\ \A col \in Columns :
                row[col] = IF col \in seeder.cols THEN seeder.copy[col] ELSE user[a][col]
      BY <3>1, WrittenRow
    <3> HIDE DEF row
    <3> QED
      BY <2>2, <3>1, <3>2
  <2> HIDE DEF row
  <2>4. a \notin touched /\ RowsThere(a) => row.provinceId = SeedProvince[a]
    BY <1>3, <2>1, <2>3 DEF InHand
  <2>5. /\ row # None /\ user'[a] = row /\ seeder'.pc = "role" /\ seeder'.at = seeder.at
        /\ \A p \in Persons : p # a => user'[p] = user[p]
    BY <1>2, <2>1, <2>3, NoneHasNoColumns DEF NotSeeding
  <2>6. ASSUME NEW p, p # a, InPlace(p)
        PROVE  InPlace(p)'
    <3>1. user'[p] = user[p]
      BY <1>2, <2>1, <2>6 DEF InPlace, Exists
    <3> QED
      BY <2>1, <2>6, <3>1 DEF InPlace, Exists, HasSeedRow, RoleRows
  <2>7. ASSUME NEW p, p = a, InPlace(p), p \notin touched, RowsThere(p)
        PROVE  InPlace(p)'
    BY <2>1, <2>4, <2>5, <2>7 DEF InPlace, Exists, HasSeedRow, RoleRows
  <2>8. ASSUME NEW p, p = a
        PROVE  InHand(p)'
    BY <1>1, <1>4, <2>4, <2>5, <2>8 DEF InHand, Exists
  <2> QED
    BY <1>1, <2>5, <2>6, <2>7, <2>8, SameRowKeepsProgress
<1>11. CASE seedAdminRole
  <2>1. seeder.pc = "role" /\ UNCHANGED <<user, userRole>>
    BY <1>11 DEF seedAdminRole, SeedsAdmin, accountVars
  <2>2. Exists(a) /\ (a \notin touched /\ RowsThere(a) => user[a].provinceId = SeedProvince[a])
    BY <1>3, <2>1 DEF InHand
  <2>3. CASE Next2Seed /\ (HasSeedRow(a) \/ ~RowsThere(a))
    <3>1. ASSUME NEW p, p = a, p \notin touched, RowsThere(p)
          PROVE  InPlace(p)
      BY <2>2, <2>3, <3>1 DEF InPlace
    <3> QED
      BY <1>6, <1>7, <2>1, <2>3, <3>1
  <2>4. CASE ~HasSeedRow(a) /\ RowsThere(a) /\ seeder' = [seeder EXCEPT !.pc = "delete"]
    <3>1. seeder'.pc = "delete" /\ seeder'.at = seeder.at
      BY <1>2, <2>4
    <3>2. ASSUME NEW p, p = a
          PROVE  InHand(p)'
      <4>1. RowsThere(p)' /\ Exists(p)' /\ user'[p] = user[p]
        BY <1>4, <2>1, <2>2, <2>4, <3>2 DEF Exists
      <4>2. ASSUME NEW i \in DOMAIN Plan, i < seeder.at, p \notin touched
            PROVE  Plan[i] # <<"admin", p>>
        BY <1>5, <2>4, <3>2, <4>2 DEF InPlace
      <4> QED
        BY <1>1, <2>2, <2>4, <3>1, <3>2, <4>1, <4>2 DEF InHand
    <3> QED
      BY <1>1, <1>7, <2>1, <3>1, <3>2, SameRowKeepsProgress
  <2> QED
    BY <1>11, <2>3, <2>4 DEF seedAdminRole, RowsThere
<1>12. CASE seedAdminDelete
  <2> DEFINE rows == [i \in DOMAIN userRole[a] |-> IF i \in RowsWith(a, {SeedRole[a]})
                                                   THEN None ELSE userRole[a][i]]
  <2>1. seeder.pc = "delete" /\ UNCHANGED user /\ userRole' = [userRole EXCEPT ![a] = rows]
    BY <1>12 DEF seedAdminDelete, SeedsAdmin
  <2> HIDE DEF rows
  <2>2. seeder'.pc = "insert" /\ seeder'.at = seeder.at
    BY <1>2, <1>12 DEF seedAdminDelete
  <2>3. \A p : p # a => userRole'[p] = userRole[p] /\ user'[p] = user[p]
    BY <1>2, <2>1
  <2>4. ASSUME NEW p, p # a, InPlace(p)
        PROVE  InPlace(p)'
    BY <2>3, <2>4 DEF InPlace, Exists, HasSeedRow, RoleRows
  <2>5. ASSUME NEW p, p = a
        PROVE  InHand(p)'
    BY <1>1, <1>3, <1>4, <2>1, <2>2, <2>5 DEF InHand, Exists
  <2>6. ~(a \notin touched /\ RowsThere(a)
          /\ \E i \in DOMAIN Plan : i < seeder.at /\ Plan[i] = <<"admin", a>>)
    BY <1>3, <2>1 DEF InHand
  <2> QED
    BY <1>1, <2>2, <2>4, <2>5, <2>6, SameRowKeepsProgress
<1>13. CASE seedAdminInsert
  <2> DEFINE row == RoleRow(SeedRole[a], SeedProvince[a])
  <2>1. /\ seeder.pc = "insert" /\ UNCHANGED user /\ Next2Seed
        /\ userRole' = [userRole EXCEPT ![a] = Append(userRole[a], row)]
    BY <1>13 DEF seedAdminInsert, SeedsAdmin
  <2>2. IsRoleRow(row) /\ row # None
    BY RoleRowIsOne
  <2> HIDE DEF row
  <2> DEFINE old == userRole[a]
             rows == Append(old, row)
  <2>3. \E i \in Given(rows) : rows[i] = row
    <3>1. RowSeq(old)
      BY <1>2
    <3> HIDE DEF old
    <3> QED
      BY <2>2, <3>1, AppendGives
  <2> HIDE DEF rows
  <2>4. userRole'[a] = rows /\ \A p : p # a => userRole'[p] = userRole[p]
    BY <1>2, <2>1 DEF rows
  <2>5. ASSUME NEW p, p = a
        PROVE  HasSeedRow(p)'
    BY <2>3, <2>4, <2>5 DEF HasSeedRow, RoleRows, Given, row
  <2>6. ASSUME NEW p, InPlace(p)
        PROVE  InPlace(p)'
    <3>1. CASE p = a
      BY <2>1, <2>5, <2>6, <3>1 DEF InPlace, Exists
    <3>2. CASE p # a
      BY <2>1, <2>4, <2>6, <3>2 DEF InPlace, Exists, HasSeedRow, RoleRows
    <3> QED
      BY <3>1, <3>2
  <2>7. ASSUME NEW p, p = a, p \notin touched, RowsThere(p)
        PROVE  InPlace(p)'
    BY <1>3, <2>1, <2>5, <2>7 DEF InHand, InPlace, Exists
  <2> QED
    BY <1>6, <2>1, <2>6, <2>7
<1> QED
  BY <1>8, <1>9, <1>10, <1>11, <1>12, <1>13

LEMMA SeedingKeepsProgress ==
    ASSUME Shape, SeedStarts \/ SeedEnds \/ SeederDies
    PROVE  Progress'
PROOF
<1>1. CASE SeedStarts
  <2>1. seeder = NotSeeding /\ Next2Seed /\ touched' = InFlight /\ UNCHANGED call
    BY <1>1 DEF SeedStarts, accountVars
  <2>2. seeder'.at = 1 /\ seeder'.pc = "row"
    BY <2>1 DEF Next2Seed, NotSeeding
  <2>3. Watched'
    BY <2>1, IdleIsOK DEF Watched, InFlight
  <2>4. Behind'
    BY <2>2, PlanFacts DEF Behind
  <2>5. \A p : InHand(p)'
    BY <2>2 DEF InHand
  <2> QED
    BY <2>3, <2>4, <2>5 DEF Progress
<1>2. CASE SeedEnds \/ SeederDies
  BY <1>2, NoRunNoProgress, StopsSeedingIsOK DEF SeedEnds, SeederDies
<1> QED
  BY <1>1, <1>2

LEMMA ScriptStepKeepsProgress ==
    ASSUME Shape,
           \/ mockUser \/ MakesNoRole \/ grantUser \/ resetRoles
           \/ resetToRealData \/ resetToMocks \/ remakeUser \/ ScriptDies
    PROVE  Progress'
PROOF
<1>1. Quiet
  BY ScriptFacts DEF mockUser, MakesNoRole, grantUser, resetRoles, resetToRealData, resetToMocks,
     DeletesUsers, remakeUser, ScriptDies, Shape, ScriptOK
<1>2. UNCHANGED seeder
  BY DEF mockUser, MakesNoRole, grantUser, resetRoles, resetToRealData, resetToMocks,
     DeletesUsers, remakeUser, ScriptDies
<1>3. seeder'.at = 0
  BY <1>1, <1>2 DEF Quiet, NotSeeding
<1> QED
  BY <1>3, NoRunNoProgress

LEMMA ProgressStep ==
    ASSUME Shape, Progress, [Next]_vars
    PROVE  Progress'
PROOF
<1>1. CASE \E c \in Calls : (CallStarts(c) \/ CallGoesOn(c)) /\ Served
  BY <1>1, CallsKeepProgress
<1>2. CASE seedProvinces \/ seedRoles \/ seedTeamSpecializations \/ seedSettings \/ seedCategories
  BY <1>2, SeedRowKeepsProgress
     DEF seedProvinces, seedRoles, seedTeamSpecializations, seedSettings, seedCategories
<1>3. CASE UNCHANGED vars
  BY <1>3 DEF vars, Progress, Watched, Behind, InHand, InPlace, Exists, HasSeedRow, RoleRows,
              RowsThere, Row, Seeds, Item
<1> QED
  BY <1>1, <1>2, <1>3, SeedAdminKeepsProgress, SeedingKeepsProgress, ScriptStepKeepsProgress
     DEF Next, runProvince2Seed, seedUsers, seedUsersByProvince

\* A seed run that reaches its end has every row in place, and every administrator whose
\* province and role are there and whom no call held meanwhile, whatever an earlier run left
\* half done (seeder.service.ts:20): the property SeedCompletes, for any plan in seed()'s
\* order and any number of administrators, calls and runs.
THEOREM SeedRunsComplete == Spec => []SeedCompletes
PROOF
<1>1. Init => Progress
  <2>1. Init => seeder.at = 0
    BY DEF Init, NotSeeding
  <2> QED
    BY <2>1, PlanFacts DEF Progress, Watched, Behind, Seeds
<1>2. Shape /\ Progress /\ [Next]_vars => Progress'
  BY ProgressStep
<1>3. ASSUME Shape, Progress
      PROVE  SeedCompletes
  <2> SUFFICES ASSUME seeder.at > Len(Plan)
               PROVE  /\ CatalogRows \subseteq catalog
                      /\ \A p \in Admins \ touched : RowsThere(p) => InPlace(p)
    BY DEF SeedCompletes, RowsThere, InPlace
  <2>1. \A i \in DOMAIN Plan : i < seeder.at
    BY <1>3, PlanFacts DEF Shape, SeederOK
  <2>2. CatalogRows \subseteq catalog
    BY <1>3, <2>1 DEF Progress, Behind, CatalogRows, PlanRows
  <2>3. ASSUME NEW p \in Admins, p \notin touched, RowsThere(p)
        PROVE  InPlace(p)
    <3>1. PICK i \in DOMAIN Plan : Plan[i] = <<"admin", p>>
      BY SeedingAssumption DEF PlanRows
    <3>2. Plan[i][1] = "admin" /\ Plan[i][2] = p
      BY <3>1
    <3> QED
      BY <1>3, <2>1, <2>3, <3>2 DEF Progress, Behind
  <2> QED
    BY <2>2, <2>3
<1> QED
  BY <1>1, <1>2, <1>3, ShapeHolds, PTL DEF Spec

-----------------------------------------------------------------------------
(* The script that brings the tables of permissions up to the matrix, and  *)
(* the role service beside it. This is about Access alone.                 *)

\* A role has been granted a permission of the matrix.
InForce(n, p) ==
    \E row \in permission : row.name = p /\ <<SeededAs[n], row.id>> \in rolePermission

\* A run is through with role i of entry e.
Handling == {"role", "mapping", "grant"}
Passed(r, e, i) ==
    \/ e < sync[r].entry \/ sync[r].pc = "done"
    \/ e = sync[r].entry /\ sync[r].pc \in Handling /\ i < sync[r].who

\* What a run is through with is in force, for the roles that kept their rows.
Covers(r) ==
    \A e \in DOMAIN New, i \in DOMAIN SystemRoles :
        /\ SystemRoles[i] \in sync[r].steady /\ New[e] \in Matrix[SystemRoles[i]]
        /\ Passed(r, e, i)
        => InForce(SystemRoles[i], New[e])

NamesKept(r) ==
    Running(r) => \A n \in sync[r].steady : RolesNamed(n) = {SeededAs[n]}

\* What a run has in hand is the row of its entry, and the row of its role.
HoldsPermission(r) ==
    sync[r].pc \in Handling =>
        \E row \in permission : row.id = sync[r].perm /\ row.name = Entry(r)
HoldsRole(r) ==
    sync[r].pc \in {"mapping", "grant"} /\ SystemRoles[sync[r].who] \in sync[r].steady
    => sync[r].id = SeededAs[SystemRoles[sync[r].who]]

RunFields == {"pc", "entry", "perm", "who", "id", "steady"}
RunShape(r) ==
    /\ DOMAIN sync[r] = RunFields
    /\ sync[r].entry \in Nat
    /\ sync[r].pc = "none" => sync[r].entry = 1
    /\ Running(r) => sync[r].entry \in DOMAIN New
    /\ sync[r].pc \in Handling => sync[r].who \in DOMAIN SystemRoles
    /\ sync[r].steady \subseteq DOMAIN SeededAs

RunInv(r) ==
    /\ RunShape(r) /\ Covers(r) /\ NamesKept(r) /\ HoldsPermission(r) /\ HoldsRole(r)
MatrixInv ==
    /\ DOMAIN roleRow = RoleIds /\ DOMAIN sync = Runs
    /\ \A r \in Runs : RunInv(r)

\* Tables only grow under a run of the script, and roles stay as they are.
TablesGrow ==
    /\ permission \subseteq permission' /\ rolePermission \subseteq rolePermission'
    /\ roleRow' = roleRow

LEMMA InForceStays ==
    ASSUME permission \subseteq permission', rolePermission \subseteq rolePermission',
           NEW n, NEW p, InForce(n, p)
    PROVE  InForce(n, p)'
PROOF
  BY DEF InForce

LEMMA RolesNumbered ==
    /\ DOMAIN SystemRoles \subseteq Nat /\ 0 \notin DOMAIN SystemRoles
    /\ \A i \in DOMAIN SystemRoles : SystemRoles[i] # "none"
PROOF
  BY DEF SystemRoles

LEMMA NamesOfRoles ==
    /\ "none" \notin DOMAIN SeededAs
    /\ \A n \in DOMAIN SeededAs : \E i \in DOMAIN SystemRoles : n = SystemRoles[i]
PROOF
  BY RolesNumbered, AccessAssumption DEF ToSet, SystemRoles

LEMMA EntryAllows ==
    ASSUME NEW r, sync[r].entry \in DOMAIN New
    PROVE  Allowed(r) = {i \in DOMAIN SystemRoles : Entry(r) \in Matrix[SystemRoles[i]]}
PROOF
<1>1. New[sync[r].entry] \in Permissions
  BY AccessAssumption
<1> QED
  BY <1>1 DEF Allowed, Entry, flattenPermissions, SystemRoles

\* A run that does not move keeps what it has.
LEMMA OthersKeep ==
    ASSUME TablesGrow, NEW q, RunInv(q), sync'[q] = sync[q]
    PROVE  RunInv(q)'
PROOF
<1>1. RunShape(q)'
  BY DEF RunInv, RunShape, Running
<1>2. Covers(q)'
  <2> SUFFICES ASSUME NEW e \in DOMAIN New, NEW i \in DOMAIN SystemRoles,
                      SystemRoles[i] \in sync[q].steady,
                      New[e] \in Matrix[SystemRoles[i]], Passed(q, e, i)
               PROVE  InForce(SystemRoles[i], New[e])'
    BY DEF Covers, Passed, SystemRoles, Matrix
  <2> QED
    BY InForceStays DEF RunInv, Covers, TablesGrow
<1>3. NamesKept(q)'
  BY DEF RunInv, NamesKept, TablesGrow, Running, RolesNamed, RoleExists
<1>4. HoldsPermission(q)'
  BY DEF RunInv, HoldsPermission, TablesGrow, Entry
<1>5. HoldsRole(q)'
  BY DEF RunInv, HoldsRole
<1> QED
  BY <1>1, <1>2, <1>3, <1>4, <1>5 DEF RunInv

\* A run that stops, or goes on with what it has in hand.
LEMMA GoesOn ==
    ASSUME NEW r \in Runs, RunInv(r), DOMAIN sync = Runs, TablesGrow, NEW pc,
           Running(r), RunGoes(r, pc),
           \/ pc = "failed"
           \/ pc = "insert" /\ sync[r].pc = "permission"
           \/ pc = "grant" /\ sync[r].pc = "mapping"
    PROVE  RunInv(r)'
PROOF
<1> DEFINE s == sync[r]
           t == sync'[r]
<1>1. t = [s EXCEPT !.pc = pc]
  BY DEF RunGoes
<1>2. DOMAIN s = RunFields
  BY DEF RunInv, RunShape
<1> HIDE DEF s, t
<1>3. DOMAIN t = RunFields /\ t.pc = pc /\ t.entry = s.entry /\ t.perm = s.perm
      /\ t.who = s.who /\ t.id = s.id /\ t.steady = s.steady
  BY <1>1, <1>2 DEF RunFields
<1>4. RunShape(r)'
  BY <1>3 DEF RunInv, RunShape, s, t, Handling, Running, SystemRoles
<1>5. Covers(r)'
  <2> SUFFICES ASSUME NEW e \in DOMAIN New, NEW i \in DOMAIN SystemRoles,
                      SystemRoles[i] \in s.steady,
                      New[e] \in Matrix[SystemRoles[i]], Passed(r, e, i)'
               PROVE  InForce(SystemRoles[i], New[e])'
    BY <1>3 DEF Covers, SystemRoles, Matrix, t
  <2>1. Passed(r, e, i)
    BY <1>3 DEF Passed, Handling, s, t
  <2> QED
    BY <2>1, InForceStays DEF RunInv, Covers, TablesGrow, s
<1>6. NamesKept(r)'
  BY <1>3 DEF RunInv, NamesKept, TablesGrow, Running, RolesNamed, RoleExists, s, t
<1>7. HoldsPermission(r)'
  BY <1>3 DEF RunInv, HoldsPermission, TablesGrow, Entry, Handling, s, t
<1>8. HoldsRole(r)'
  BY <1>3 DEF RunInv, HoldsRole, s, t
<1> QED
  BY <1>4, <1>5, <1>6, <1>7, <1>8 DEF RunInv

\* A run comes to a role of its entry, all before it being done.
LEMMA ComesToRole ==
    ASSUME NEW r \in Runs, RunInv(r), DOMAIN sync = Runs, TablesGrow, Running(r),
           NEW above, NEW perm, ToRole(r, above, perm),
           NEW p, p = Entry(r), \E row \in permission' : row.id = perm /\ row.name = p,
           \A i \in DOMAIN SystemRoles :
               /\ SystemRoles[i] \in sync[r].steady /\ p \in Matrix[SystemRoles[i]]
               /\ ~ i > above
               => InForce(SystemRoles[i], p)'
    PROVE  RunInv(r)'
PROOF
<1> DEFINE s == sync[r]
           t == sync'[r]
<1>1. PICK k \in Allowed(r) :
        /\ \A j \in Allowed(r) : j > above => k <= j
        /\ t = [s EXCEPT !.pc = "role", !.perm = perm, !.who = k]
  BY DEF ToRole
<1>2. DOMAIN s = RunFields /\ s.entry \in DOMAIN New
  BY DEF RunInv, RunShape
<1>3. Allowed(r) = {i \in DOMAIN SystemRoles : Entry(r) \in Matrix[SystemRoles[i]]}
  BY <1>2, EntryAllows DEF s
<1> HIDE DEF s, t
<1>4. DOMAIN t = RunFields /\ t.pc = "role" /\ t.entry = s.entry /\ t.perm = perm
      /\ t.who = k /\ t.id = s.id /\ t.steady = s.steady
  BY <1>1, <1>2 DEF RunFields
<1>5. RunShape(r)'
  BY <1>1, <1>2, <1>3, <1>4 DEF RunInv, RunShape, s, t, Handling, Running, SystemRoles
<1>6. Covers(r)'
  <2> SUFFICES ASSUME NEW e \in DOMAIN New, NEW i \in DOMAIN SystemRoles,
                      SystemRoles[i] \in s.steady,
                      New[e] \in Matrix[SystemRoles[i]], Passed(r, e, i)'
               PROVE  InForce(SystemRoles[i], New[e])'
    BY <1>4 DEF Covers, SystemRoles, Matrix, t
  <2>1. CASE e < s.entry
    <3>1. InForce(SystemRoles[i], New[e])
      BY <2>1 DEF RunInv, Covers, Passed, s
    <3> QED
      BY <3>1, InForceStays DEF TablesGrow
  <2>2. CASE ~ e < s.entry
    <3>1. e = s.entry /\ i < k
      BY <2>2, <1>4 DEF Passed, t
    <3>2. i \in Allowed(r) /\ New[e] = p
      BY <1>3, <3>1 DEF Entry, s
    <3>3. ~ i > above
      <4>1. i \in Nat /\ k \in Nat
        BY <1>1, <1>3, RolesNumbered
      <4> QED
        BY <4>1, <1>1, <3>1, <3>2
    <3> QED
      BY <3>2, <3>3 DEF s
  <2> QED
    BY <2>1, <2>2
<1>7. NamesKept(r)'
  BY <1>4 DEF RunInv, NamesKept, TablesGrow, Running, RolesNamed, RoleExists, s, t
<1>8. HoldsPermission(r)'
  BY <1>4 DEF HoldsPermission, Entry, s, t
<1>9. HoldsRole(r)'
  BY <1>4 DEF HoldsRole, t
<1> QED
  BY <1>5, <1>6, <1>7, <1>8, <1>9 DEF RunInv

\* A run is through with the role it was at, and goes on to the next.
LEMMA ThroughWithRole ==
    ASSUME NEW r \in Runs, RunInv(r), DOMAIN sync = Runs, TablesGrow,
           sync[r].pc \in Handling, NextRole(r),
           NEW n, NEW p, n = SystemRoles[sync[r].who], p = Entry(r),
           n \in sync[r].steady /\ p \in Matrix[n] => InForce(n, p)'
    PROVE  RunInv(r)'
PROOF
<1> DEFINE s == sync[r]
           t == sync'[r]
           last == \A i \in Allowed(r) : ~ i > s.who
<1>1. Running(r)
  BY DEF Running, Handling
<1>2. DOMAIN s = RunFields /\ s.entry \in DOMAIN New /\ s.who \in DOMAIN SystemRoles
      /\ s.entry \in Nat /\ s.who \in Nat
  BY <1>1, RolesNumbered DEF RunInv, RunShape
<1>3. ASSUME NEW i \in DOMAIN SystemRoles, SystemRoles[i] \in s.steady,
             p \in Matrix[SystemRoles[i]], ~ i > s.who
      PROVE  InForce(SystemRoles[i], p)'
  <2>1. CASE i = s.who
    BY <1>3, <2>1
  <2>2. CASE i # s.who
    <3>1. i < s.who
      BY <2>2, <1>2, <1>3, RolesNumbered
    <3>2. InForce(SystemRoles[i], p)
      BY <1>2, <1>3, <3>1 DEF RunInv, Covers, Passed, Entry
    <3> QED
      BY <3>2, InForceStays DEF TablesGrow
  <2> QED
    BY <2>1, <2>2
<1>4. CASE ~last
  <2>1. ToRole(r, s.who, s.perm)
    BY <1>4 DEF NextRole
  <2>2. \E row \in permission' : row.id = s.perm /\ row.name = p
    BY DEF RunInv, HoldsPermission, TablesGrow
  <2> QED
    BY <1>1, <1>3, <2>1, <2>2, ComesToRole
<1>5. CASE last
  <2>1. \A i \in DOMAIN SystemRoles :
          p \in Matrix[SystemRoles[i]] => ~ i > s.who
    BY <1>2, <1>5, EntryAllows
  <2>2. ASSUME NEW i \in DOMAIN SystemRoles, SystemRoles[i] \in s.steady,
               NEW e \in DOMAIN New, New[e] \in Matrix[SystemRoles[i]],
               e < s.entry \/ e = s.entry
        PROVE  InForce(SystemRoles[i], New[e])'
    <3>1. CASE e = s.entry
      BY <2>2, <3>1, <2>1, <1>3 DEF Entry
    <3>2. CASE e < s.entry
      <4>1. InForce(SystemRoles[i], New[e])
        BY <2>2, <3>2 DEF RunInv, Covers, Passed
      <4> QED
        BY <4>1, InForceStays DEF TablesGrow
    <3> QED
      BY <2>2, <3>1, <3>2
  <2>3. New \in Seq(Permissions) /\ DOMAIN New = 1..Len(New) /\ Len(New) \in Nat
    BY AccessAssumption
  <2>4. CASE s.entry < Len(New)
    <3>1. t = [s EXCEPT !.pc = "permission", !.entry = s.entry + 1, !.who = 0]
      BY <1>5, <2>4 DEF NextRole
    <3> HIDE DEF s, t
    <3>2. DOMAIN t = RunFields /\ t.pc = "permission" /\ t.entry = s.entry + 1
          /\ t.steady = s.steady
      BY <3>1, <1>2 DEF RunFields
    <3>3. RunShape(r)'
      BY <1>2, <2>3, <2>4, <3>2 DEF RunInv, RunShape, s, t, Handling
    <3>4. Covers(r)'
      <4> SUFFICES ASSUME NEW e \in DOMAIN New, NEW i \in DOMAIN SystemRoles,
                          SystemRoles[i] \in s.steady,
                          New[e] \in Matrix[SystemRoles[i]], Passed(r, e, i)'
                   PROVE  InForce(SystemRoles[i], New[e])'
        BY <3>2 DEF Covers, SystemRoles, Matrix, t
      <4>1. e < s.entry \/ e = s.entry
        BY <3>2, <1>2, <2>3 DEF Passed, Handling, t
      <4> QED
        BY <4>1, <2>2
    <3>5. NamesKept(r)'
      BY <1>1, <3>2 DEF RunInv, NamesKept, TablesGrow, RolesNamed, RoleExists, s, t
    <3>6. HoldsPermission(r)' /\ HoldsRole(r)'
      BY <3>2 DEF HoldsPermission, HoldsRole, Handling, t
    <3> QED
      BY <3>3, <3>4, <3>5, <3>6 DEF RunInv
  <2>5. CASE ~ s.entry < Len(New)
    <3>1. t = [s EXCEPT !.pc = "done"]
      BY <1>5, <2>5 DEF NextRole, RunGoes
    <3> HIDE DEF s, t
    <3>2. DOMAIN t = RunFields /\ t.pc = "done" /\ t.entry = s.entry /\ t.steady = s.steady
      BY <3>1, <1>2 DEF RunFields
    <3>3. RunShape(r)'
      BY <1>2, <3>2 DEF RunInv, RunShape, s, t, Handling, Running
    <3>4. Covers(r)'
      <4> SUFFICES ASSUME NEW e \in DOMAIN New, NEW i \in DOMAIN SystemRoles,
                          SystemRoles[i] \in s.steady,
                          New[e] \in Matrix[SystemRoles[i]]
                   PROVE  InForce(SystemRoles[i], New[e])'
        BY <3>2 DEF Covers, SystemRoles, Matrix, t
      <4>1. e < s.entry \/ e = s.entry
        BY <1>2, <2>3, <2>5
      <4> QED
        BY <4>1, <2>2
    <3>5. NamesKept(r)' /\ HoldsPermission(r)' /\ HoldsRole(r)'
      BY <3>2 DEF NamesKept, HoldsPermission, HoldsRole, Handling, Running, t
    <3> QED
      BY <3>3, <3>4, <3>5 DEF RunInv
  <2> QED
    BY <2>4, <2>5
<1> QED
  BY <1>4, <1>5

LEMMA StartRunKeeps ==
    ASSUME NEW r \in Runs, RunInv(r), DOMAIN sync = Runs, TablesGrow,
           StartRun(r)
    PROVE  RunInv(r)'
PROOF
<1> DEFINE s == sync[r]
           t == sync'[r]
           steady == {n \in DOMAIN SeededAs : RolesNamed(n) = {SeededAs[n]}}
<1>1. t = [s EXCEPT !.pc = IF New = <<>> THEN "done" ELSE "permission", !.steady = steady]
  BY DEF StartRun
<1>2. DOMAIN s = RunFields /\ s.entry = 1
  BY DEF RunInv, RunShape, StartRun, At
<1>3. DOMAIN New = 1..Len(New) /\ Len(New) \in Nat /\ (New = <<>> \/ Len(New) # 0)
  BY AccessAssumption
<1> HIDE DEF s, t, steady
<1>4. DOMAIN t = RunFields /\ t.pc = (IF New = <<>> THEN "done" ELSE "permission")
      /\ t.entry = 1 /\ t.steady = steady
  BY <1>1, <1>2 DEF RunFields
<1>5. RunShape(r)'
  BY <1>3, <1>4 DEF RunShape, t, steady, Handling, Running
<1>6. Covers(r)'
  <2> SUFFICES ASSUME NEW e \in DOMAIN New, NEW i, Passed(r, e, i)' PROVE FALSE
    BY DEF Covers, SystemRoles, Matrix
  <2>1. New # <<>>
    BY <1>3
  <2> QED
    BY <2>1, <1>3, <1>4 DEF Passed, Handling, t
<1>7. NamesKept(r)'
  BY <1>4 DEF NamesKept, TablesGrow, RolesNamed, RoleExists, t, steady
<1>8. HoldsPermission(r)' /\ HoldsRole(r)'
  BY <1>4 DEF HoldsPermission, HoldsRole, Handling, t
<1> QED
  BY <1>5, <1>6, <1>7, <1>8 DEF RunInv

\* Nothing is covered of an entry whose permission the run has yet to find.
LEMMA ComesToFirstRole ==
    ASSUME NEW r \in Runs, RunInv(r), DOMAIN sync = Runs, TablesGrow, Running(r),
           NEW row \in permission', row.name = Entry(r), ToRole(r, 0, row.id)
    PROVE  RunInv(r)'
PROOF
<1>1. PICK p : p = Entry(r)
  OBVIOUS
<1>2. \A i \in DOMAIN SystemRoles : i > 0
  BY RolesNumbered
<1> QED
  BY <1>1, <1>2, ComesToRole

LEMMA FindPermissionKeeps ==
    ASSUME NEW r \in Runs, RunInv(r), DOMAIN sync = Runs, TablesGrow, FindPermission(r)
    PROVE  RunInv(r)'
PROOF
<1>1. sync[r].pc = "permission" /\ Running(r) /\ permission' = permission
  BY DEF FindPermission, At, Running
<1>2. CASE RunGoes(r, "insert")
  BY <1>1, <1>2, GoesOn
<1>3. CASE \E row \in permission : row.name = Entry(r) /\ ToRole(r, 0, row.id)
  BY <1>1, <1>3, ComesToFirstRole
<1> QED
  BY <1>2, <1>3 DEF FindPermission

LEMMA InsertPermissionKeeps ==
    ASSUME NEW r \in Runs, RunInv(r), DOMAIN sync = Runs, TablesGrow, InsertPermission(r)
    PROVE  RunInv(r)'
PROOF
<1>1. Running(r)
  BY DEF InsertPermission, At, Running
<1>2. PICK row : /\ row \in permission' /\ row.name = Entry(r)
                 /\ ToRole(r, 0, row.id)
  <2>1. PICK id : /\ permission' = permission \cup {[id |-> id, name |-> Entry(r)]}
                  /\ ToRole(r, 0, id)
    BY DEF InsertPermission
  <2> DEFINE row == [id |-> id, name |-> Entry(r)]
  <2>2. row \in permission' /\ row.name = Entry(r) /\ row.id = id
    BY <2>1
  <2> HIDE DEF row
  <2> QED
    BY <2>1, <2>2
<1> QED
  BY <1>1, <1>2, ComesToFirstRole

LEMMA FindRoleKeeps ==
    ASSUME NEW r \in Runs, RunInv(r), DOMAIN sync = Runs, TablesGrow, FindRole(r)
    PROVE  RunInv(r)'
PROOF
<1> DEFINE s == sync[r]
           t == sync'[r]
<1>1. s.pc = "role" /\ Running(r) /\ permission' = permission
  BY DEF FindRole, At, Running
<1>2. PICK n, p : n = SystemRoles[s.who] /\ p = Entry(r)
  OBVIOUS
<1>3. n \in s.steady => RolesNamed(n) = {SeededAs[n]}
  BY <1>1 DEF RunInv, NamesKept
<1>4. CASE RolesNamed(n) = {} /\ NextRole(r)
  BY <1>1, <1>2, <1>3, <1>4, ThroughWithRole DEF Handling
<1>5. CASE \E id \in RolesNamed(n) : FindsRole(r, id)
  <2>1. PICK id \in RolesNamed(n) : t = [s EXCEPT !.pc = "mapping", !.id = id]
    BY <1>5 DEF FindsRole
  <2>2. DOMAIN s = RunFields
    BY DEF RunInv, RunShape
  <2> HIDE DEF s, t
  <2>3. DOMAIN t = RunFields /\ t.pc = "mapping" /\ t.entry = s.entry /\ t.perm = s.perm
        /\ t.who = s.who /\ t.id = id /\ t.steady = s.steady
    BY <2>1, <2>2 DEF RunFields
  <2>4. RunShape(r)'
    BY <1>1, <2>3 DEF RunInv, RunShape, s, t, Handling, Running, SystemRoles
  <2>5. Covers(r)'
    <3> SUFFICES ASSUME NEW e \in DOMAIN New, NEW i \in DOMAIN SystemRoles,
                        SystemRoles[i] \in s.steady,
                        New[e] \in Matrix[SystemRoles[i]], Passed(r, e, i)'
                 PROVE  InForce(SystemRoles[i], New[e])'
      BY <2>3 DEF Covers, SystemRoles, Matrix, t
    <3>1. Passed(r, e, i)
      BY <1>1, <2>3 DEF Passed, Handling, s, t
    <3> QED
      BY <3>1, InForceStays DEF RunInv, Covers, TablesGrow, s
  <2>6. NamesKept(r)'
    BY <1>1, <2>3 DEF RunInv, NamesKept, TablesGrow, Running, RolesNamed,
                      RoleExists, s, t
  <2>7. HoldsPermission(r)'
    BY <1>1, <2>3 DEF RunInv, HoldsPermission, TablesGrow, Entry, Handling, s, t
  <2>8. HoldsRole(r)'
    BY <1>2, <1>3, <2>1, <2>3 DEF HoldsRole, s, t, SystemRoles
  <2> QED
    BY <2>4, <2>5, <2>6, <2>7, <2>8 DEF RunInv
<1> QED
  BY <1>2, <1>4, <1>5 DEF FindRole, SystemRoles

\* The row a run finds or makes puts its entry in force for its role.
LEMMA GrantedAtHand ==
    ASSUME NEW r, HoldsPermission(r), HoldsRole(r), sync[r].pc \in {"mapping", "grant"},
           permission \subseteq permission',
           <<sync[r].id, sync[r].perm>> \in rolePermission',
           NEW n, NEW p, n = SystemRoles[sync[r].who], p = Entry(r), n \in sync[r].steady
    PROVE  InForce(n, p)'
PROOF
<1>1. PICK row \in permission : row.id = sync[r].perm /\ row.name = p
  BY DEF HoldsPermission, Handling
<1>2. sync[r].id = SeededAs[n]
  BY DEF HoldsRole
<1> QED
  BY <1>1, <1>2 DEF InForce

LEMMA FindMappingKeeps ==
    ASSUME NEW r \in Runs, RunInv(r), DOMAIN sync = Runs, TablesGrow, FindMapping(r)
    PROVE  RunInv(r)'
PROOF
<1>1. sync[r].pc = "mapping" /\ Running(r)
  BY DEF FindMapping, At, Running
<1>2. PICK n, p : n = SystemRoles[sync[r].who] /\ p = Entry(r)
  OBVIOUS
<1>3. CASE <<sync[r].id, sync[r].perm>> \in rolePermission /\ NextRole(r)
  <2>1. n \in sync[r].steady => InForce(n, p)'
    BY <1>1, <1>2, <1>3, GrantedAtHand DEF RunInv, TablesGrow
  <2> QED
    BY <1>1, <1>2, <1>3, <2>1, ThroughWithRole DEF Handling
<1>4. CASE RunGoes(r, "grant")
  BY <1>1, <1>4, GoesOn
<1> QED
  BY <1>3, <1>4 DEF FindMapping

LEMMA GrantKeeps ==
    ASSUME NEW r \in Runs, RunInv(r), DOMAIN sync = Runs, TablesGrow, Grant(r)
    PROVE  RunInv(r)'
PROOF
<1>1. sync[r].pc = "grant" /\ Running(r)
  BY DEF Grant, At, Running
<1>2. PICK n, p : n = SystemRoles[sync[r].who] /\ p = Entry(r)
  OBVIOUS
<1>3. CASE RunGoes(r, "failed")
  BY <1>1, <1>3, GoesOn
<1>4. CASE <<sync[r].id, sync[r].perm>> \in rolePermission' /\ NextRole(r)
  <2>1. n \in sync[r].steady => InForce(n, p)'
    BY <1>1, <1>2, <1>4, GrantedAtHand DEF RunInv, TablesGrow
  <2> QED
    BY <1>1, <1>2, <1>4, <2>1, ThroughWithRole DEF Handling
<1> QED
  BY <1>3, <1>4 DEF Grant

LEMMA RunStepKeeps ==
    ASSUME MatrixInv, NEW r \in Runs, RunNext(r)
    PROVE  MatrixInv'
PROOF
<1>1. TablesGrow
  BY DEF TablesGrow, RunNext, StartRun, FindPermission,
         InsertPermission, FindRole, FindMapping, Grant,
         RunDies
<1>2. DOMAIN sync = Runs /\ RunInv(r)
  BY DEF MatrixInv
<1>3. DOMAIN sync' = Runs /\ \A q \in Runs \ {r} : sync'[q] = sync[q]
  BY <1>2 DEF RunNext, StartRun, FindPermission,
         InsertPermission, FindRole, FindMapping, Grant,
         RunDies, RunGoes, ToRole, NextRole, FindsRole
<1>4. RunInv(r)'
  <2>1. CASE RunDies(r)
    BY <1>1, <1>2, <2>1, GoesOn DEF RunDies
  <2> QED
    BY <1>1, <1>2, <2>1, StartRunKeeps, FindPermissionKeeps, InsertPermissionKeeps,
       FindRoleKeeps, FindMappingKeeps, GrantKeeps DEF RunNext
<1>5. ASSUME NEW q \in Runs \ {r} PROVE RunInv(q)'
  BY <1>1, <1>3, OthersKeep DEF MatrixInv
<1> QED
  BY <1>1, <1>3, <1>4, <1>5 DEF MatrixInv, TablesGrow

-----------------------------------------------------------------------------
(* The role service beside the script.                                     *)

\* A role is found by the name its row has; "none" is nobody's.
LEMMA NamedByRow ==
    ASSUME NEW n, n # "none"
    PROVE  RolesNamed(n) = {id \in RoleIds : roleRow[id].name = n}
PROOF
  BY DEF RolesNamed, RoleExists, NoRole

\* A write of a role takes the names it touches off the steady ones.
LEMMA WritesKeepNames ==
    ASSUME DOMAIN roleRow = RoleIds,
           NEW r \in Runs, RunInv(r), NEW id, NEW row, Writes(id, row)
    PROVE  NamesKept(r)'
PROOF
<1> SUFFICES ASSUME Running(r)', NEW n \in sync'[r].steady
             PROVE  RolesNamed(n)' = {SeededAs[n]}
  BY DEF NamesKept
<1>1. DOMAIN sync[r] = RunFields /\ sync[r].steady \subseteq DOMAIN SeededAs
  BY DEF RunInv, RunShape
<1>2. sync'[r] = IF roleRow[id].name = row.name \/ ~Running(r) THEN sync[r]
                 ELSE [sync[r] EXCEPT !.steady = @ \ {roleRow[id].name, row.name}]
  BY DEF Writes
<1>3. Running(r)
  BY <1>2 DEF Running
<1>4. n \in sync[r].steady /\ (roleRow[id].name = row.name \/ n \notin {roleRow[id].name, row.name})
  <2>1. CASE roleRow[id].name = row.name
    BY <1>2, <2>1
  <2>2. CASE roleRow[id].name # row.name
    <3>1. sync'[r].steady = sync[r].steady \ {roleRow[id].name, row.name}
      BY <1>1, <1>2, <1>3, <2>2 DEF RunFields
    <3> QED
      BY <3>1
  <2> QED
    BY <2>1, <2>2
<1>5. n # "none" /\ RolesNamed(n) = {SeededAs[n]}
  BY <1>1, <1>3, <1>4, NamesOfRoles DEF RunInv, NamesKept
<1>6. RolesNamed(n) = {x \in RoleIds : roleRow[x].name = n}
  BY <1>5, NamedByRow
<1>7. RolesNamed(n)' = {x \in RoleIds : roleRow'[x].name = n}
  BY <1>5 DEF RolesNamed, RoleExists, NoRole
<1>8. \A x \in RoleIds : roleRow'[x].name = n <=> roleRow[x].name = n
  <2> TAKE x \in RoleIds
  <2>1. roleRow'[x] = IF x = id THEN row ELSE roleRow[x]
    BY DEF Writes
  <2> QED
    BY <2>1, <1>4
<1> QED
  BY <1>5, <1>6, <1>7, <1>8

LEMMA WritesKeep ==
    ASSUME MatrixInv, NEW id, NEW row, Writes(id, row),
           UNCHANGED <<permission, rolePermission>>
    PROVE  MatrixInv'
PROOF
<1>1. DOMAIN roleRow' = RoleIds /\ DOMAIN sync' = Runs
  BY DEF MatrixInv, Writes
<1>2. ASSUME NEW r \in Runs PROVE RunInv(r)'
  <2> DEFINE s == sync[r]
             t == sync'[r]
  <2>1. t = s \/ t = [s EXCEPT !.steady = @ \ {roleRow[id].name, row.name}]
    BY DEF Writes
  <2>2. RunInv(r) /\ DOMAIN s = RunFields
    BY DEF MatrixInv, RunInv, RunShape
  <2>3. NamesKept(r)'
    BY <2>2, WritesKeepNames DEF MatrixInv
  <2> HIDE DEF s, t
  <2>4. DOMAIN t = RunFields /\ t.pc = s.pc /\ t.entry = s.entry /\ t.perm = s.perm
        /\ t.who = s.who /\ t.id = s.id /\ t.steady \subseteq s.steady
    BY <2>1, <2>2 DEF RunFields
  <2>5. RunShape(r)'
    BY <2>2, <2>4 DEF RunInv, RunShape, Running, s, t, SystemRoles
  <2>6. Covers(r)'
    <3> SUFFICES ASSUME NEW e \in DOMAIN New, NEW i \in DOMAIN SystemRoles,
                        SystemRoles[i] \in s.steady,
                        New[e] \in Matrix[SystemRoles[i]], Passed(r, e, i)'
                 PROVE  InForce(SystemRoles[i], New[e])'
      BY <2>4 DEF Covers, SystemRoles, Matrix, t
    <3>1. Passed(r, e, i)
      BY <2>4 DEF Passed, s, t
    <3> QED
      BY <2>2, <3>1 DEF RunInv, Covers, InForce, s
  <2>7. HoldsPermission(r)' /\ HoldsRole(r)'
    BY <2>2, <2>4 DEF RunInv, HoldsPermission, HoldsRole, Entry, s, t, SystemRoles
  <2> QED
    BY <2>3, <2>5, <2>6, <2>7 DEF RunInv
<1> QED
  BY <1>1, <1>2 DEF MatrixInv

LEMMA NothingWrittenKeeps ==
    ASSUME MatrixInv, UNCHANGED <<roleRow, sync, permission, rolePermission>>
    PROVE  MatrixInv'
PROOF
<1>1. TablesGrow
  BY DEF TablesGrow
<1>2. ASSUME NEW r \in Runs PROVE RunInv(r)'
  BY <1>1, OthersKeep DEF MatrixInv
<1> QED
  BY <1>2 DEF MatrixInv

\* A call of the role service writes one row or none, and grants nothing.
LEMMA CallWrites ==
    ASSUME NEW c \in RoleCalls, CallNext(c)
    PROVE  /\ UNCHANGED <<permission, rolePermission>>
           /\ \/ UNCHANGED <<roleRow, sync>>
              \/ \E id, row : Writes(id, row)
PROOF
<1>1. CASE createRole(c)
  BY <1>1 DEF createRole
<1>2. CASE updateRole(c) \/ merge(c) \/ reread(c) \/ deleteRole(c)
  BY <1>2 DEF updateRole, merge, reread, deleteRole, Unwritten
<1>3. CASE save(c)
  BY <1>3 DEF save, Unwritten
<1>4. CASE drop(c)
  BY <1>4 DEF drop, Unwritten
<1> QED
  BY <1>1, <1>2, <1>3, <1>4 DEF CallNext

-----------------------------------------------------------------------------

LEMMA MatrixInvHolds == AccessSpec => []MatrixInv
PROOF
<1>1. AccessInit => MatrixInv
  <2> SUFFICES ASSUME AccessInit PROVE MatrixInv
    OBVIOUS
  <2>1. DOMAIN roleRow = RoleIds /\ DOMAIN sync = Runs
    BY DEF AccessInit
  <2>2. ASSUME NEW r \in Runs PROVE RunInv(r)
    <3>1. sync[r] = Unstarted
      BY DEF AccessInit
    <3>2. /\ DOMAIN sync[r] = RunFields /\ sync[r].pc = "none" /\ sync[r].entry = 1
          /\ sync[r].steady = {}
      BY <3>1 DEF Unstarted, RunFields
    <3> QED
      BY <3>2 DEF RunInv, RunShape, Covers, NamesKept, HoldsPermission, HoldsRole, Handling,
                  Running
  <2> QED
    BY <2>1, <2>2 DEF MatrixInv
<1>2. MatrixInv /\ [AccessNext]_accessVars => MatrixInv'
  <2> SUFFICES ASSUME MatrixInv, [AccessNext]_accessVars PROVE MatrixInv'
    OBVIOUS
  <2>1. CASE \E r \in Runs : RunNext(r)
    BY <2>1, RunStepKeeps
  <2>2. CASE \E c \in RoleCalls : CallNext(c)
    BY <2>2, CallWrites, WritesKeep, NothingWrittenKeeps
  <2>3. CASE UNCHANGED accessVars
    BY <2>3, NothingWrittenKeeps DEF accessVars
  <2> QED
    BY <2>1, <2>2, <2>3 DEF AccessNext
<1> QED
  BY <1>1, <1>2, PTL DEF AccessSpec

\* A run of the script that ended well has put the matrix in force for every role whose
\* name stayed with its row: for any roles and rows, any permissions the matrix gained,
\* any number of runs that overlap, and any calls of the role service beside them.
THEOREM ScriptPutsMatrixInForce == AccessSpec => []MatrixInForce
PROOF
<1>1. MatrixInv => MatrixInForce
  <2> SUFFICES ASSUME MatrixInv, NEW r \in Runs, sync[r].pc = "done",
                      NEW n \in sync[r].steady, NEW needs \in Asked,
                      needs \subseteq Matrix[n], NEW p \in needs
               PROVE  p \in findPermissionNamesByRoleId(SeededAs[n])
    BY DEF MatrixInForce, PermissionGuard
  <2>1. n \in DOMAIN SeededAs /\ SeededAs[n] \in RoleIds
    BY AccessAssumption DEF MatrixInv, RunInv, RunShape
  <2>2. PICK i \in DOMAIN SystemRoles : n = SystemRoles[i]
    BY <2>1, NamesOfRoles
  <2>3. CASE p \in ToSet(New)
    <3>1. PICK e \in DOMAIN New : p = New[e]
      BY <2>3 DEF ToSet
    <3>2. InForce(n, p)
      BY <2>2, <3>1 DEF MatrixInv, RunInv, Covers, Passed
    <3> QED
      BY <3>2 DEF InForce, findPermissionNamesByRoleId
  <2>4. CASE p \notin ToSet(New)
    <3>1. p \in Matrix[n] \ ToSet(New)
      BY <2>4
    <3>2. p \in Granted[SeededAs[n]]
      BY <2>1, <3>1 DEF Granted
    <3> QED
      BY <3>2 DEF findPermissionNamesByRoleId
  <2> QED
    BY <2>3, <2>4
<1> QED
  BY <1>1, MatrixInvHolds, PTL
=============================================================================
