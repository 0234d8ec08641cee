----------------------------- MODULE MCSeeding ------------------------------
(* Two administrators of the list, who may both be there already with the   *)
(* wrong province, and one resident, who may register or be made by a       *)
(* script.  The province of the second is not among the provinces.          *)
EXTENDS Seeding, TLC

CONSTANTS admin, stray, resident

MCPersons == {admin, stray, resident}
MCNewcomers == {resident}
MCProvinces == {2}
MCRoles == {"PROVINCE_ADMIN", "USER", "VOLUNTEER"}

MCPlan == << <<"province", 1>>, <<"province", 2>>,
             <<"role", "PROVINCE_ADMIN">>, <<"role", "USER">>,
             <<"specialization", 1>>, <<"admin", stray>>, <<"admin", admin>>,
             <<"setting", 1>>, <<"category", 1>> >>
MCSeedRole == [p \in {admin, stray} |-> "PROVINCE_ADMIN"]
MCSeedProvince == (admin :> 1) @@ (stray :> 45)

\* Nobody is there yet, or both are from an older list: one locked, the other deleted.
MCFirstUsers == {(admin :> rows[1]) @@ (stray :> rows[2]) @@ (resident :> None) :
    rows \in {<<None, None>>,
              <<[Account(admin, 2, FALSE) EXCEPT !.isActive = FALSE],
                [Account(stray, 2, FALSE) EXCEPT !.isActive = FALSE, !.deletedAt = TRUE]>>}}

MCLists == {<<admin, resident>>}

\* An account is unlocked; on an active one this writes nothing, as a new name or
\* password does here.  Or the body names what the DTO does not have: the id of
\* another account, and no date of deletion.
MCEdits == {[isActive |-> TRUE], [id |-> stray, deletedAt |-> FALSE]}

\* The slots are alike.
Slots == Permutations(Calls)

MCRoleChoices == {"USER"}
=============================================================================
