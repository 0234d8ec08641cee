-------------------------- MODULE MCTeamMembership --------------------------
(* Small instances of TeamMembership. *)
EXTENDS TeamMembership, TLC

CONSTANTS t1, t2, u1, c1, c2, i1, i2, i3, p1, p2

Alike == Permutations({i1, i2}) \cup Permutations(Procs)

\* Bound: what happens after a team was disturbed or an account doubled is not
\* looked at; teams share neither rows nor leader fields.
Undisturbed == disturbed = {} /\ doubled = {}

\* Bound: t2 is only where the account may already be a plain member.
Elsewhere == \A p \in Procs : ctx[p].team = t2 =>
    ctx[p].op = "add" /\ ctx[p].role = "MEMBER" /\ ctx[p].person \in Users

\* Bound: calls overlap while there are two rows, and follow each other from
\* when c2 joins two active members as the third.
ThirdAlone ==
    /\ \A i \in Ids : rows[i] # Unused => (i = i3 <=> rows[i].person = c2)
    /\ rows[i3] # Unused => \E p \in Procs : ctx[p].pc = "idle"
    /\ \A p \in Procs : ctx[p].op = "add" /\ ctx[p].person = c2 =>
          Active(t1) = {i1, i2} /\ \A q \in Procs \ {p} : ctx[q].pc = "idle"

Bounds == Undisturbed /\ Elsewhere /\ ThirdAlone
=============================================================================
