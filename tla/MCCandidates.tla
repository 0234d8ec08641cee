--------------------------- MODULE MCCandidates -----------------------------
(* Finite instances of Candidates: three teams, of which two are kept.      *)
EXTENDS Candidates, TLC

CONSTANTS t1, t2, t3

Types == t1 :> "Y_TE" @@ t2 :> "PCCC" @@ t3 :> "DAN_PHONG"
Capacities == t1 :> 0 @@ t2 :> 1 @@ t3 :> 2

Flood == [type \in {"Y_TE", "PCCC", "DAN_PHONG"} |->
             CASE type = "Y_TE" -> 8 [] type = "PCCC" -> 6 [] OTHER -> 0]
Medical == [type \in {"Y_TE", "PCCC"} |-> IF type = "Y_TE" THEN 0 ELSE 8]

\* As seeded: of the four weights of traffic none is.
Seeded == [steps |-> <<2, 4>>, keys |-> [dist |-> 5, cases |-> 3, skill |-> 2], matrix |-> <<>>,
           mapping |-> {Medical}, threshold |-> 5, delta |-> 3, traffic |-> "true", four |-> <<>>]
Critical == "CRITICAL" :> [dist |-> 8, cases |-> 1, skill |-> 1]
Default == "DEFAULT" :> [dist |-> 4, cases |-> 1, skill |-> 5]

\* Steps that fall, text among them, text alone, one step; a matrix with the
\* severity, with DEFAULT only and without both; no skill mapping, or none for
\* this kind of request; no early stop; a distance threshold that is zero or
\* text; weights that are negative or text; traffic that is not wanted.
SomeSettings ==
    {Seeded,
     [Seeded EXCEPT !.traffic = "", !.keys = <<>>, !.mapping = {}],
     [Seeded EXCEPT !.traffic = "", !.steps = <<4, NaN, 2>>, !.matrix = Critical @@ Default],
     [Seeded EXCEPT !.traffic = "false", !.steps = <<NaN>>, !.delta = 0, !.mapping = {<<>>},
                    !.four = "dist" :> -1],
     [Seeded EXCEPT !.traffic = "", !.matrix = Default, !.threshold = 0],
     [Seeded EXCEPT !.traffic = "", !.delta = NaN, !.steps = <<2>>,
                    !.keys = "cases" :> NaN]}
=============================================================================
