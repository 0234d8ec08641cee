------------------------------ MODULE MCRouting -----------------------------
(* Finite instances of Routing: a square of checkpoints with a diagonal and *)
(* a bend.                                                                  *)
EXTENDS Routing, TLC

CONSTANTS n1, n2, n3, n4, m1, m2

ClientSymmetry == Permutations(Clients)
Square == <<n1, n2, n3, n4>>
Positions == n1 :> <<1, 1>> @@ n2 :> <<1, 9>> @@ n3 :> <<9, 9>> @@ n4 :> <<9, 1>>
Roads == <<<<n1, n2>>, <<n2, n3>>, <<n4, n3>>, <<n1, n4>>, <<n1, n3>>>>
Kilometres == <<2, 2, 1, 2, 4>>
Bends == <<<<<<1, 1>>, <<1, 9>>>>, <<<<1, 9>>, <<5, 11>>, <<9, 9>>>>,
           <<<<9, 1>>, <<9, 9>>>>, <<<<1, 1>>, <<9, 1>>>>, <<<<1, 1>>, <<9, 9>>>>>>
Corners == {<<1, 2>>, <<9, 8>>}

\* A pool in the middle, one over the road from n1 to n2, one over that from n4
\* to n3, and one that cuts the bend of the road from n2 to n3 between its points.
Box(x1, y1, x2, y2) == <<<<x1, y1>>, <<x2, y1>>, <<x2, y2>>, <<x1, y2>>, <<x1, y1>>>>
Pools == {Box(4, 3, 6, 8), Box(0, 4, 2, 6), Box(8, 2, 10, 4), <<<<4, 10>>, <<6, 10>>, <<4, 14>>, <<4, 10>>>>}
=============================================================================
