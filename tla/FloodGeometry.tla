---------------------------- MODULE FloodGeometry ---------------------------
(***************************************************************************)
(* The plane geometry that decides whether a flood zone blocks a road, over *)
(* whole-number coordinates <<lat, lng>>.  A zone is the outer ring of a    *)
(* GeoJSON polygon: its last point is its first one again.                  *)
(***************************************************************************)
EXTENDS FiniteSetsExt, Integers, Sequences

\* Points i and j of a ring where its boundary is walked: j follows i, around.
Before(ring, i) == IF i = 1 THEN Len(ring) ELSE i - 1

\* Ray casting: the sides between i and the point before it that a ray from p
\* crosses.  The division by yj - yi is multiplied out, with its sign.
SideCrossed(p, a, b) ==
    /\ (a[2] > p[2]) # (b[2] > p[2])
    /\ LET left  == (p[1] - a[1]) * (b[2] - a[2])
           right == (b[1] - a[1]) * (p[2] - a[2])
       IN  IF b[2] > a[2] THEN left < right ELSE left > right

isPointInPolygon(p, ring) ==
    Cardinality({i \in DOMAIN ring : SideCrossed(p, ring[i], ring[Before(ring, i)])}) % 2 = 1

ccw(p1, p2, p3) ==
    (p3[2] - p1[2]) * (p2[1] - p1[1]) > (p2[2] - p1[2]) * (p3[1] - p1[1])

isSegmentIntersecting(a, b, c, d) ==
    /\ ccw(a, c, d) # ccw(b, c, d)
    /\ ccw(a, b, c) # ccw(a, b, d)

\* Mutant of isEdgeBlocked: only the points of the road are looked at.
EndsFlooded(road, ring) ==
    \E i \in DOMAIN road : isPointInPolygon(road[i], ring)

\* A point of the road lies in the zone, or a stretch of it crosses a side.
isEdgeBlocked(road, ring) ==
    \/ \E i \in DOMAIN road : isPointInPolygon(road[i], ring)
    \/ \E i \in 1..Len(road) - 1, j \in 1..Len(ring) - 1 :
          isSegmentIntersecting(road[i], road[i + 1], ring[j], ring[j + 1])

-----------------------------------------------------------------------------
(* The reference: a road runs through a convex zone if some point of it is *)
(* on the same side of all its boundary.  Points are looked at in Parts    *)
(* parts of each stretch.                                                  *)

\* Which side of the line from a to b the point p / n is on.
Turn(a, b, p, n) == (b[1] - a[1]) * (p[2] - n * a[2]) - (b[2] - a[2]) * (p[1] - n * a[1])

StrictlyIn(p, n, ring) ==
    \E sign \in {-1, 1} : \A j \in 1..Len(ring) - 1 :
        sign * Turn(ring[j], ring[j + 1], p, n) > 0

RunsThrough(road, ring, Parts) ==
    \E i \in 1..Len(road) - 1, k \in 0..Parts :
        StrictlyIn(<<(Parts - k) * road[i][1] + k * road[i + 1][1],
                     (Parts - k) * road[i][2] + k * road[i + 1][2]>>, Parts, ring)
=============================================================================
