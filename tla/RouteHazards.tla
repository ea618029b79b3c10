---------------------------- MODULE RouteHazards ----------------------------
(* Where a straight route meets an airspace and which obstacles are near it
   (planner/route-hazards.ts; routeHazards of planner.service.ts), segment by
   segment, on a plane with integer coordinates; a fraction of a segment is a
   pair <<n, d>> with d > 0.  A geometry is a set of polygons, a polygon a
   sequence of closed rings, the first the outer one and the others holes. *)
EXTENDS Integers, Sequences, FiniteSets

CONSTANTS Grid,       \* bound: coordinates
          Geometries, \* geometries of the airspaces
          Obstacles,  \* places of the obstacles
          Corridor,   \* ROUTE_OBSTACLE_CORRIDOR_NM
          Samples     \* points looked at on each segment by the property

ASSUME HazardAssumption ==
  /\ Grid \subseteq Int /\ Obstacles \subseteq Int \X Int
  /\ \A polygons \in Geometries :
       /\ IsFiniteSet(polygons) /\ polygons \subseteq Seq(Seq(Int \X Int)) \ {<<>>}
       /\ \A rings \in polygons : \A h \in DOMAIN rings :
            rings[h] # <<>> /\ rings[h][1] = rings[h][Len(rings[h])]
  /\ Corridor \in Nat /\ Samples \in Nat \ {0}

VARIABLES path,     \* points of the route
          geometry,
          obstacle,
          seg,      \* segment being looked at
          entry,    \* where the route enters: segment and fraction, or NoEntry
          boxed,    \* the obstacle is in the box of a segment
          near      \* the obstacle is in the corridor of a segment

hazardVars == <<path, geometry, obstacle, seg, entry, boxed, near>>

NoEntry == [seg |-> 0, at |-> <<0, 1>>]

HazardInit ==
  /\ path \in [1 .. 3 -> Grid \X Grid]
  /\ geometry \in Geometries /\ obstacle \in Obstacles
  /\ seg = 1 /\ entry = NoEntry
  /\ boxed = FALSE /\ near = FALSE

Times(r, s) == r[1] * s[2] - r[2] * s[1]
To(p, q) == <<q[1] - p[1], q[2] - p[2]>>
Before(t, u) == t[1] * u[2] < u[1] * t[2]

Sides(ring) == {<<ring[i], ring[i + 1]>> : i \in 1 .. Len(ring) - 1}

\* A ray to the right of the place crosses the side p -> q.
RayCrosses(place, p, q) ==
  /\ (p[2] > place[2]) # (q[2] > place[2])
  /\ IF q[2] > p[2] THEN (place[1] - p[1]) * (q[2] - p[2]) < (q[1] - p[1]) * (place[2] - p[2])
                    ELSE (place[1] - p[1]) * (q[2] - p[2]) > (q[1] - p[1]) * (place[2] - p[2])

\* The side that ends at a point; the first point follows the last.
Preceding(ring, i) == ring[IF i = 1 THEN Len(ring) ELSE i - 1]
InRing(place, ring) ==
  Cardinality({i \in DOMAIN ring : RayCrosses(place, Preceding(ring, i), ring[i])}) % 2 = 1

InPolygon(place, rings) == /\ InRing(place, rings[1])
                           /\ \A h \in 2 .. Len(rings) : ~InRing(place, rings[h])

\* The fractions of a -> b where it crosses c -> d: one at most.
Crossing(a, b, c, d) ==
  LET r == To(a, b)  s == To(c, d)
      denom == Times(r, s)
      sign == IF denom > 0 THEN 1 ELSE -1
      t == Times(To(a, c), s) * sign
      u == Times(To(a, c), r) * sign
  IN IF denom # 0 /\ t \in 0 .. sign * denom /\ u \in 0 .. sign * denom
     THEN {<<t, sign * denom>>} ELSE {}

Crossings == UNION {Crossing(path[seg], path[seg + 1], side[1], side[2]) :
                      side \in UNION {UNION {Sides(rings[h]) : h \in DOMAIN rings} : rings \in geometry}}

First(ts) == CHOOSE t \in ts : \A u \in ts : ~Before(u, t)

\* Mutant: the start of a leg is not looked at, only what the leg crosses.
EnteredBySide == IF Crossings = {} THEN NoEntry ELSE [seg |-> seg, at |-> First(Crossings)]

Entered ==
  IF \E rings \in geometry : InPolygon(path[seg], rings) THEN [seg |-> seg, at |-> <<0, 1>>]
  ELSE IF Crossings = {} THEN NoEntry
  ELSE [seg |-> seg, at |-> First(Crossings)]

-----------------------------------------------------------------------------
(* Obstacles *)

Lower(x, y) == IF x < y THEN x ELSE y
Upper(x, y) == IF x < y THEN y ELSE x

\* legBoxes: what the database is asked for.
InLegBox(a, b) == \A i \in {1, 2} : obstacle[i] \in Lower(a[i], b[i]) - Corridor .. Upper(a[i], b[i]) + Corridor

\* routeOffset: the distance to the nearest point of the segment, squared.
WithinOffset(a, b) ==
  LET r == To(a, b)  s == To(a, obstacle)
      length == r[1] * r[1] + r[2] * r[2]
      along == r[1] * s[1] + r[2] * s[2]
      beyond == To(b, obstacle)
  IN IF along <= 0 THEN s[1] * s[1] + s[2] * s[2] <= Corridor * Corridor
     ELSE IF along >= length THEN beyond[1] * beyond[1] + beyond[2] * beyond[2] <= Corridor * Corridor
     ELSE Times(r, s) * Times(r, s) <= Corridor * Corridor * length

(* One segment of the route. *)
LookAtSegment ==
  /\ seg < Len(path)
  /\ entry' = IF entry = NoEntry THEN Entered ELSE entry
  /\ boxed' = (boxed \/ InLegBox(path[seg], path[seg + 1]))
  /\ near' = (near \/ WithinOffset(path[seg], path[seg + 1]))
  /\ seg' = seg + 1
  /\ UNCHANGED <<path, geometry, obstacle>>

HazardNext == LookAtSegment
HazardSpec == HazardInit /\ [][HazardNext]_hazardVars

-----------------------------------------------------------------------------
(* Property *)

\* The point of a segment at the fraction t, and a point of the map, in units of 1/t[2].
Enlarged(p, n) == <<n * p[1], n * p[2]>>
Between(a, b, t) == <<(t[2] - t[1]) * a[1] + t[1] * b[1], (t[2] - t[1]) * a[2] + t[1] * b[2]>>
PointAt(i, t) == Between(path[i], path[i + 1], t)

EnlargedRing(ring, n) == [i \in DOMAIN ring |-> Enlarged(ring[i], n)]

InsideAt(i, t) ==
  \E rings \in geometry : InPolygon(PointAt(i, t), [h \in DOMAIN rings |-> EnlargedRing(rings[h], t[2])])

OnSide(p, c, d) == /\ Times(To(c, d), To(c, p)) = 0
                   /\ \A x \in {1, 2} : p[x] \in Lower(c[x], d[x]) .. Upper(c[x], d[x])

OnBoundaryAt(i, t) ==
  \E rings \in geometry : \E h \in DOMAIN rings : \E side \in Sides(rings[h]) :
    OnSide(PointAt(i, t), Enlarged(side[1], t[2]), Enlarged(side[2], t[2]))

\* By then the route has entered.
EnteredBy(i, t) == /\ entry # NoEntry
                   /\ entry.seg < i \/ (entry.seg = i /\ ~Before(t, entry.at))

\* Whatever the airspace and the route: where the route is inside it has entered
\* before, and the entry is a point of the airspace.
EntriesAreRight ==
  /\ \A i \in 1 .. seg - 1, k \in 0 .. Samples : InsideAt(i, <<k, Samples>>) => EnteredBy(i, <<k, Samples>>)
  /\ entry # NoEntry => InsideAt(entry.seg, entry.at) \/ OnBoundaryAt(entry.seg, entry.at)

\* The same of convex rings that run counter-clockwise, where a place is inside if
\* it is on the left of every side.
Left(p, t, side, strictly) ==
  LET c == Enlarged(side[1], t[2])
      r == To(side[1], side[2])
  IN Times(r, To(c, p)) > 0 \/ (~strictly /\ Times(r, To(c, p)) = 0)

InsideRing(p, t, ring, strictly) == \A side \in Sides(ring) : Left(p, t, side, strictly)

Inside(i, t, strictly) ==
  \E rings \in geometry :
    /\ InsideRing(PointAt(i, t), t, rings[1], strictly)
    /\ \A h \in 2 .. Len(rings) : ~InsideRing(PointAt(i, t), t, rings[h], ~strictly)

Convex(ring) == \A i \in DOMAIN ring : InsideRing(ring[i], <<0, 1>>, ring, FALSE)

ConvexEntriesAreRight ==
  seg > 1 /\ (\A rings \in geometry : \A h \in DOMAIN rings : Convex(rings[h])) =>
  /\ \A i \in 1 .. seg - 1, k \in 0 .. Samples : Inside(i, <<k, Samples>>, TRUE) => EnteredBy(i, <<k, Samples>>)
  /\ entry # NoEntry => Inside(entry.seg, entry.at, FALSE)

\* An obstacle in the corridor of a leg is among those the database is asked for.
ObstaclesAreAsked == near => boxed

HazardsAreSeen == EntriesAreRight /\ ObstaclesAreAsked
=============================================================================
