---------------------------- MODULE Surroundings ----------------------------
(* What lies around an aerodrome or in a window of the map: the protected    *)
(* areas as they are published, simplified for storage and told within a     *)
(* radius (ign/protected-areas.geometry.ts, findProtectedAreasNear), the     *)
(* wires and masts within it, nearest first (findAerialLinesNear,            *)
(* findObstaclesNear), the airspaces of a window (airspace.service.ts).  A   *)
(* plane with integer coordinates; a geometry is a set of polygons as in     *)
(* RouteHazards; the square of a distance is <<n, d>>; a mast is a wire of   *)
(* no length.                                                                *)
EXTENDS RouteHazards, Stopovers, FiniteSetsExt, SequencesExt

CONSTANTS Outlines,  \* geometries as published
          Wires,     \* lines of the table
          Spots,     \* aerodromes asked about
          Windows,   \* windows of the map: <<lower corner, upper corner>>
          Radius,
          Tolerance, \* SIMPLIFY_TOLERANCE_DEG
          Mesh,      \* step of the coordinates that are stored
          MaxShown   \* MAX_OBSTACLES, MAX_AERIAL_LINES

ASSUME SurroundingsAssumption ==
  /\ Radius \in Nat /\ Tolerance \in Nat /\ Mesh \in Nat \ {0} /\ MaxShown \in Nat
  /\ \A polygons \in Outlines :
       /\ IsFiniteSet(polygons) /\ polygons \subseteq Seq(Seq(Int \X Int)) \ {<<>>}
       /\ \A rings \in polygons : \A h \in DOMAIN rings : rings[h] # <<>>
  /\ IsFiniteSet(Wires) /\ \A w \in Wires : w \in Seq(Int \X Int) /\ Len(w) >= 2
  /\ Spots \subseteq Int \X Int /\ Windows \subseteq (Int \X Int) \X (Int \X Int)

VARIABLES outline, \* the area as published
          area,    \* its row: what is left of it once simplified
          asked,   \* "published", then "imported", then what is asked for
          spot,    \* the aerodrome, or the window
          told     \* the answer

aroundVars == <<outline, area, asked, spot, told>>

AroundInit == /\ outline \in Outlines /\ area = {}
              /\ asked = "published" /\ spot = <<0, 0>> /\ told = <<>>

-----------------------------------------------------------------------------
(* Distances *)

Norm2(p) == p[1] * p[1] + p[2] * p[2]

Distance2(p, a, b) ==
  LET r == To(a, b)  s == To(a, p)
      along == r[1] * s[1] + r[2] * s[2]
  IN IF along <= 0 \/ a = b THEN <<Norm2(s), 1>>
     ELSE IF along >= Norm2(r) THEN <<Norm2(To(b, p)), 1>>
     ELSE <<Times(r, s) * Times(r, s), Norm2(r)>>

Within(d2, r) == d2[1] <= r * r * d2[2]
Nearest(ds) == First(ds)

Edges(p, line) == {Distance2(p, line[i], line[i + 1]) : i \in 1 .. Len(line) - 1}
NearestPoint(p, line) == Nearest(Edges(p, line))

RingsOf(polygons) == UNION {ToSet(rings) : rings \in polygons}

\* Nothing inside, else the distance to the nearest side of any ring.
DistanceToArea(p, polygons) ==
  IF \E rings \in polygons : InPolygon(p, rings) THEN <<0, 1>>
  ELSE Nearest(UNION {Edges(p, ring) : ring \in RingsOf(polygons)})

-----------------------------------------------------------------------------
(* simplifyGeometry *)

\* Mutant: only one half of a ring that is divided is looked at again.
KeptOfOneHalf(ring) ==
  LET kept[r \in (DOMAIN ring) \X (DOMAIN ring)] ==
        LET off(i) == Distance2(ring[i], ring[r[1]], ring[r[2]])
            inner == r[1] + 1 .. r[2] - 1
            farthest == {i \in inner : \A j \in inner : ~Before(off(i), off(j))}
        IN IF inner = {} \/ Within(off(Min(farthest)), Tolerance) THEN {}
           ELSE {Min(farthest)} \cup kept[<<Min(farthest), r[2]>>]
  IN {1, Len(ring)} \cup kept[<<1, Len(ring)>>]

\* Douglas-Peucker: the points that stay.
Retained(ring) ==
  LET kept[r \in (DOMAIN ring) \X (DOMAIN ring)] ==
        LET off(i) == Distance2(ring[i], ring[r[1]], ring[r[2]])
            inner == r[1] + 1 .. r[2] - 1
            farthest == {i \in inner : \A j \in inner : ~Before(off(i), off(j))}
        IN IF inner = {} \/ Within(off(Min(farthest)), Tolerance) THEN {}
           ELSE {Min(farthest)} \cup kept[<<r[1], Min(farthest)>>] \cup kept[<<Min(farthest), r[2]>>]
  IN {1, Len(ring)} \cup kept[<<1, Len(ring)>>]

SimplifyRing(ring) ==
  IF Len(ring) <= 4 THEN ring
  ELSE LET order == SetToSortSeq(Retained(ring), <) IN [k \in DOMAIN order |-> ring[order[k]]]

RoundTo(x) == ((2 * x + Mesh) \div (2 * Mesh)) * Mesh

\* Rounded, without a point that repeats the one before it.
Redrawn(ring) ==
  LET points == [i \in DOMAIN SimplifyRing(ring) |-> <<RoundTo(SimplifyRing(ring)[i][1]), RoundTo(SimplifyRing(ring)[i][2])>>]
      order == SetToSortSeq({i \in DOMAIN points : i = 1 \/ points[i] # points[i - 1]}, <)
  IN [k \in DOMAIN order |-> points[order[k]]]

Standing(ring) == Len(ring) >= 4

SimplifyGeometry(polygons) ==
  {<<Redrawn(rings[1])>> \o SelectSeq([h \in 1 .. Len(rings) - 1 |-> Redrawn(rings[h + 1])], Standing) :
     rings \in {rings \in polygons : Standing(Redrawn(rings[1]))}}

-----------------------------------------------------------------------------
(* What the table is asked for *)

\* The rectangle around points meets the one from low to high.
Lowest(points, c) == Min({p[c] : p \in points})
Highest(points, c) == Max({p[c] : p \in points})
Meets(points, low, high) == \A c \in {1, 2} : Lowest(points, c) <= high[c] /\ Highest(points, c) >= low[c]
MeetsBox(p, points) == Meets(points, <<p[1] - Radius, p[2] - Radius>>, <<p[1] + Radius, p[2] + Radius>>)

ImportArea ==
  /\ asked = "published"
  /\ area' = SimplifyGeometry(outline)
  /\ asked' = "imported"
  /\ UNCHANGED <<outline, spot, told>>

AskedAt(s) == asked = "imported" /\ spot' = s /\ UNCHANGED <<outline, area>>

FindProtectedAreasNear(s) ==
  /\ AskedAt(s) /\ asked' = "areas"
  /\ told' = IF /\ area # {} /\ MeetsBox(s, UNION {ToSet(rings[1]) : rings \in area})
                /\ Within(DistanceToArea(s, area), Radius)
             THEN <<DistanceToArea(s, area)>> ELSE <<>>

NearestFirst(s, wires) ==
  \A i, j \in DOMAIN wires : i < j => ~Before(NearestPoint(s, wires[j]), NearestPoint(s, wires[i]))

\* Nearest first, equals in any order, and no more than the answer holds.
FindAerialLinesNear(s) ==
  /\ AskedAt(s) /\ asked' = "wires"
  /\ LET found == {w \in Wires : MeetsBox(s, ToSet(w)) /\ Within(NearestPoint(s, w), Radius)}
     IN \E order \in SetToSeqs(found) :
          NearestFirst(s, order) /\ told' = SubSeq(order, 1, Min({MaxShown, Len(order)}))

\* findByBbox: the airspaces are drawn as published.
FindByBbox(w) ==
  /\ AskedAt(w) /\ asked' = "window"
  /\ told' = IF Meets(UNION {ToSet(ring) : ring \in RingsOf(outline)}, w[1], w[2]) THEN <<w>> ELSE <<>>

AroundNext ==
  \/ ImportArea
  \/ \E s \in Spots : FindProtectedAreasNear(s) \/ FindAerialLinesNear(s)
  \/ \E w \in Windows : FindByBbox(w)

AroundSpec == AroundInit /\ [][AroundNext]_aroundVars

-----------------------------------------------------------------------------
(* Property *)

Slack == Tolerance + Mesh

\* An outline that fits in a strip narrower than the tolerance.
Thin(ring) == \E a, b \in ToSet(ring) : \A p \in ToSet(ring) : Within(Distance2(p, a, b), Slack)

Wide == {rings \in outline : ~Thin(rings[1])}

\* A sample of the points of a line, each over Samples.
Along(line) == UNION {{Between(line[i], line[i + 1], <<k, Samples>>) : k \in 0 .. Samples} :
                        i \in 1 .. Len(line) - 1}

\* Simplifying and rounding move an area by no more than their tolerances, whatever
\* it looks like: one that is wider than that is told from everywhere it is near,
\* none is told from farther, and its distance is right to that much.
AreasAreTold ==
  asked = "areas" =>
    /\ Wide # {} /\ Within(DistanceToArea(spot, Wide), Radius - Slack) => told # <<>>
    /\ told # <<>> => \A k \in 0 .. Radius :
         /\ Within(told[1], k) => Within(DistanceToArea(spot, outline), k + Slack)
         /\ Wide # {} /\ Within(DistanceToArea(spot, Wide), k) => Within(told[1], k + Slack)

\* A wire that passes within the radius is told, unless nearer ones fill the answer.
WiresAreTold ==
  asked = "wires" =>
    \A w \in Wires \ ToSet(told) :
      \/ \A p \in Along(w) : Norm2(To(Enlarged(spot, Samples), p)) > Radius * Radius * (Samples * Samples)
      \/ /\ Len(told) = MaxShown
         /\ \A v \in ToSet(told) : ~Before(NearestPoint(spot, w), NearestPoint(spot, v))

\* An airspace that a window shows a part of is in what the window is given.
WindowsAreWhole ==
  asked = "window" =>
    \A p \in Spots :
      /\ \E rings \in outline : InPolygon(p, rings)
      /\ \A c \in {1, 2} : p[c] \in spot[1][c] .. spot[2][c]
      => told # <<>>

\* What a pilot is told of the way and of the surroundings: the airspaces and
\* obstacles of a route, the places and wires near an aerodrome, the airspaces of a
\* window of the map.
SurroundingsAreTold == HazardsAreSeen /\ PlacesAreRight /\ WiresAreTold /\ WindowsAreWhole

\* The same of the outlines where a second definition says what is right: of convex
\* airspaces, and of areas before they were simplified.
OutlinesAreRight == ConvexEntriesAreRight /\ AreasAreTold
=============================================================================
