------------------------------ MODULE MCData ------------------------------
(* Parts of the worker and of the API that share nothing, checked in one run:
   each behaviour is a behaviour of one of them, the others standing still. *)
EXTENDS OsmSync, OsmImport, Rebuild, Commons, Catalogue, Matching, Cache, Planner, RouteHazards,
        Surroundings, Stopovers, MCAirspaces, TLC

CONSTANTS a1, a2, p1, p2, s1, v1, v2, i1, i2, f1, f2, h1, LFAA, LFBB, k1, k2, k3, x1

VARIABLE part

Square(a, b) == <<<<a, a>>, <<b, a>>, <<b, b>>, <<a, b>>, <<a, a>>>>
Triangle == <<<<0, 1>>, <<4, 2>>, <<1, 4>>, <<0, 1>>>>
Arrow == <<<<2, 2>>, <<4, 3>>, <<2, 4>>, <<3, 3>>, <<2, 2>>>>
TriangleZone == {<<Triangle>>}

(* Only the part that moves starts anywhere; the others start in one state. *)
MCInit ==
  /\ part \in {"osm", "rows", "rebuild", "commons", "catalogue", "matching", "cache", "planner", "hazards",
              "airspaces", "around", "stopovers"}
  /\ part # "rows" => lines = <<>>
  /\ part # "rebuild" => upstream = Item /\ shown = {}
  /\ part # "commons" => onCommons = [s \in Site |-> v1]
  /\ airports = [f \in Airfield |-> IF f = f1 THEN [icao |-> LFAA, text |-> 0] ELSE NoSheet.hash]
  /\ part # "matching" => /\ strip = [a \in 1 .. Strips |-> [at |-> 0, icao |-> NoIcao]]
                          /\ line = [r \in 1 .. Lines |-> [at |-> 0, codes |-> <<>>]]
  /\ part # "planner" => /\ route = [legs |-> 1, at |-> <<0, 1>>, sells |-> {}, home |-> FALSE]
                         /\ tank = 0 /\ stay = 0 /\ time = 0
  /\ part # "hazards" => path = <<<<0, 0>>, <<0, 0>>, <<0, 0>>>> /\ geometry = TriangleZone
  /\ part # "airspaces" => issued = [x \in Airspace |-> 1]
  /\ part # "around" => outline = CHOOSE a \in Outlines : TRUE
  /\ part # "stopovers" => phase = "asked" /\ rows = <<>>
  /\ RowsInit /\ StopoversInit /\ OsmInit /\ RbInit /\ CommonsInit /\ CatalogueInit
  /\ CacheInit /\ AirspacesInit /\ AroundInit /\ MatchingInit /\ PlannerInit /\ HazardInit

Others(p) == /\ p # "osm" => UNCHANGED osmVars
             /\ p # "rows" => UNCHANGED rowVars
             /\ p # "rebuild" => UNCHANGED rbVars
             /\ p # "commons" => UNCHANGED commonsVars
             /\ p # "catalogue" => UNCHANGED catalogueVars
             /\ p # "matching" => UNCHANGED matchingVars
             /\ p # "cache" => UNCHANGED cacheVars
             /\ p # "planner" => UNCHANGED plannerVars
             /\ p # "hazards" => UNCHANGED hazardVars
             /\ p # "airspaces" => UNCHANGED airspaceVars
             /\ p # "around" => UNCHANGED aroundVars
             /\ p # "stopovers" => UNCHANGED stopoverVars

MCNext ==
  /\ UNCHANGED part
  /\ \/ part = "osm" /\ OsmNext /\ Others("osm")
     \/ part = "rows" /\ RowsNext /\ Others("rows")
     \/ part = "rebuild" /\ RbNext /\ Others("rebuild")
     \/ part = "commons" /\ CommonsNext /\ Others("commons")
     \/ part = "catalogue" /\ CatalogueNext /\ Others("catalogue")
     \/ part = "matching" /\ MatchingNext /\ Others("matching")
     \/ part = "cache" /\ CacheNext /\ Others("cache")
     \/ part = "planner" /\ PlannerNext /\ Others("planner")
     \/ part = "hazards" /\ HazardNext /\ Others("hazards")
     \/ part = "airspaces" /\ AirspacesNext /\ Others("airspaces")
     \/ part = "around" /\ AroundNext /\ Others("around")
     \/ part = "stopovers" /\ StopoversNext /\ Others("stopovers")

MCSpec == MCInit /\ [][MCNext]_<<part, osmVars, rowVars, rbVars, commonsVars, catalogueVars, matchingVars,
                                 cacheVars, plannerVars, hazardVars, airspaceVars, aroundVars, stopoverVars>>

(* Redis keeps one key only, and one call at most is about the others, which
   are there to fill the memory and are answered in full. *)
OneKeyCounts ==
  /\ \A k \in CacheKey \ {k1} : redis[k] = Absence /\ memory[k].kind # "partial"
  /\ \A c \in Caller : caller[c].key = k1 \/ caller[c].got.kind # "partial"
  /\ \E c \in Caller : \A d \in Caller \ {c} : caller[d].key = k1

Fields == {a1, a2}
Pois == {p1, p2}
Items == 1 .. 5
UnfitItems == {2}
Sites == {s1}
Images == {v1, v2}
Workers == {i1, i2}
Airfields == {f1, f2}
Handmades == {h1}
ContestedCodes == {LFAA}
CodesOfRows == {LFAA, LFBB}
ListsOfCodes == {<<>>, <<LFAA, LFBB>>}
Positions == 0 .. 2
Keys == {k1, k2, k3}
Halts == {0, 3}
Coordinates == {0, 2, 3, 4}
Zones == {TriangleZone, {<<Square(0, 4), Square(1, 3)>>}, {<<Square(0, 2)>>, <<Arrow>>}}
Masts == {<<2, 2>>}
OpenAipSpaces == {x1}
Corners == {<<x, y>> : x, y \in {0, 1, 3, 6, 8}}
Ponds == {<<2, 3>>, <<3, 2>>, <<5, 2>>, <<2, 6>>, <<5, 6>>}
Areas == {{<<<<<<0, 0>>, p, <<8, 8>>, q, <<0, 0>>>>>>} : p, q \in Corners}
         \cup {{<<Square(0, 8), <<<<2, 2>>, p, <<5, 5>>, q, <<2, 2>>>>>>} : p, q \in Ponds}
         \cup {{<<<<<<0, 0>>, <<4, 0>>, <<4, 2>>, <<0, 0>>>>>>, <<<<p, <<8, 8>>, <<6, 8>>, <<5, 7>>, p>>>>} : p \in Corners}
Lookouts == {<<x, y>> : x \in {-3, 0, 2, 4, 7, 9, 11}, y \in {-3, 0, 1, 4, 9}}
Cables == {<<<<0, 0>>, <<4, 4>>, <<8, 4>>>>, <<<<6, 0>>, <<6, 0>>>>, <<<<0, 8>>, <<8, 8>>>>, <<<<1, 3>>, <<1, 3>>>>}
Views == {<<<<x, y>>, <<x + 2, y + 2>>>> : x, y \in {-3, 0, 3, 9}}
BusStops == {[name |-> n, at |-> x, tags |-> t, capacity |-> IF x = 2 THEN 1 ELSE 0] :
               n \in {{}, {"Gare"}, {"Gare", "Centrale"}}, x \in {-1, 0, 2, 3, 5},
               t \in {{"bus_stop"}, {"rail", "stop_position"}}}
Openings == {[days |-> d, ranges |-> r, complex |-> FALSE] :
               d \in {{<<1, 1>>}, {<<1, 2>>}, {<<3, 3>>}, {<<2, 2>>, <<3, 3>>}, {<<3, 1>>}},
               r \in {{}, {<<0, 1>>, <<2, 4>>}, {<<3, 1>>}}}
            \cup {[days |-> {}, ranges |-> {<<1, 3>>}, complex |-> c] : c \in BOOLEAN}
Symmetric == Permutations(Workers)
=============================================================================
