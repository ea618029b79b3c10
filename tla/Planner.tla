------------------------------ MODULE Planner ------------------------------
(* The route of a briefing (planner.calc.ts, computeRoute): flown leg by leg,
   filling the tank only where the next fuel could not be reached otherwise,
   with the fees of the landings and of the nights parked.  A unit of distance
   is flown in a unit of time, and is also what a unit of fuel is for; every
   landing and every night costs 1.  computeTrip and stayNights, which the
   search uses for a return trip, are stated beside it. *)
EXTENDS Integers, FiniteSets

CONSTANTS MaxLegs,     \* bound: legs
          MaxDistance, \* bound: length of a leg
          MaxRange,    \* bound: usable range
          Day,         \* length of a day
          Taxi,        \* departureGroundMinutes, arrivalGroundMinutes
          Stays,       \* values of stayMinutes
          Precision    \* timeHours is rounded to a multiple of it

ASSUME PlannerAssumption == /\ MaxLegs \in Nat /\ MaxDistance \in Nat /\ MaxRange \in Nat /\ Taxi \in Nat
                            /\ Day \in Nat \ {0} /\ Precision \in Nat \ {0} /\ Stays \subseteq Nat

VARIABLES route,    \* the legs, how far along it each point is, the points that sell our fuel,
                    \* whether it ends where it began
          tank,     \* usableRangeNm
          stay,
          leg,      \* leg being flown
          onBoard,  \* onBoardNm
          time,     \* clock
          within,   \* no leg so far was out of range
          refuels,  \* points with refuelBefore
          landings, \* landingFees
          nights    \* parkingFees

plannerVars == <<route, tank, stay, leg, onBoard, time, within, refuels, landings, nights>>

\* The sums of the distances of n legs.
Mileages(n) == {m \in [1 .. n + 1 -> 0 .. n * MaxDistance] :
                  m[1] = 0 /\ \A i \in 1 .. n : m[i + 1] - m[i] \in 1 .. MaxDistance}

PlannerInit ==
  /\ \E n \in 1 .. MaxLegs :
       route \in [legs : {n}, at : Mileages(n), sells : SUBSET (1 .. n + 1), home : BOOLEAN]
  /\ tank \in 0 .. MaxRange
  /\ stay \in Stays
  /\ leg = 1 /\ onBoard = tank
  /\ time \in 0 .. Day - 1
  /\ within = TRUE /\ refuels = {}
  /\ landings = 0 /\ nights = 0

Final == route.legs
Distance(a, b) == route.at[b] - route.at[a]
Leg(i) == Distance(i, i + 1)

\* Midnights between landing and take-off.
NightsParked(landing, takeOff) ==
  IF takeOff <= landing THEN 0 ELSE (takeOff \div Day) - (landing \div Day)

\* The next point with fuel, or the end.
NextFuel(i) == CHOOSE j \in i + 1 .. Final + 1 :
                 /\ j \in route.sells \/ j = Final + 1
                 /\ \A k \in i + 1 .. j - 1 : k \notin route.sells

\* Mutant: the tank is filled when the next field is out of reach.
MustRefuelForTheLeg(i) == i > 1 /\ i \in route.sells /\ onBoard < Leg(i)

MustRefuel(i) == i > 1 /\ i \in route.sells /\ onBoard < Distance(i, NextFuel(i))

FlyLeg ==
  /\ leg <= Final
  /\ LET fuel == IF MustRefuel(leg) THEN tank ELSE onBoard
         landing == time + Taxi + Leg(leg)
         stops == leg < Final
     IN /\ refuels' = IF MustRefuel(leg) THEN refuels \cup {leg} ELSE refuels
        /\ within' = (within /\ Leg(leg) <= fuel)
        /\ onBoard' = fuel - Leg(leg)
        /\ time' = landing + Taxi + (IF stops THEN stay ELSE 0)
        /\ nights' = nights + (IF stops THEN NightsParked(landing, time' + Taxi) ELSE 0)
        /\ landings' = landings + (IF route.home /\ ~stops THEN 0 ELSE 1)
  /\ leg' = leg + 1
  /\ UNCHANGED <<route, tank, stay>>

PlannerNext == FlyLeg
PlannerSpec == PlannerInit /\ [][PlannerNext]_plannerVars

-----------------------------------------------------------------------------
(* The search: a return trip to one destination. *)

TripIsWithinRange(d, canRefuel) == d <= tank /\ (2 * d <= tank \/ canRefuel)

Rounded(t) == ((t + Precision \div 2) \div Precision) * Precision

StayNights(start, d) == LET landing == start + Taxi + Rounded(d)
                        IN NightsParked(landing, landing + Taxi + stay + Taxi)

-----------------------------------------------------------------------------
(* Properties *)

Flown == leg = Final + 1

\* The tank can be filled at these points, and at no other, and lasts.
Lasts(stops) ==
  LET full == stops \cup {1}
  IN \A i \in full, j \in 2 .. Final + 1 :
       (i < j /\ \A k \in i + 1 .. j - 1 : k \notin stops) => Distance(i, j) <= tank

Sellers == route.sells \cap (2 .. Final)

\* A route is within range exactly when some choice of stops makes the tank
\* last, and then the stops chosen make it last and are the fewest.
StopsAreTheFewest ==
  /\ within <=> \E stops \in SUBSET Sellers : Lasts(stops)
  /\ within => /\ refuels \subseteq Sellers /\ Lasts(refuels)
               /\ \A stops \in SUBSET Sellers : Lasts(stops) => Cardinality(refuels) <= Cardinality(stops)

Return == route.home /\ Final = 2 /\ Leg(1) = Leg(2)

\* "A two-point return [A, B, A] gives the same answer as computeTrip, plus
\* parking" (planner.calc.ts:316): the same verdict on the range, one fee.
ReturnsAgree ==
  Return => LET d == Leg(1) IN
              /\ within <=> TripIsWithinRange(d, 2 \in route.sells)
              /\ refuels = IF 2 * d > tank /\ 2 \in route.sells THEN {2} ELSE {}
              /\ landings = 1

\* The search counts the nights from a rounded flight time, the briefing from
\* the exact one: they differ by one at most, and only on either side of a midnight.
NightsAgree ==
  Return => LET d == Leg(1)
                start == time - 4 * Taxi - 2 * d - stay
                landing == start + Taxi + d
                near(t) == \E e \in -(Precision \div 2) .. Precision \div 2 : (t + e) % Day = 0
            IN /\ StayNights(start, d) - nights \in {-1, 0, 1}
               /\ StayNights(start, d) # nights => near(landing) \/ near(landing + 2 * Taxi + stay)

\* The briefing does what the pilot would: it stops for fuel no more than it
\* must, calls a route flyable when it is, and agrees with the search.
BriefingIsRight == Flown => StopsAreTheFewest /\ ReturnsAgree /\ NightsAgree

=============================================================================
