---------------------------- MODULE FlightProofs ----------------------------
(***************************************************************************)
(* What a flight is prepared with.                                         *)
(*                                                                         *)
(* The route of a briefing (Planner), for every number of legs, whatever   *)
(* their lengths, the range and the points that sell fuel: its stops are   *)
(* the fewest, and it agrees with the search about a return trip.  The     *)
(* proof keeps where the tank was filled last: no choice of stops that     *)
(* lasts has needed fewer by then, nor as many with a later filling.       *)
(*                                                                         *)
(* The places around an aerodrome (Stopovers), for any rows and rules.     *)
(*                                                                         *)
(* The hazards of a route (RouteHazards), for any polygons and routes: a   *)
(* place and the start of its segment are inside the same rings unless a   *)
(* side is touched between them.  On the way round a ring the corners      *)
(* change an even number of times from one side of that segment to the     *)
(* other, and a side changes the parity of the ray exactly where it does.  *)
(*                                                                         *)
(* The wires and the airspaces around a place (Surroundings): what the     *)
(* table is asked for leaves out nothing that is near.                     *)
(***************************************************************************)
EXTENDS Planner, Surroundings, FiniteSetTheorems, SequenceTheorems, WellFoundedInduction, TLAPS

\* Some numbers have a least one.
LEMMA LeastOfSome ==
    ASSUME NEW T \in SUBSET Nat, T # {}
    PROVE  Min(T) \in T /\ \A n \in T : Min(T) <= n
<1> DEFINE R == {p \in Nat \X Nat : p[1] < p[2]}
<1>1. IsWellFoundedOn(R, Nat)
  BY NatLessThanWellFounded DEF OpToRel
<1>2. PICK m \in T : \A n \in T : <<n, m>> \notin R
  BY <1>1, WFMin
<1>3. ASSUME NEW n \in T PROVE m <= n
  <2>1. n \in Nat /\ m \in Nat /\ ~(n < m)
    BY <1>2
  <2> QED
    BY <2>1
<1> QED
  BY <1>3 DEF Min

-----------------------------------------------------------------------------
(* Planner: the inductive invariant *)

\* The types of a route.
RouteTypeOK ==
  /\ route.legs \in Nat \ {0}
  /\ route.at \in [1..route.legs + 1 -> Nat] /\ route.at[1] = 0
  /\ \A i \in 1..route.legs : route.at[i] <= route.at[i + 1]
  /\ route.sells \subseteq 1..route.legs + 1
  /\ route.home \in BOOLEAN
  /\ tank \in Nat /\ stay \in Nat
  /\ leg \in 1..route.legs + 1
  /\ onBoard \in Int /\ time \in Nat /\ within \in BOOLEAN
  /\ refuels \subseteq Sellers \cap (2..leg - 1)
  /\ landings \in Nat /\ nights \in Nat

\* g is where the tank was filled last: at the start, or at the last refuelling.
FilledAt(g) ==
  /\ g \in refuels \cup {1} /\ \A k \in refuels : k <= g
  /\ onBoard = tank - (route.at[leg] - route.at[g])

\* The fields passed without refuelling since then left the next fuel in reach.
NextFuelInReach(g) ==
  \A q \in Sellers : g < q /\ q < leg => route.at[NextFuel(q)] - route.at[g] <= tank

\* So far the tank has lasted exactly if it lasts between the refuellings.
LastsUntil(chosen, n) ==
  \A i \in chosen \cup {1}, j \in 2..n :
    (i < j /\ \A k \in i + 1..j - 1 : k \notin chosen) => Distance(i, j) <= tank
LastedSoFar == within <=> LastsUntil(refuels, leg)

\* No choice of stops that lasts has needed fewer, nor as many and filled later.
StopsBefore(chosen, i) == {s \in chosen : s < i}
NoneDoesBetter(g) ==
  \A chosen \in SUBSET Sellers : Lasts(chosen) =>
    /\ within
    /\ \/ Cardinality(refuels) < Cardinality(StopsBefore(chosen, leg))
       \/ /\ Cardinality(refuels) = Cardinality(StopsBefore(chosen, leg))
          /\ \A s \in StopsBefore(chosen, leg) : s <= g

FillsAreRight == \E g \in 1..leg : FilledAt(g) /\ NextFuelInReach(g) /\ NoneDoesBetter(g)

\* A fee for every landing but the one at home.
FeesAreRight == landings = IF route.home /\ leg = route.legs + 1 THEN route.legs - 1 ELSE leg - 1

\* Past the second point, whether the tank was filled there: the first leg left
\* it short of the next fuel.
StopAtTwo ==
  leg > 2 => (2 \in refuels <=> 2 \in route.sells /\ tank - route.at[2] < Distance(2, NextFuel(2)))

\* The nights of a route of two legs, told from the clock.
NightAtTwo ==
  Final = 2 =>
    /\ leg = 1 => nights = 0
    /\ leg \in 2..3 => LET start == time - (leg - 1) * (2 * Taxi) - route.at[leg] - stay IN
         /\ start \in Nat
         /\ nights = NightsParked(start + Taxi + route.at[2], start + 3 * Taxi + route.at[2] + stay)

RouteInv == RouteTypeOK /\ FillsAreRight /\ LastedSoFar /\ FeesAreRight /\ StopAtTwo /\ NightAtTwo

-----------------------------------------------------------------------------

\* Points further on are no nearer.
LEMMA PointsAreInOrder ==
  ASSUME RouteTypeOK, NEW i \in 1..Final + 1, NEW j \in 1..Final + 1, i <= j
  PROVE  route.at[i] <= route.at[j] /\ route.at[i] \in Nat /\ route.at[j] \in Nat /\ Distance(i, j) \in Nat
<1> DEFINE T == {k \in 1..Final + 1 : i <= k /\ ~(route.at[i] <= route.at[k])}
<1>1. Final \in Nat /\ \A k \in 1..Final + 1 : k \in Nat /\ route.at[k] \in Nat
  BY DEF RouteTypeOK, Final
<1>2. T = {}
  <2> SUFFICES ASSUME T # {} PROVE FALSE
    OBVIOUS
  <2>1. T \in SUBSET Nat
    BY <1>1
  <2> DEFINE m == Min(T)
  <2>2. m \in T /\ \A k \in T : m <= k
    BY <2>1, LeastOfSome
  <2> HIDE DEF m
  <2>3. m \in 1..Final + 1 /\ i <= m /\ ~(route.at[i] <= route.at[m]) /\ m \in Nat
    BY <1>1, <2>2
  <2>4. m # i
    BY <1>1, <2>3
  <2>5. m - 1 \in 1..Final /\ i <= m - 1 /\ m - 1 \in 1..Final + 1 /\ m - 1 + 1 = m
    BY <1>1, <2>3, <2>4
  <2>6. m - 1 \notin T
    BY <2>2, <2>3
  <2>7. route.at[i] <= route.at[m - 1] /\ route.at[m - 1] <= route.at[m]
    BY <2>5, <2>6 DEF RouteTypeOK, Final
  <2> QED
    BY <1>1, <2>3, <2>5, <2>7
<1>3. route.at[i] <= route.at[j]
  BY <1>2
<1> QED
  BY <1>1, <1>3 DEF Distance

\* The next fuel exists, and nothing before it sells any.
LEMMA NextFuelIsNext ==
  ASSUME RouteTypeOK, NEW i \in 1..Final
  PROVE  /\ NextFuel(i) \in i + 1..Final + 1 /\ NextFuel(i) \in 2..Final + 1
         /\ NextFuel(i) \in route.sells \/ NextFuel(i) = Final + 1
         /\ \A k \in i + 1..NextFuel(i) - 1 : k \notin route.sells
<1> DEFINE T == {j \in i + 1..Final + 1 : j \in route.sells \/ j = Final + 1}
<1>1. Final \in Nat /\ i \in Nat
  BY DEF RouteTypeOK, Final
<1>2. T \in SUBSET Nat /\ Final + 1 \in T
  BY <1>1
<1> DEFINE m == Min(T)
<1>3. m \in T /\ \A k \in T : m <= k
  BY <1>2, LeastOfSome
<1> HIDE DEF m
<1>4. /\ m \in i + 1..Final + 1 /\ (m \in route.sells \/ m = Final + 1)
      /\ \A k \in i + 1..m - 1 : k \notin route.sells
  <2>1. \A k \in i + 1..m - 1 : k \in i + 1..Final + 1 /\ ~(m <= k)
    BY <1>1, <1>3
  <2> QED
    BY <1>3, <2>1
<1>5. /\ NextFuel(i) \in i + 1..Final + 1
      /\ NextFuel(i) \in route.sells \/ NextFuel(i) = Final + 1
      /\ \A k \in i + 1..NextFuel(i) - 1 : k \notin route.sells
  <2> DEFINE P(j) == (j \in route.sells \/ j = Final + 1) /\ \A k \in i + 1..j - 1 : k \notin route.sells
  <2>1. P(m)
    BY <1>4
  <2>2. NextFuel(i) = CHOOSE j \in i + 1..Final + 1 : P(j)
    BY DEF NextFuel
  <2> HIDE DEF P
  <2>3. NextFuel(i) \in i + 1..Final + 1 /\ P(NextFuel(i))
    BY <1>4, <2>1, <2>2
  <2> QED
    BY <2>3 DEF P
<1>6. NextFuel(i) \in 2..Final + 1
  BY <1>1, <1>5
<1> QED
  BY <1>5, <1>6

\* The field stops of a route are finite in number, hence can be counted.
LEMMA StopsAreFinite ==
  ASSUME RouteTypeOK, NEW chosen \in SUBSET Sellers, NEW i
  PROVE  /\ IsFiniteSet(chosen) /\ Cardinality(chosen) \in Nat
         /\ IsFiniteSet(StopsBefore(chosen, i)) /\ Cardinality(StopsBefore(chosen, i)) \in Nat
<1>1. Sellers \subseteq 2..Final /\ 2 \in Int /\ Final \in Int
  BY DEF Sellers, RouteTypeOK, Final
<1>2. IsFiniteSet(2..Final)
  BY <1>1, FS_Interval
<1>3. IsFiniteSet(chosen)
  BY <1>1, <1>2, FS_Subset
<1>4. StopsBefore(chosen, i) \in SUBSET chosen
  BY DEF StopsBefore
<1> QED
  BY <1>3, <1>4, FS_Subset, FS_CardinalityType

\* Of some stops, the one at a point counts once it is passed.
LEMMA StopIsPassed ==
  ASSUME RouteTypeOK, NEW chosen \in SUBSET Sellers, NEW i \in Nat
  PROVE  /\ i \in chosen => Cardinality(StopsBefore(chosen, i + 1)) = Cardinality(StopsBefore(chosen, i)) + 1
         /\ i \notin chosen => StopsBefore(chosen, i + 1) = StopsBefore(chosen, i)
         /\ \A s \in StopsBefore(chosen, i + 1) : s \in Nat /\ (s = i \/ s \in StopsBefore(chosen, i))
<1>1. \A s \in chosen : s \in Nat
  BY DEF Sellers
<1>2. StopsBefore(chosen, i + 1) = IF i \in chosen THEN StopsBefore(chosen, i) \cup {i} ELSE StopsBefore(chosen, i)
  BY <1>1 DEF StopsBefore
<1>3. i \notin StopsBefore(chosen, i)
  BY DEF StopsBefore
<1>4. IsFiniteSet(StopsBefore(chosen, i))
  BY StopsAreFinite
<1>5. i \in chosen => Cardinality(StopsBefore(chosen, i + 1)) = Cardinality(StopsBefore(chosen, i)) + 1
  BY <1>2, <1>3, <1>4, FS_AddElement
<1> QED
  BY <1>1, <1>2, <1>5 DEF StopsBefore

\* A choice that lasts brings everything in reach of its last stop before.
LEMMA LastStopReaches ==
  ASSUME RouteTypeOK, NEW chosen \in SUBSET Sellers, Lasts(chosen), NEW n \in 2..Final + 1,
         NEW g \in 1..n - 1, \A s \in chosen : s < n => s <= g
  PROVE  route.at[n] - route.at[g] <= tank
<1>0. /\ Final \in Nat /\ tank \in Nat /\ n \in Nat /\ g \in Nat
      /\ n \in 1..Final + 1 /\ g \in 1..Final + 1 /\ g < n /\ 1 \in 1..Final + 1
  BY DEF RouteTypeOK, Final
<1> DEFINE U == {s \in chosen : s < n} \cup {1}
           W == {n - s : s \in U}
<1>1. \A s \in U : s \in Nat /\ s \in 1..Final + 1 /\ s <= g /\ s < n
  <2>1. \A s \in chosen : s \in 2..Final
    BY DEF Sellers
  <2> QED
    BY <1>0, <2>1
<1>2. W \in SUBSET Nat /\ W # {}
  BY <1>0, <1>1
<1> DEFINE m == Min(W)
<1>3. m \in W /\ \A k \in W : m <= k
  BY <1>2, LeastOfSome
<1> HIDE DEF m
<1>4. PICK s \in U : m = n - s
  BY <1>3
<1>5. ASSUME NEW k \in U PROVE k <= s
  <2>1. n - k \in W
    OBVIOUS
  <2>2. n - s <= n - k /\ k \in Nat /\ s \in Nat
    BY <1>1, <1>3, <1>4, <2>1
  <2> QED
    BY <1>0, <2>2
<1>6. s \in chosen \cup {1} /\ \A k \in s + 1..n - 1 : k \notin chosen
  <2>1. \A k \in s + 1..n - 1 : k \in Nat /\ k < n /\ ~(k <= s)
    BY <1>0, <1>1
  <2> QED
    BY <1>5, <2>1
<1>7. Distance(s, n) <= tank
  BY <1>0, <1>1, <1>6 DEF Lasts
<1>8. route.at[s] <= route.at[g] /\ route.at[s] \in Nat /\ route.at[g] \in Nat /\ route.at[n] \in Nat
  BY <1>0, <1>1, PointsAreInOrder
<1> QED
  BY <1>0, <1>7, <1>8 DEF Distance

-----------------------------------------------------------------------------

\* What FlyLeg does to the fuel, told from the point where the tank was filled.
LEMMA FuelIsUsed ==
  ASSUME RouteTypeOK, FlyLeg, NEW g \in 1..leg, FilledAt(g)
  PROVE  LET h == IF MustRefuel(leg) THEN leg ELSE g IN
         /\ leg \in 1..Final /\ leg' = leg + 1 /\ h \in 1..leg
         /\ route' = route /\ tank' = tank
         /\ refuels' = IF MustRefuel(leg) THEN refuels \cup {leg} ELSE refuels
         /\ refuels' \subseteq Sellers \cap (2..leg)
         /\ onBoard' = tank - (route.at[leg + 1] - route.at[h])
         /\ within' = (within /\ route.at[leg + 1] - route.at[h] <= tank)
         /\ h \in refuels' \cup {1} /\ \A k \in refuels' : k <= h
         /\ MustRefuel(leg) <=> leg \in Sellers /\ tank < route.at[NextFuel(leg)] - route.at[g]
<1>1. /\ leg <= Final /\ leg' = leg + 1 /\ route' = route /\ tank' = tank
      /\ refuels' = IF MustRefuel(leg) THEN refuels \cup {leg} ELSE refuels
      /\ within' = (within /\ Leg(leg) <= IF MustRefuel(leg) THEN tank ELSE onBoard)
      /\ onBoard' = (IF MustRefuel(leg) THEN tank ELSE onBoard) - Leg(leg)
  BY DEF FlyLeg
<1>2. leg \in 1..Final /\ Final \in Nat /\ leg + 1 \in 1..Final + 1 /\ leg \in 1..Final + 1 /\ g \in 1..Final + 1 /\ leg \in Nat
  <2>1. leg \in Nat /\ 1 <= leg /\ Final \in Nat
    BY DEF RouteTypeOK, Final
  <2>2. g \in Nat /\ 1 <= g /\ g <= leg
    BY <2>1
  <2> QED
    BY <1>1, <2>1, <2>2
<1>3. NextFuel(leg) \in 1..Final + 1
  BY <1>2, NextFuelIsNext
<1>4. route.at[leg] \in Nat /\ route.at[leg + 1] \in Nat /\ route.at[g] \in Nat /\ route.at[NextFuel(leg)] \in Nat
  BY <1>2, <1>3 DEF RouteTypeOK, Final
<1>5. /\ tank \in Nat /\ refuels \subseteq Sellers \cap (2..leg - 1)
      /\ g \in refuels \cup {1} /\ (\A k \in refuels : k <= g) /\ onBoard = tank - (route.at[leg] - route.at[g])
  BY DEF RouteTypeOK, FilledAt
<1>6. MustRefuel(leg) <=> leg \in Sellers /\ tank < route.at[NextFuel(leg)] - route.at[g]
  BY <1>2, <1>4, <1>5 DEF MustRefuel, Distance, Sellers
<1>7. \A k \in 2..leg - 1 : k \in 2..leg /\ k <= leg
  BY <1>2
<1>8. CASE MustRefuel(leg)
  <2>1. leg \in Sellers /\ leg \in 2..leg
    BY <1>6, <1>8 DEF Sellers
  <2>2. /\ refuels' = refuels \cup {leg} /\ refuels' \subseteq Sellers \cap (2..leg)
        /\ leg \in refuels' \cup {1} /\ \A k \in refuels' : k <= leg
    <3>1. refuels' = refuels \cup {leg} /\ refuels \subseteq 2..leg - 1 /\ refuels \subseteq Sellers
      BY <1>1, <1>5, <1>8
    <3>2. \A k \in refuels : k \in 2..leg /\ k <= leg
      BY <1>7, <3>1
    <3> QED
      BY <1>2, <2>1, <3>1, <3>2
  <2>3. onBoard' = tank - Leg(leg) /\ Leg(leg) = route.at[leg + 1] - route.at[leg]
    BY <1>1, <1>8 DEF Leg, Distance
  <2>4. within' = (within /\ route.at[leg + 1] - route.at[leg] <= tank)
    BY <1>1, <1>8, <2>3
  <2> QED
    BY <1>1, <1>2, <1>6, <1>8, <2>2, <2>3, <2>4
<1>9. CASE ~MustRefuel(leg)
  <2>1. /\ onBoard' = tank - (route.at[leg + 1] - route.at[g])
        /\ Leg(leg) <= onBoard <=> route.at[leg + 1] - route.at[g] <= tank
    BY <1>1, <1>4, <1>5, <1>9 DEF Leg, Distance
  <2> QED
    BY <1>1, <1>2, <1>5, <1>6, <1>7, <1>9, <2>1
<1> QED
  BY <1>8, <1>9

\* Wherever it has or could have been filled, the tank lasts to the next point if
\* some choice of stops makes it last.
LEMMA NextPointInReach ==
  ASSUME RouteTypeOK, FlyLeg, NEW g \in 1..leg, FilledAt(g), NextFuelInReach(g),
         NEW chosen \in SUBSET Sellers, Lasts(chosen)
  PROVE  route.at[leg + 1] - route.at[IF MustRefuel(leg) THEN leg ELSE g] <= tank
<1> DEFINE h == IF MustRefuel(leg) THEN leg ELSE g
<1>1. /\ leg \in 1..Final /\ h \in 1..leg /\ Final \in Nat /\ leg \in Nat /\ tank \in Nat
      /\ MustRefuel(leg) <=> leg \in Sellers /\ tank < route.at[NextFuel(leg)] - route.at[g]
      /\ g \in refuels \cup {1} /\ refuels \subseteq Sellers
  BY FuelIsUsed DEF RouteTypeOK, Final, FilledAt
<1>2. leg + 1 \in 2..Final + 1 /\ leg + 1 \in 1..Final + 1 /\ h \in 1..leg + 1 - 1 /\ g \in 1..leg + 1 - 1
  BY <1>1
<1>3. \A s \in chosen : s \in Sellers /\ s \in Nat /\ (s < leg + 1 => s <= leg)
  BY <1>1 DEF Sellers
<1> DEFINE Reaches(n, k) == (\A s \in chosen : s < n => s <= k) => route.at[n] - route.at[k] <= tank
<1>0. \A n \in 2..Final + 1 : \A k \in 1..n - 1 : Reaches(n, k)
  BY LastStopReaches
<1>r. \A k \in 1..leg : Reaches(leg + 1, k)
  <2> SUFFICES ASSUME NEW k \in 1..leg PROVE Reaches(leg + 1, k)
    OBVIOUS
  <2> DEFINE n == leg + 1
  <2>1. n \in 2..Final + 1 /\ k \in 1..n - 1
    BY <1>1
  <2> HIDE DEF Reaches, n
  <2>2. Reaches(n, k)
    BY <1>0, <2>1
  <2> QED
    BY <2>2 DEF n
<1>4. CASE MustRefuel(leg)
  <2>1. route.at[leg + 1] - route.at[leg] <= tank
    BY <1>1, <1>3, <1>r
  <2> QED
    BY <1>4, <2>1
<1>5. ASSUME ~MustRefuel(leg), NEW q \in Sellers, g <= q, q <= leg, \A s \in Sellers : s <= leg => s <= q
      PROVE  route.at[leg + 1] - route.at[g] <= tank
  <2>1. CASE q = g
    <3>1. \A s \in chosen : s < leg + 1 => s <= g
      BY <1>3, <1>5, <2>1
    <3> QED
      BY <1>r, <3>1
  <2>2. CASE q # g
    <3>1. q \in 1..Final /\ q \in Nat /\ g \in Nat /\ g < q
      BY <1>1, <1>5, <2>2 DEF Sellers
    <3>2. route.at[NextFuel(q)] - route.at[g] <= tank
      <4>1. CASE q < leg
        BY <1>5, <3>1, <4>1 DEF NextFuelInReach
      <4>2. CASE q = leg
        <5>1. NextFuel(leg) \in 1..Final + 1 /\ g \in 1..Final + 1
          BY <1>1, <1>2, NextFuelIsNext
        <5>2. route.at[NextFuel(leg)] \in Nat /\ route.at[g] \in Nat
          BY <5>1 DEF RouteTypeOK, Final
        <5> QED
          BY <1>1, <1>5, <4>2, <5>2
      <4> QED
        BY <1>1, <1>5, <3>1, <4>1, <4>2
    <3>3. leg + 1 <= NextFuel(q) /\ NextFuel(q) \in 1..Final + 1
      <4>1. /\ NextFuel(q) \in q + 1..Final + 1
            /\ NextFuel(q) \in route.sells \/ NextFuel(q) = Final + 1
        BY <3>1, NextFuelIsNext
      <4>2. CASE NextFuel(q) = Final + 1
        BY <1>1, <4>2
      <4>3. CASE NextFuel(q) # Final + 1
        <5>1. NextFuel(q) \in Sellers
          BY <1>1, <3>1, <4>1, <4>3 DEF Sellers
        <5>2. ~(NextFuel(q) <= leg) /\ NextFuel(q) \in Nat
          BY <1>5, <3>1, <4>1, <5>1
        <5> QED
          BY <1>1, <3>1, <4>1, <5>2
      <4> QED
        BY <4>2, <4>3
    <3>4. /\ route.at[leg + 1] <= route.at[NextFuel(q)] /\ route.at[leg + 1] \in Nat
          /\ route.at[NextFuel(q)] \in Nat
      BY <1>2, <3>3, PointsAreInOrder
    <3>5. route.at[g] \in Nat
      <4>1. g \in 1..Final + 1
        BY <1>1
      <4> QED
        BY <4>1 DEF RouteTypeOK, Final
    <3> QED
      BY <1>1, <3>2, <3>4, <3>5
  <2> QED
    BY <2>1, <2>2
<1>6. CASE ~MustRefuel(leg) /\ \E s \in Sellers : s <= leg
  <2> DEFINE U == {s \in Sellers : s <= leg}
             W == {leg - s : s \in U}
             m == Min(W)
  <2>1. \A s \in U : s \in Nat /\ leg - s \in Nat
    BY <1>1 DEF Sellers
  <2>2. W \in SUBSET Nat /\ W # {}
    BY <1>6, <2>1
  <2>3. m \in W /\ \A k \in W : m <= k
    BY <2>2, LeastOfSome
  <2> HIDE DEF m
  <2>4. PICK q \in U : m = leg - q
    BY <2>3
  <2>5. ASSUME NEW s \in U PROVE s <= q
    <3>1. leg - s \in W
      OBVIOUS
    <3>2. leg - q <= leg - s /\ s \in Nat /\ q \in Nat
      BY <2>1, <2>3, <2>4, <3>1
    <3> QED
      BY <1>1, <3>2
  <2>6. g <= q
    <3>1. CASE g = 1
      BY <2>1, <2>4, <3>1 DEF Sellers
    <3>2. CASE g # 1
      <4>1. g \in U
        BY <1>1, <1>2, <3>2
      <4> QED
        BY <2>5, <4>1
    <3> QED
      BY <3>1, <3>2
  <2>7. q \in Sellers /\ q <= leg /\ \A s \in Sellers : s <= leg => s <= q
    BY <2>4, <2>5
  <2>8. route.at[leg + 1] - route.at[g] <= tank
    BY <1>5, <1>6, <2>6, <2>7
  <2> QED
    BY <1>6, <2>8
<1>7. CASE ~MustRefuel(leg) /\ \A s \in Sellers : ~(s <= leg)
  <2>1. g = 1
    BY <1>1, <1>2, <1>7
  <2>2. \A s \in chosen : s < leg + 1 => s <= g
    BY <1>3, <1>7
  <2>3. route.at[leg + 1] - route.at[g] <= tank
    BY <1>r, <2>2
  <2> QED
    BY <1>7, <2>3
<1> QED
  BY <1>4, <1>6, <1>7

\* Where every choice of stops that lasts has come to the next point.
LEMMA NoneDoesBetterYet ==
  ASSUME RouteTypeOK, FlyLeg, NEW g \in 1..leg, FilledAt(g), NextFuelInReach(g), NoneDoesBetter(g),
         NEW chosen \in SUBSET Sellers, Lasts(chosen)
  PROVE  /\ within'
         /\ \/ Cardinality(refuels') < Cardinality(StopsBefore(chosen, leg + 1))
            \/ /\ Cardinality(refuels') = Cardinality(StopsBefore(chosen, leg + 1))
               /\ \A s \in StopsBefore(chosen, leg + 1) : s <= IF MustRefuel(leg) THEN leg ELSE g
<1> DEFINE R == Cardinality(refuels)
           B == Cardinality(StopsBefore(chosen, leg))
           C == Cardinality(StopsBefore(chosen, leg + 1))
<1>1. /\ leg \in 1..Final /\ leg \in Nat /\ Final \in Nat /\ tank \in Nat /\ g \in Nat /\ g <= leg
      /\ refuels' = IF MustRefuel(leg) THEN refuels \cup {leg} ELSE refuels
      /\ within' = (within /\ route.at[leg + 1] - route.at[IF MustRefuel(leg) THEN leg ELSE g] <= tank)
      /\ MustRefuel(leg) <=> leg \in Sellers /\ tank < route.at[NextFuel(leg)] - route.at[g]
  <2>1. /\ leg \in 1..Final
        /\ refuels' = IF MustRefuel(leg) THEN refuels \cup {leg} ELSE refuels
        /\ within' = (within /\ route.at[leg + 1] - route.at[IF MustRefuel(leg) THEN leg ELSE g] <= tank)
        /\ MustRefuel(leg) <=> leg \in Sellers /\ tank < route.at[NextFuel(leg)] - route.at[g]
    BY FuelIsUsed, Zenon
  <2>2. Final \in Nat /\ tank \in Nat /\ leg \in Nat
    BY <2>1 DEF RouteTypeOK, Final
  <2> QED
    BY <2>1, <2>2
<1>2. within' /\ (R < B \/ (R = B /\ \A s \in StopsBefore(chosen, leg) : s <= g))
  BY <1>1, NextPointInReach DEF NoneDoesBetter
<1>3. /\ refuels \in SUBSET Sellers /\ leg \notin refuels
  <2>1. refuels \subseteq Sellers \cap (2..leg - 1)
    BY DEF RouteTypeOK
  <2>2. leg \notin 2..leg - 1
    BY <1>1
  <2> QED
    BY <2>1, <2>2
<1>4. IsFiniteSet(refuels) /\ R \in Nat /\ B \in Nat /\ C \in Nat
  BY <1>3, StopsAreFinite
<1>5. /\ leg \in chosen => C = B + 1
      /\ leg \notin chosen => StopsBefore(chosen, leg + 1) = StopsBefore(chosen, leg)
      /\ \A s \in StopsBefore(chosen, leg + 1) : s \in Nat /\ (s = leg \/ s \in StopsBefore(chosen, leg))
  BY <1>1, StopIsPassed
<1>6. \A s \in StopsBefore(chosen, leg) : s < leg
  BY DEF StopsBefore
<1>7. CASE MustRefuel(leg)
  <2>1. Cardinality(refuels') = R + 1
    BY <1>1, <1>3, <1>4, <1>7, FS_AddElement
  <2>2. \A s \in StopsBefore(chosen, leg + 1) : s <= leg
    BY <1>1, <1>5, <1>6
  <2>3. CASE leg \in chosen
    BY <1>2, <1>4, <1>5, <1>7, <2>1, <2>2, <2>3
  <2>4. CASE leg \notin chosen
    <3>1. R < B
      <4> SUFFICES ASSUME \A s \in StopsBefore(chosen, leg) : s <= g PROVE FALSE
        BY <1>2
      <4> DEFINE n == NextFuel(leg)
      <4>1. n \in 2..Final + 1 /\ n \in leg + 1..Final + 1 /\ \A k \in leg + 1..n - 1 : k \notin route.sells
        BY <1>1, NextFuelIsNext
      <4> HIDE DEF n
      <4>2. g \in 1..n - 1 /\ n \in Nat
        BY <1>1, <4>1
      <4>3. ASSUME NEW s \in chosen, s < n PROVE s <= g
        <5>1. s \in route.sells /\ s \in Nat /\ s # leg
          BY <2>4 DEF Sellers
        <5>2. s \notin leg + 1..n - 1
          BY <4>1, <5>1
        <5>3. s < leg
          BY <1>1, <4>2, <4>3, <5>1, <5>2
        <5> QED
          BY <4>3, <5>3 DEF StopsBefore
      <4>4. route.at[n] - route.at[g] <= tank
        BY <4>1, <4>2, <4>3, LastStopReaches
      <4>5. n \in 1..Final + 1 /\ g \in 1..Final + 1
        BY <1>1, <4>1
      <4>6. route.at[n] \in Nat /\ route.at[g] \in Nat
        BY <4>5 DEF RouteTypeOK, Final
      <4> QED
        BY <1>1, <1>7, <4>4, <4>6 DEF n
    <3>2. C = B
      BY <1>5, <2>4
    <3> QED
      BY <1>2, <1>4, <1>7, <2>1, <2>2, <3>1, <3>2
  <2> QED
    BY <2>3, <2>4
<1>8. CASE ~MustRefuel(leg)
  <2>1. refuels' = refuels
    BY <1>1, <1>8
  <2>2. CASE leg \in chosen
    BY <1>2, <1>4, <1>5, <2>1, <2>2
  <2>3. CASE leg \notin chosen
    BY <1>2, <1>5, <1>8, <2>1, <2>3
  <2> QED
    BY <2>2, <2>3
<1> QED
  BY <1>7, <1>8

\* Each leg keeps each part of the invariant.
LEMMA FillsStayRight ==
  ASSUME RouteTypeOK, FlyLeg, FillsAreRight
  PROVE  FillsAreRight'
<1>1. PICK g \in 1..leg : FilledAt(g) /\ NextFuelInReach(g) /\ NoneDoesBetter(g)
  BY DEF FillsAreRight
<1>2. PICK h \in 1..leg : h = IF MustRefuel(leg) THEN leg ELSE g
  BY <1>1 DEF RouteTypeOK
<1>3. /\ leg \in 1..Final /\ leg' = leg + 1 /\ leg \in Nat /\ route' = route /\ tank' = tank
      /\ onBoard' = tank - (route.at[leg + 1] - route.at[h])
      /\ h \in refuels' \cup {1} /\ \A k \in refuels' : k <= h
      /\ MustRefuel(leg) <=> leg \in Sellers /\ tank < route.at[NextFuel(leg)] - route.at[g]
  BY <1>1, <1>2, FuelIsUsed DEF RouteTypeOK, Final
<1>4. Sellers' = Sellers /\ \A chosen : Lasts(chosen)' = Lasts(chosen)
  BY <1>3 DEF Sellers, Lasts, Final, Distance
<1>5. FilledAt(h)'
  BY <1>3 DEF FilledAt
<1>6. NextFuelInReach(h)'
  <2> SUFFICES ASSUME NEW q \in Sellers, h < q, q < leg + 1
               PROVE  (route.at[NextFuel(q)] - route.at[h] <= tank)'
    BY <1>3, <1>4 DEF NextFuelInReach
  <2>0. (route.at[NextFuel(q)] - route.at[h] <= tank)' = (route.at[NextFuel(q)] - route.at[h] <= tank)
    BY <1>3 DEF NextFuel, Final
  <2>1. q \in Nat /\ q \in 1..Final /\ Final \in Nat /\ tank \in Nat
    BY DEF Sellers, RouteTypeOK, Final
  <2>2. h = g /\ ~MustRefuel(leg)
    BY <1>2, <1>3, <2>1
  <2>3. CASE q < leg
    BY <1>1, <2>0, <2>2, <2>3 DEF NextFuelInReach
  <2>4. CASE q = leg
    <3>1. NextFuel(q) \in 1..Final + 1 /\ g \in 1..Final + 1
      BY <1>3, <2>1, NextFuelIsNext
    <3>2. route.at[NextFuel(q)] \in Nat /\ route.at[g] \in Nat
      BY <3>1 DEF RouteTypeOK, Final
    <3> QED
      BY <1>3, <2>0, <2>1, <2>2, <2>4, <3>2
  <2> QED
    BY <1>3, <2>1, <2>3, <2>4
<1>7. NoneDoesBetter(h)'
  <2> DEFINE Right(chosen) ==
        /\ within'
        /\ \/ Cardinality(refuels') < Cardinality(StopsBefore(chosen, leg + 1))
           \/ /\ Cardinality(refuels') = Cardinality(StopsBefore(chosen, leg + 1))
              /\ \A s \in StopsBefore(chosen, leg + 1) : s <= h
  <2>1. ASSUME NEW chosen \in SUBSET Sellers, Lasts(chosen) PROVE Right(chosen)
    BY <1>1, <1>2, <2>1, NoneDoesBetterYet
  <2>2. \A chosen : StopsBefore(chosen, leg)' = StopsBefore(chosen, leg + 1)
    BY <1>3 DEF StopsBefore
  <2>3. NoneDoesBetter(h)' = \A chosen \in SUBSET Sellers' : Lasts(chosen)' =>
          /\ within'
          /\ \/ Cardinality(refuels') < Cardinality(StopsBefore(chosen, leg)')
             \/ /\ Cardinality(refuels') = Cardinality(StopsBefore(chosen, leg)')
                /\ \A s \in StopsBefore(chosen, leg)' : s <= h
    BY DEF NoneDoesBetter
  <2>4. NoneDoesBetter(h)' = \A chosen \in SUBSET Sellers : Lasts(chosen) => Right(chosen)
    BY <1>4, <2>2, <2>3
  <2> HIDE DEF Right
  <2> QED
    BY <2>1, <2>4
<1>8. h \in 1..leg'
  BY <1>3
<1> QED
  BY <1>5, <1>6, <1>7, <1>8 DEF FillsAreRight

LEMMA VerdictStaysRight ==
  ASSUME RouteTypeOK, FlyLeg, FillsAreRight, LastedSoFar
  PROVE  LastedSoFar'
<1>1. PICK g \in 1..leg : FilledAt(g)
  BY DEF FillsAreRight
<1>2. PICK h \in 1..leg : h = IF MustRefuel(leg) THEN leg ELSE g
  BY <1>1 DEF RouteTypeOK
<1>3. PICK R : R = refuels'
  OBVIOUS
<1>4. /\ leg \in 1..Final /\ leg' = leg + 1 /\ route' = route /\ tank' = tank
      /\ R = IF MustRefuel(leg) THEN refuels \cup {leg} ELSE refuels
      /\ within' = (within /\ route.at[leg + 1] - route.at[h] <= tank)
      /\ h \in R \cup {1} /\ \A k \in R : k <= h
  BY <1>1, <1>2, <1>3, FuelIsUsed
<1>5. /\ leg \in Nat /\ Final \in Nat /\ h \in Nat /\ leg + 1 \in 2..leg + 1 /\ refuels \subseteq 2..leg - 1 /\ R \subseteq 2..leg
      /\ within \in BOOLEAN
  <2>1. leg \in Nat /\ Final \in Nat /\ refuels \subseteq Sellers \cap (2..leg - 1) /\ within \in BOOLEAN
    BY <1>4 DEF RouteTypeOK, Final
  <2>2. R \subseteq 2..leg
    BY <1>1, <1>3, FuelIsUsed
  <2> QED
    BY <1>4, <2>1, <2>2
<1>6. LastsUntil(R, leg + 1) => LastsUntil(refuels, leg) /\ route.at[leg + 1] - route.at[h] <= tank
  <2> SUFFICES ASSUME LastsUntil(R, leg + 1)
               PROVE  LastsUntil(refuels, leg) /\ route.at[leg + 1] - route.at[h] <= tank
    OBVIOUS
  <2>1. ASSUME NEW i \in refuels \cup {1}, NEW j \in 2..leg, i < j, \A k \in i + 1..j - 1 : k \notin refuels
        PROVE  Distance(i, j) <= tank
    <3>1. i \in R \cup {1} /\ j \in 2..leg + 1
      BY <1>4, <1>5
    <3>2. \A k \in i + 1..j - 1 : k # leg
      BY <1>5
    <3>3. \A k \in i + 1..j - 1 : k \notin R
      BY <1>4, <2>1, <3>2
    <3> QED
      BY <2>1, <3>1, <3>3 DEF LastsUntil
  <2>2. \A k \in h + 1..leg + 1 - 1 : ~(k <= h)
    BY <1>5
  <2>3. h < leg + 1 /\ \A k \in h + 1..leg + 1 - 1 : k \notin R
    BY <1>4, <1>5, <2>2
  <2>4. Distance(h, leg + 1) <= tank
    BY <1>4, <1>5, <2>3 DEF LastsUntil
  <2> QED
    BY <2>1, <2>4 DEF LastsUntil, Distance
<1>7. LastsUntil(refuels, leg) /\ route.at[leg + 1] - route.at[h] <= tank => LastsUntil(R, leg + 1)
  <2> SUFFICES ASSUME LastsUntil(refuels, leg), route.at[leg + 1] - route.at[h] <= tank,
                      NEW i \in R \cup {1}, NEW j \in 2..leg + 1, i < j, \A k \in i + 1..j - 1 : k \notin R
               PROVE  Distance(i, j) <= tank
    BY DEF LastsUntil
  <2>1. CASE j <= leg
    <3>1. i # leg /\ j \in 2..leg
      BY <1>5, <2>1
    <3>2. i \in refuels \cup {1} /\ \A k \in i + 1..j - 1 : k \notin refuels
      BY <1>4, <3>1
    <3> QED
      BY <3>1, <3>2 DEF LastsUntil
  <2>2. CASE j = leg + 1
    <3>1. i \in Nat /\ i <= h
      BY <1>4, <1>5
    <3>2. ~(i < h)
      <4> SUFFICES ASSUME i < h PROVE FALSE
        OBVIOUS
      <4>1. i >= 1
        BY <1>5
      <4>2. h \in R
        BY <1>4, <1>5, <3>1, <4>1
      <4>3. h \in i + 1..j - 1
        BY <1>5, <2>2, <3>1
      <4> QED
        BY <4>2, <4>3
    <3>3. i = h
      BY <1>5, <3>1, <3>2
    <3> QED
      BY <2>2, <3>3 DEF Distance
  <2> QED
    BY <1>5, <2>1, <2>2
<1>8. LastsUntil(refuels, leg)' = LastsUntil(R, leg + 1)
  BY <1>3, <1>4 DEF LastsUntil, Distance
<1>9. within' = LastsUntil(R, leg + 1)
  BY <1>4, <1>5, <1>6, <1>7 DEF LastedSoFar, LastsUntil
<1> QED
  BY <1>8, <1>9 DEF LastedSoFar

LEMMA FeesStayRight ==
  ASSUME RouteTypeOK, FlyLeg, FeesAreRight
  PROVE  FeesAreRight'
<1>1. /\ leg <= route.legs /\ leg' = leg + 1 /\ route' = route
      /\ landings' = landings + (IF route.home /\ ~(leg < route.legs) THEN 0 ELSE 1)
  BY DEF FlyLeg, Final
<1>2. leg \in Nat /\ route.legs \in Nat /\ landings \in Nat
  BY DEF RouteTypeOK
<1> QED
  BY <1>1, <1>2 DEF FeesAreRight

LEMMA StopAtTwoStays ==
  ASSUME RouteTypeOK, FlyLeg, FillsAreRight, StopAtTwo
  PROVE  StopAtTwo'
<1>1. PICK g \in 1..leg : FilledAt(g)
  BY DEF FillsAreRight
<1>2. /\ leg \in 1..Final /\ leg' = leg + 1 /\ route' = route /\ tank' = tank
      /\ refuels' = IF MustRefuel(leg) THEN refuels \cup {leg} ELSE refuels
      /\ MustRefuel(leg) <=> leg \in Sellers /\ tank < route.at[NextFuel(leg)] - route.at[g]
  BY <1>1, FuelIsUsed, Zenon
<1>3. leg \in Nat /\ Final \in Nat /\ tank \in Nat /\ route.at[1] = 0 /\ refuels \subseteq Sellers \cap (2..leg - 1)
  BY <1>2 DEF RouteTypeOK, Final
<1>4. StopAtTwo' <=> (leg + 1 > 2 =>
        (2 \in refuels' <=> 2 \in route.sells /\ tank - route.at[2] < Distance(2, NextFuel(2))))
  BY <1>2 DEF StopAtTwo, Distance, NextFuel, Final
<1>5. CASE leg = 1
  BY <1>4, <1>5
<1>6. CASE leg = 2
  <2>1. 2 \notin refuels /\ g = 1
    BY <1>1, <1>3, <1>6 DEF FilledAt
  <2>2. 2 \in 1..Final /\ 2 \in 2..Final
    BY <1>2, <1>6
  <2>3. NextFuel(2) \in 1..Final + 1 /\ 2 \in 1..Final + 1
    BY <2>2, <1>3, NextFuelIsNext
  <2>4. route.at[NextFuel(2)] \in Nat /\ route.at[2] \in Nat
    BY <2>3 DEF RouteTypeOK, Final
  <2>5. 2 \in refuels' <=> 2 \in route.sells /\ tank < route.at[NextFuel(2)]
    BY <1>2, <1>3, <1>6, <2>1, <2>2, <2>4 DEF Sellers
  <2> QED
    BY <1>3, <1>4, <2>4, <2>5 DEF Distance
<1>7. CASE leg > 2
  <2>1. 2 \in refuels' <=> 2 \in refuels
    BY <1>2, <1>3, <1>7
  <2> QED
    BY <1>3, <1>4, <1>7, <2>1 DEF StopAtTwo
<1> QED
  BY <1>3, <1>2, <1>5, <1>6, <1>7

LEMMA NightAtTwoStays ==
  ASSUME RouteTypeOK, FlyLeg, NightAtTwo
  PROVE  NightAtTwo'
<1> SUFFICES ASSUME Final = 2 PROVE NightAtTwo'
  BY DEF NightAtTwo, FlyLeg, Final
<1>1. /\ leg <= 2 /\ leg' = leg + 1 /\ route' = route /\ stay' = stay
      /\ time' = time + Taxi + Leg(leg) + Taxi + (IF leg < 2 THEN stay ELSE 0)
      /\ nights' = nights + (IF leg < 2 THEN NightsParked(time + Taxi + Leg(leg), time' + Taxi) ELSE 0)
  BY DEF FlyLeg
<1>2. /\ leg \in 1..2 /\ time \in Nat /\ stay \in Nat /\ Taxi \in Nat /\ nights \in Nat /\ route.at[1] = 0
      /\ route.at[2] \in Nat /\ route.at[3] \in Nat
  <2>1. 2 \in 1..2 + 1 /\ 3 \in 1..2 + 1
    OBVIOUS
  <2>2. route.at \in [1..2 + 1 -> Nat]
    BY DEF RouteTypeOK, Final
  <2> QED
    BY <1>1, <2>1, <2>2, PlannerAssumption DEF RouteTypeOK
<1> DEFINE Start(t, l) == t - (l - 1) * (2 * Taxi) - route.at[l] - stay
           Parked(t) == NightsParked(t + Taxi + route.at[2], t + 3 * Taxi + route.at[2] + stay)
<1>3. NightAtTwo <=> /\ leg = 1 => nights = 0
                     /\ leg \in 2..3 => Start(time, leg) \in Nat /\ nights = Parked(Start(time, leg))
  BY DEF NightAtTwo
<1>4. NightAtTwo' <=> /\ leg + 1 = 1 => nights' = 0
                      /\ leg + 1 \in 2..3 => Start(time', leg + 1) \in Nat /\ nights' = Parked(Start(time', leg + 1))
  BY <1>1 DEF NightAtTwo, NightsParked, Final
<1>5. CASE leg = 1
  <2>1. Leg(leg) = route.at[2]
    BY <1>2, <1>5 DEF Leg, Distance
  <2>2. time' = time + Taxi + route.at[2] + Taxi + stay
    BY <1>1, <1>5, <2>1
  <2>3. Start(time', leg + 1) = time
    BY <1>2, <1>5, <2>2
  <2>4. time + Taxi + Leg(leg) = time + Taxi + route.at[2] /\ time' + Taxi = time + 3 * Taxi + route.at[2] + stay
    BY <1>2, <2>1, <2>2
  <2>5. nights' = Parked(time)
    <3>1. NightsParked(time + Taxi + Leg(leg), time' + Taxi) \in Int
      BY <1>2, <2>4, PlannerAssumption DEF NightsParked
    <3>2. nights' = NightsParked(time + Taxi + Leg(leg), time' + Taxi)
      <4>1. nights = 0 /\ leg < 2
        BY <1>3, <1>5
      <4> QED
        BY <1>1, <3>1, <4>1
    <3> QED
      BY <2>4, <3>2
  <2> QED
    BY <1>2, <1>4, <1>5, <2>3, <2>5
<1>6. CASE leg = 2
  <2>1. Leg(leg) = route.at[3] - route.at[2]
    BY <1>6 DEF Leg, Distance
  <2>2. time' = time + Taxi + (route.at[3] - route.at[2]) + Taxi /\ nights' = nights
    BY <1>1, <1>2, <1>6, <2>1
  <2>3. Start(time', leg + 1) = Start(time, leg)
    BY <1>2, <1>6, <2>2
  <2> QED
    BY <1>3, <1>4, <1>6, <2>2, <2>3
<1> QED
  BY <1>2, <1>5, <1>6

-----------------------------------------------------------------------------

\* Quotient and remainder, for a divisor that is not a number but a constant.
LEMMA DivisionLaw ==
  ASSUME NEW n \in Nat \ {0}, NEW x \in Int
  PROVE  /\ x \div n \in Int /\ n * (x \div n) \in Int
         /\ n * (x \div n) <= x /\ x < n * (x \div n) + n
         /\ x % n = x - n * (x \div n)
  BY SMTT(30)

\* The midnights passed by a moment.
LEMMA MidnightLaw ==
  ASSUME NEW x \in Int
  PROVE  /\ x \div Day \in Int /\ Day * (x \div Day) \in Int
         /\ Day * (x \div Day) <= x /\ x < Day * (x \div Day) + Day
         /\ x % Day = x - Day * (x \div Day)
  BY PlannerAssumption, DivisionLaw

\* What a bound on a multiple says of the factor.
LEMMA Factor ==
  ASSUME NEW n \in Nat \ {0}, NEW k \in Int
  PROVE  /\ n * k \in Int
         /\ n * k < 2 * n => k <= 1
         /\ n * k > -(2 * n) => k >= -1
         /\ n * k < n => k <= 0
         /\ n * k <= 0 => k <= 0
<1>1. n * k \in Int
  OBVIOUS
<1>2. k >= 1 => n * k >= n
  <2>1. ASSUME k >= 1 PROVE n * k >= n
    <3>1. k - 1 \in Nat /\ n * (k - 1) \in Nat /\ n * (k - 1) = n * k - n
      BY <2>1
    <3> QED
      BY <1>1, <3>1
  <2> QED
    BY <2>1
<1>3. k >= 2 => n * k >= 2 * n
  <2>1. ASSUME k >= 2 PROVE n * k >= 2 * n
    <3>1. k - 2 \in Nat /\ n * (k - 2) \in Nat /\ n * (k - 2) = n * k - 2 * n
      BY <2>1
    <3> QED
      BY <1>1, <3>1
  <2> QED
    BY <2>1
<1>4. k <= -2 => n * k <= -(2 * n)
  <2>1. ASSUME k <= -2 PROVE n * k <= -(2 * n)
    <3>1. -2 - k \in Nat /\ n * (-2 - k) \in Nat /\ n * (-2 - k) = -(2 * n) - n * k
      BY <2>1
    <3> QED
      BY <1>1, <3>1
  <2> QED
    BY <2>1
<1> QED
  BY <1>1, <1>2, <1>3, <1>4

LEMMA MidnightsInOrder ==
  ASSUME NEW x \in Int, NEW y \in Int, x <= y
  PROVE  x \div Day <= y \div Day
<1> DEFINE a == x \div Day
           b == y \div Day
<1>1. /\ a \in Int /\ Day * a \in Int /\ Day * a <= x /\ x < Day * a + Day
      /\ b \in Int /\ Day * b \in Int /\ Day * b <= y /\ y < Day * b + Day
  BY MidnightLaw
<1> HIDE DEF a, b
<1>2. Day \in Nat \ {0}
  BY PlannerAssumption
<1>3. Day * (a - b) = Day * a - Day * b
  BY <1>1, <1>2
<1>4. Day * (a - b) < Day
  BY <1>1, <1>2, <1>3
<1>5. a - b \in Int
  BY <1>1
<1>6. a - b <= 0
  BY <1>2, <1>4, <1>5, Factor
<1> QED
  BY <1>1, <1>6 DEF a, b

LEMMA NightsAreCounted ==
  ASSUME NEW l \in Int, NEW t \in Int
  PROVE  NightsParked(l, t) \in Nat
<1>1. l \div Day \in Int /\ t \div Day \in Int
  BY MidnightLaw
<1>2. l <= t => l \div Day <= t \div Day
  BY MidnightsInOrder
<1> QED
  BY <1>1, <1>2 DEF NightsParked

LEMMA RouteTypesStay ==
  ASSUME RouteTypeOK, FlyLeg, FillsAreRight
  PROVE  RouteTypeOK'
<1>1. PICK g \in 1..leg : FilledAt(g)
  BY DEF FillsAreRight
<1>2. PICK h \in 1..leg : h = IF MustRefuel(leg) THEN leg ELSE g
  BY <1>1 DEF RouteTypeOK
<1>3. /\ leg \in 1..Final /\ leg' = leg + 1 /\ route' = route /\ tank' = tank
      /\ refuels' \subseteq Sellers \cap (2..leg)
      /\ onBoard' = tank - (route.at[leg + 1] - route.at[h])
      /\ within' \in BOOLEAN
  BY <1>1, <1>2, FuelIsUsed DEF RouteTypeOK
<1>4. /\ stay' = stay
      /\ time' = time + Taxi + Leg(leg) + Taxi + (IF leg < Final THEN stay ELSE 0)
      /\ nights' = nights + (IF leg < Final THEN NightsParked(time + Taxi + Leg(leg), time' + Taxi) ELSE 0)
      /\ landings' = landings + (IF route.home /\ ~(leg < Final) THEN 0 ELSE 1)
  BY <1>3 DEF FlyLeg
<1>5. /\ leg \in Nat /\ Final \in Nat /\ tank \in Nat /\ stay \in Nat /\ time \in Nat /\ nights \in Nat /\ landings \in Nat
      /\ Taxi \in Nat
  BY <1>3, PlannerAssumption DEF RouteTypeOK, Final
<1>6. leg + 1 \in 1..Final + 1 /\ leg \in 1..Final + 1 /\ h \in 1..Final + 1 /\ leg <= leg + 1
  BY <1>3, <1>5
<1>7. Leg(leg) \in Nat /\ route.at[leg + 1] \in Nat /\ route.at[h] \in Nat
  <2>1. Leg(leg) \in Nat
    BY <1>6, PointsAreInOrder DEF Leg
  <2> QED
    BY <1>6, <2>1 DEF RouteTypeOK, Final
<1>8. time' \in Nat /\ landings' \in Nat /\ onBoard' \in Int
  BY <1>3, <1>4, <1>5, <1>7
<1>9. nights' \in Nat
  <2>1. NightsParked(time + Taxi + Leg(leg), time' + Taxi) \in Nat
    <3>1. time + Taxi + Leg(leg) \in Int /\ time' + Taxi \in Int
      BY <1>5, <1>7, <1>8
    <3> QED
      BY <3>1, NightsAreCounted
  <2> QED
    BY <1>4, <1>5, <2>1
<1>10. Sellers' = Sellers /\ 2..leg' - 1 = 2..leg
  BY <1>3, <1>5 DEF Sellers, Final
<1>11. stay' \in Nat /\ leg' \in 1..route'.legs + 1 /\ refuels' \subseteq (Sellers \cap (2..leg - 1))'
  BY <1>3, <1>4, <1>5, <1>6, <1>10 DEF Final
<1> QED
  BY <1>3, <1>8, <1>9, <1>11 DEF RouteTypeOK

LEMMA RouteStartsRight ==
  ASSUME PlannerInit
  PROVE  RouteInv
<1>1. /\ tank \in Nat /\ stay \in Nat /\ leg = 1 /\ onBoard = tank /\ time \in Nat
      /\ within = TRUE /\ refuels = {} /\ landings = 0 /\ nights = 0
  <2>1. \A t \in 0..MaxRange : t \in Nat
    BY PlannerAssumption
  <2>2. \A t \in 0..Day - 1 : t \in Nat
    BY PlannerAssumption
  <2> QED
    BY <2>1, <2>2, PlannerAssumption DEF PlannerInit
<1>2. PICK n \in 1..MaxLegs :
        route \in [legs : {n}, at : Mileages(n), sells : SUBSET (1..n + 1), home : BOOLEAN]
  BY DEF PlannerInit
<1>3. n \in Nat \ {0} /\ route.legs = n /\ route.sells \subseteq 1..n + 1 /\ route.home \in BOOLEAN
      /\ route.at \in Mileages(n)
  BY <1>2
<1>4. /\ route.at \in [1..n + 1 -> Nat] /\ route.at[1] = 0
      /\ \A i \in 1..n : route.at[i] <= route.at[i + 1]
  <2>1. /\ route.at \in [1..n + 1 -> 0..n * MaxDistance] /\ route.at[1] = 0
        /\ \A i \in 1..n : route.at[i + 1] - route.at[i] \in 1..MaxDistance
    BY <1>3 DEF Mileages
  <2>2. \A d \in 0..n * MaxDistance : d \in Nat
    BY <1>3, PlannerAssumption
  <2>3. route.at \in [1..n + 1 -> Nat]
    BY <2>1, <2>2
  <2>4. ASSUME NEW i \in 1..n PROVE route.at[i] <= route.at[i + 1]
    <3>1. i \in 1..n + 1 /\ i + 1 \in 1..n + 1
      BY <1>3
    <3>2. route.at[i] \in Nat /\ route.at[i + 1] \in Nat
      BY <2>3, <3>1
    <3>3. route.at[i + 1] - route.at[i] \in 1..MaxDistance
      BY <2>1
    <3>4. route.at[i + 1] - route.at[i] >= 1
      BY <3>3, PlannerAssumption
    <3> QED
      BY <3>2, <3>4
  <2> QED
    BY <2>1, <2>3, <2>4
<1>5. RouteTypeOK
  <2>1. leg \in 1..n + 1
    BY <1>1, <1>3
  <2> QED
    BY <1>1, <1>3, <1>4, <2>1 DEF RouteTypeOK
<1>6. FillsAreRight
  <2>1. 1 \in 1..leg /\ FilledAt(1)
    <3>1. route.at[leg] - route.at[1] = 0 /\ tank - 0 = tank
      BY <1>1, <1>4
    <3> QED
      BY <1>1, <3>1 DEF FilledAt
  <2>2. NextFuelInReach(1)
    BY <1>1 DEF NextFuelInReach, Sellers
  <2>3. NoneDoesBetter(1)
    <3>1. ASSUME NEW chosen \in SUBSET Sellers PROVE StopsBefore(chosen, leg) = {}
      BY <1>1 DEF StopsBefore, Sellers
    <3> QED
      BY <1>1, <3>1 DEF NoneDoesBetter
  <2> QED
    BY <2>1, <2>2, <2>3 DEF FillsAreRight
<1>7. LastedSoFar
  BY <1>1 DEF LastedSoFar, LastsUntil
<1>8. FeesAreRight
  BY <1>1, <1>3 DEF FeesAreRight
<1>9. StopAtTwo
  BY <1>1 DEF StopAtTwo
<1>10. NightAtTwo
  BY <1>1 DEF NightAtTwo
<1> QED
  BY <1>5, <1>6, <1>7, <1>8, <1>9, <1>10 DEF RouteInv

\* The inductive invariant: where the tank was filled last nothing could have
\* been done better, and the verdict and the fees follow each leg.
THEOREM RouteInvHolds == PlannerSpec => []RouteInv
<1>1. PlannerInit => RouteInv
  BY RouteStartsRight
<1>2. RouteInv /\ [PlannerNext]_plannerVars => RouteInv'
  <2> SUFFICES ASSUME RouteInv, [PlannerNext]_plannerVars PROVE RouteInv'
    OBVIOUS
  <2>1. CASE FlyLeg
    BY <2>1, RouteTypesStay, FillsStayRight, VerdictStaysRight, FeesStayRight, StopAtTwoStays, NightAtTwoStays
      DEF RouteInv
  <2>2. CASE UNCHANGED plannerVars
    <3>1. RouteTypeOK' /\ FeesAreRight' /\ StopAtTwo' /\ NightAtTwo' /\ LastedSoFar'
      BY <2>2 DEF plannerVars, RouteInv, RouteTypeOK, FeesAreRight, StopAtTwo, NightAtTwo, LastedSoFar,
                  LastsUntil, Sellers, Final, Distance, NextFuel, NightsParked
    <3>2. \A g : /\ FilledAt(g)' <=> FilledAt(g)
                 /\ NextFuelInReach(g)' <=> NextFuelInReach(g)
                 /\ NoneDoesBetter(g)' <=> NoneDoesBetter(g)
      BY <2>2 DEF plannerVars, FilledAt, NextFuelInReach, NoneDoesBetter, Lasts, StopsBefore,
                  Sellers, Final, Distance, NextFuel
    <3> QED
      BY <2>2, <3>1, <3>2 DEF plannerVars, RouteInv, FillsAreRight
  <2> QED
    BY <2>1, <2>2 DEF PlannerNext
<1> QED
  BY <1>1, <1>2, PTL DEF PlannerSpec

\* What RouteInv says once the route is flown.
LEMMA FlownMeansFewest ==
  ASSUME RouteInv, Flown
  PROVE  StopsAreTheFewest
<1>1. PICK g \in 1..leg : NoneDoesBetter(g)
  BY DEF RouteInv, FillsAreRight
<1>2. /\ leg = Final + 1 /\ Final \in Nat /\ refuels \subseteq Sellers /\ RouteTypeOK
  BY DEF RouteInv, RouteTypeOK, Flown, Final
<1>3. within <=> Lasts(refuels)
  BY <1>2 DEF RouteInv, LastedSoFar, LastsUntil, Lasts
<1>4. ASSUME NEW chosen \in SUBSET Sellers, Lasts(chosen)
      PROVE  within /\ Cardinality(refuels) <= Cardinality(chosen)
  <2>1. StopsBefore(chosen, leg) = chosen
    <3>1. \A s \in chosen : s \in 2..Final /\ s < leg
      BY <1>2 DEF Sellers
    <3> QED
      BY <3>1 DEF StopsBefore
  <2>2. Cardinality(refuels) \in Nat /\ Cardinality(chosen) \in Nat
    BY <1>2, StopsAreFinite
  <2> QED
    BY <1>1, <1>4, <2>1, <2>2 DEF NoneDoesBetter
<1> QED
  BY <1>2, <1>3, <1>4 DEF StopsAreTheFewest

\* What a flown route there and back looks like.
LEMMA FlownReturn ==
  ASSUME RouteInv, Flown, Return
  PROVE  /\ leg = 3 /\ Final = 2 /\ Leg(1) \in Nat /\ tank \in Nat /\ route.home
         /\ route.at[1] = 0 /\ route.at[2] = Leg(1) /\ route.at[3] = 2 * Leg(1)
<1>1. leg = 3 /\ Final = 2 /\ Leg(1) = Leg(2) /\ route.home /\ RouteTypeOK /\ tank \in Nat /\ route.at[1] = 0
  BY DEF RouteInv, Return, Flown, RouteTypeOK
<1>2. 1 \in 1..2 + 1 /\ 2 \in 1..2 + 1 /\ 3 \in 1..2 + 1
  OBVIOUS
<1>3. route.at[2] \in Nat /\ route.at[3] \in Nat
  BY <1>1, <1>2 DEF RouteTypeOK, Final
<1> QED
  BY <1>1, <1>3 DEF Leg, Distance

LEMMA FlownReturnsAgree ==
  ASSUME RouteInv, Flown
  PROVE  ReturnsAgree
<1> SUFFICES ASSUME Return PROVE ReturnsAgree
  BY DEF ReturnsAgree
<1> DEFINE d == Leg(1)
<1>1. /\ leg = 3 /\ Final = 2 /\ d \in Nat /\ tank \in Nat /\ route.home
      /\ route.at[1] = 0 /\ route.at[2] = d /\ route.at[3] = 2 * d
  BY FlownReturn
<1>2. RouteTypeOK /\ LastedSoFar /\ FeesAreRight /\ StopAtTwo
  BY DEF RouteInv
<1> HIDE DEF d
<1>3. landings = 1
  BY <1>1, <1>2 DEF FeesAreRight, Final
<1>4. NextFuel(2) = 3
  <2>1. 2 \in 1..Final
    BY <1>1
  <2>2. NextFuel(2) \in 2 + 1..Final + 1
    BY <1>2, <2>1, NextFuelIsNext
  <2> QED
    BY <1>1, <2>2
<1>5. 2 \in refuels <=> 2 \in route.sells /\ tank < 2 * d
  <2>1. Distance(2, NextFuel(2)) = d
    BY <1>1, <1>4 DEF Distance
  <2> QED
    BY <1>1, <1>2, <2>1 DEF StopAtTwo
<1>6. refuels \subseteq {2}
  BY <1>1, <1>2 DEF RouteTypeOK, Sellers
<1>7. refuels = IF 2 * d > tank /\ 2 \in route.sells THEN {2} ELSE {}
  BY <1>1, <1>5, <1>6
<1>8. /\ Distance(1, 2) = d /\ Distance(2, 3) = d /\ Distance(1, 3) = 2 * d
  BY <1>1 DEF Distance
<1>9. within <=> d <= tank /\ (2 * d <= tank \/ 2 \in route.sells)
  <2>1. within <=> LastsUntil(refuels, 3)
    BY <1>1, <1>2 DEF LastedSoFar
  <2>2. CASE 2 \in refuels
    <3>1. refuels = {2}
      BY <1>6, <2>2
    <3>2. LastsUntil({2}, 3) <=> d <= tank
      <4>1. LastsUntil({2}, 3) => Distance(1, 2) <= tank
        <5>1. 1 \in {2} \cup {1} /\ 2 \in 2..3 /\ 1 < 2 /\ \A k \in 1 + 1..2 - 1 : k \notin {2}
          OBVIOUS
        <5> QED
          BY <5>1 DEF LastsUntil
      <4>2. ASSUME d <= tank, NEW i \in {2} \cup {1}, NEW j \in 2..3, i < j, \A k \in i + 1..j - 1 : k \notin {2}
            PROVE  Distance(i, j) <= tank
        <5>1. 2 \in 1 + 1..3 - 1
          OBVIOUS
        <5>2. ~(i = 1 /\ j = 3)
          BY <4>2, <5>1
        <5>3. (i = 1 /\ j = 2) \/ (i = 2 /\ j = 3)
          BY <4>2, <5>2
        <5> QED
          BY <1>8, <4>2, <5>3
      <4> QED
        BY <1>8, <4>1, <4>2 DEF LastsUntil
    <3> QED
      BY <1>1, <1>5, <2>1, <2>2, <3>1, <3>2
  <2>3. CASE 2 \notin refuels
    <3>1. refuels = {}
      BY <1>6, <2>3
    <3>2. LastsUntil({}, 3) <=> d <= tank /\ 2 * d <= tank
      <4>1. LastsUntil({}, 3) => Distance(1, 2) <= tank /\ Distance(1, 3) <= tank
        <5>1. 1 \in {} \cup {1} /\ 2 \in 2..3 /\ 3 \in 2..3 /\ 1 < 2 /\ 1 < 3
          OBVIOUS
        <5> QED
          BY <5>1 DEF LastsUntil
      <4>2. ASSUME d <= tank, 2 * d <= tank, NEW i \in {} \cup {1}, NEW j \in 2..3
            PROVE  Distance(i, j) <= tank
        <5>1. i = 1 /\ (j = 2 \/ j = 3)
          OBVIOUS
        <5> QED
          BY <1>8, <4>2, <5>1
      <4> QED
        BY <1>8, <4>1, <4>2 DEF LastsUntil
    <3> QED
      BY <1>1, <1>5, <2>1, <2>3, <3>1, <3>2
  <2> QED
    BY <2>2, <2>3
<1> QED
  BY <1>3, <1>7, <1>9 DEF ReturnsAgree, TripIsWithinRange, d

\* The search's flight time is half a step of rounding away at most.
LEMMA RoundingIsNear ==
  ASSUME NEW d \in Nat
  PROVE  /\ Rounded(d) - d \in -(Precision \div 2)..Precision \div 2
         /\ Rounded(d) \in Int /\ Precision \div 2 \in Nat
<1> DEFINE h == Precision \div 2
           q == (d + h) \div Precision
<1>1. Precision \in Nat \ {0}
  BY PlannerAssumption
<1>2. h \in Nat /\ Precision <= 2 * h + 1
  BY <1>1
<1> HIDE DEF h
<1>3. /\ q \in Int /\ Precision * q \in Int
      /\ Precision * q <= d + h /\ d + h < Precision * q + Precision
  <2>1. d + h \in Int
    BY <1>2
  <2> QED
    BY <1>1, <2>1, DivisionLaw
<1>4. Rounded(d) = q * Precision
  BY DEF Rounded, h
<1> HIDE DEF q
<1>5. Rounded(d) = Precision * q
  BY <1>1, <1>3, <1>4
<1> QED
  BY <1>1, <1>2, <1>3, <1>5 DEF h

\* Two stays as long as each other hold numbers of midnights that differ by one at most.
LEMMA BracketsDifferByOne ==
  ASSUME NEW x \in Int, NEW y \in Int, NEW e \in Int
  PROVE  ((y + e) \div Day - (x + e) \div Day) - (y \div Day - x \div Day) \in {-1, 0, 1}
<1> DEFINE a == x \div Day
           b == y \div Day
           c == (x + e) \div Day
           f == (y + e) \div Day
<1>1. /\ a \in Int /\ Day * a \in Int /\ Day * a <= x /\ x < Day * a + Day
      /\ b \in Int /\ Day * b \in Int /\ Day * b <= y /\ y < Day * b + Day
      /\ c \in Int /\ Day * c \in Int /\ Day * c <= x + e /\ x + e < Day * c + Day
      /\ f \in Int /\ Day * f \in Int /\ Day * f <= y + e /\ y + e < Day * f + Day
  BY MidnightLaw
<1> HIDE DEF a, b, c, f
<1>2. Day \in Nat \ {0}
  BY PlannerAssumption
<1> DEFINE k == (f - c) - (b - a)
<1>3. k \in Int /\ Day * k = (Day * f - Day * c) - (Day * b - Day * a)
  BY <1>1, <1>2
<1>4. Day * k < 2 * Day /\ Day * k > -(2 * Day)
  BY <1>1, <1>2, <1>3
<1> HIDE DEF k
<1>5. k <= 1 /\ k >= -1
  BY <1>2, <1>3, <1>4, Factor
<1>6. k \in {-1, 0, 1}
  BY <1>3, <1>5
<1> QED
  BY <1>6 DEF k, a, b, c, f

\* A delay that changes the day passes a midnight.
LEMMA MidnightBetween ==
  ASSUME NEW x \in Int, NEW h \in Nat, NEW e \in -h..h, (x + e) \div Day # x \div Day
  PROVE  \E f \in -h..h : (x + f) % Day = 0
<1> DEFINE a == x \div Day
           c == (x + e) \div Day
<1>1. /\ a \in Int /\ Day * a \in Int /\ Day * a <= x /\ x < Day * a + Day
      /\ c \in Int /\ Day * c \in Int /\ Day * c <= x + e /\ x + e < Day * c + Day /\ a # c
  BY MidnightLaw
<1>2. Day \in Nat \ {0}
  BY PlannerAssumption
<1>3. ASSUME NEW k \in Int PROVE Day * k \in Int /\ (Day * k) % Day = 0
  <2> DEFINE z == Day * k
             q == z \div Day
  <2>1. z \in Int
    BY <1>2
  <2> HIDE DEF z
  <2>2. q \in Int /\ Day * q \in Int /\ Day * q <= z /\ z < Day * q + Day /\ z % Day = z - Day * q
    BY <2>1, MidnightLaw
  <2> HIDE DEF q
  <2>3. k - q \in Int /\ Day * (k - q) = z - Day * q
    BY <1>2, <2>1, <2>2 DEF z
  <2>4. k - q <= 0
    BY <1>2, <2>1, <2>2, <2>3, Factor
  <2>5. q - k \in Int /\ Day * (q - k) = Day * q - z
    BY <1>2, <2>1, <2>2 DEF z
  <2>6. q - k <= 0
    BY <1>2, <2>1, <2>2, <2>5, Factor
  <2>7. q = k
    BY <2>2, <2>3, <2>4, <2>6
  <2> QED
    BY <2>1, <2>2, <2>7 DEF z
<1>4. ASSUME NEW u \in Int, NEW v \in Int, u < v PROVE Day * u + Day <= Day * v /\ Day * u \in Int /\ Day * v \in Int
  <2>1. v - u - 1 \in Nat /\ Day * (v - u - 1) \in Nat /\ Day * (v - u - 1) = Day * v - Day * u - Day
    BY <1>2, <1>4
  <2>2. Day * u \in Int /\ Day * v \in Int
    BY <1>2
  <2> QED
    BY <1>2, <2>1, <2>2
<1> HIDE DEF a, c
<1>5. CASE a < c
  <2> DEFINE f == Day * (a + 1) - x
  <2>1. Day * (a + 1) = Day * a + Day
    BY <1>1, <1>2
  <2>2. f \in -h..h
    BY <1>1, <1>2, <1>4, <1>5, <2>1
  <2>3. x + f = Day * (a + 1) /\ a + 1 \in Int
    BY <1>1, <1>2, <2>1
  <2> QED
    BY <1>3, <2>2, <2>3
<1>6. CASE c < a
  <2> DEFINE f == Day * a - x
  <2>1. f \in -h..h
    BY <1>1, <1>2, <1>4, <1>6
  <2>2. x + f = Day * a
    BY <1>1
  <2> QED
    BY <1>1, <1>3, <2>1, <2>2
<1> QED
  BY <1>1, <1>5, <1>6

LEMMA FlownNightsAgree ==
  ASSUME RouteInv, Flown
  PROVE  NightsAgree
<1> SUFFICES ASSUME Return PROVE NightsAgree
  BY DEF NightsAgree
<1> DEFINE d == Leg(1)
           h == Precision \div 2
           start == time - 4 * Taxi - 2 * d - stay
           landing == start + Taxi + d
           out == landing + 2 * Taxi + stay
           e == Rounded(d) - d
<1>1. /\ leg = 3 /\ Final = 2 /\ d \in Nat /\ route.at[2] = d /\ route.at[3] = 2 * d
  BY FlownReturn
<1>2. time \in Nat /\ stay \in Nat /\ Taxi \in Nat
  BY PlannerAssumption DEF RouteInv, RouteTypeOK
<1>3. e \in -h..h /\ Rounded(d) \in Int /\ h \in Nat
  BY <1>1, RoundingIsNear
<1>4. landing \in Int /\ out \in Int /\ start \in Int
  BY <1>1, <1>2
<1>5. nights = NightsParked(landing, out)
  <2>1. nights = NightsParked(time - (3 - 1) * (2 * Taxi) - route.at[3] - stay + Taxi + route.at[2],
                              time - (3 - 1) * (2 * Taxi) - route.at[3] - stay + 3 * Taxi + route.at[2] + stay)
    BY <1>1 DEF RouteInv, NightAtTwo
  <2>2. time - (3 - 1) * (2 * Taxi) - route.at[3] - stay = start
    BY <1>1, <1>2
  <2>3. start + Taxi + route.at[2] = landing /\ start + 3 * Taxi + route.at[2] + stay = out
    BY <1>1, <1>2
  <2> QED
    BY <2>1, <2>2, <2>3
<1>6. StayNights(start, d) = NightsParked(landing + e, out + e)
  <2>1. start + Taxi + Rounded(d) = landing + e
    BY <1>1, <1>2, <1>3, <1>4
  <2>2. landing + e + Taxi + stay + Taxi = out + e
    BY <1>2, <1>3, <1>4
  <2> QED
    BY <2>1, <2>2 DEF StayNights
<1> HIDE DEF d, start, landing, out, e, h
<1>7. landing <= out /\ e \in Int
  BY <1>2, <1>3, <1>4 DEF out
<1>8. /\ nights = out \div Day - landing \div Day
      /\ StayNights(start, d) = (out + e) \div Day - (landing + e) \div Day
      /\ out \div Day \in Int /\ landing \div Day \in Int /\ (out + e) \div Day \in Int /\ (landing + e) \div Day \in Int
  <2>1. /\ out \div Day \in Int /\ landing \div Day \in Int /\ (out + e) \div Day \in Int /\ (landing + e) \div Day \in Int
    BY <1>4, <1>7, MidnightLaw
  <2>2. out <= landing => out \div Day - landing \div Day = 0
    <3>1. out <= landing => out = landing
      BY <1>4, <1>7
    <3> QED
      BY <2>1, <3>1
  <2>3. out + e <= landing + e => (out + e) \div Day - (landing + e) \div Day = 0
    <3>1. out + e <= landing + e => out + e = landing + e
      BY <1>4, <1>7
    <3> QED
      BY <2>1, <3>1
  <2> QED
    BY <1>5, <1>6, <2>1, <2>2, <2>3 DEF NightsParked
<1>9. StayNights(start, d) - nights \in {-1, 0, 1}
  BY <1>4, <1>7, <1>8, BracketsDifferByOne
<1>10. ASSUME StayNights(start, d) # nights
       PROVE  (\E f \in -h..h : (landing + f) % Day = 0) \/ (\E f \in -h..h : (out + f) % Day = 0)
  <2>1. (landing + e) \div Day # landing \div Day \/ (out + e) \div Day # out \div Day
    BY <1>8, <1>10
  <2> QED
    BY <1>3, <1>4, <2>1, MidnightBetween
<1> QED
  BY <1>9, <1>10 DEF NightsAgree, d, h, start, landing, out

\* The briefing stops for fuel no more than it must, calls a route flyable when
\* it is, and agrees with the search about a return trip (planner.calc.ts,
\* computeRoute and computeTrip).
THEOREM BriefingsAreRight == PlannerSpec => []BriefingIsRight
<1>1. RouteInv => BriefingIsRight
  BY FlownMeansFewest, FlownReturnsAgree, FlownNightsAgree DEF BriefingIsRight
<1> QED
  BY <1>1, RouteInvHolds, PTL

-----------------------------------------------------------------------------
(* Stopovers: the merging of the stops, and opening hours *)

-----------------------------------------------------------------------------
\* A set in some order: every member has one place.
LEMMA OrdersAreWhole ==
    ASSUME NEW S, IsFiniteSet(S), NEW order \in SetToSeqs(S)
    PROVE  /\ order \in Seq(S)
           /\ \A i, j \in DOMAIN order : i # j => order[i] # order[j]
           /\ \A x \in S : \E i \in DOMAIN order : order[i] = x
<1> DEFINE n == Cardinality(S)
<1>1. n \in Nat /\ IsFiniteSet(1 .. n) /\ Cardinality(1 .. n) = n
  BY FS_CardinalityType, FS_Interval
<1>2. order \in [1 .. n -> S] /\ \A i, j \in 1 .. n : i # j => order[i] # order[j]
  BY DEF SetToSeqs
<1>3. order \in Injection(1 .. n, S)
  BY <1>2 DEF Injection, IsInjective
<1>4. order \in Surjection(1 .. n, S)
  BY <1>1, <1>3, FS_Injection
<1> QED
  BY <1>1, <1>2, <1>4 DEF Surjection

\* What a stop can be, and the places that stops and clusters are.
Kinds == {"train", "tram", "bus", "bike", "other"}
SubKinds == {"station", "platform", "stop"}

\* The names there can be: those of the rows and those of the kinds.
PlaceNames == {s.name : s \in Stop} \cup {{k} : k \in Kinds}

Place == [name : PlaceNames, at : Int, type : Kinds, sub : SubKinds, capacity : Nat, sources : SUBSET Nat]

\* The types of the places.
StopoversTypeOK ==
  /\ rows \in Seq(Stop) /\ rules \in Seq(Rules)
  /\ stops \in Seq(Place) /\ clusters \in Seq(Place)
  /\ phase \in {"asked", "merging", "answered", "reading", "read"}
  /\ available \in BOOLEAN /\ matched \in BOOLEAN
  /\ next \in Nat \ {0}
  /\ now \in [day : 0 .. WeekDays - 1, hour : 0 .. Hours - 1]
  /\ isOpen \in {"unknown", "open", "closed"}

\* Every tag is of a kind.
LEMMA ClassesTyped ==
    ASSUME NEW tags
    PROVE  Classified(tags) \in [type : Kinds, sub : SubKinds]
  BY DEF Classified, Kinds, SubKinds

\* The higher of two priorities is no lower than either.
LEMMA PrioritiesAreNumbers ==
    /\ \A k \in Kinds : TypePriority[k] \in Nat
    /\ \A s \in SubKinds : SubtypePriority[s] \in Nat
    /\ \A j, k \in Kinds : /\ Higher(j, k, TypePriority) \in Kinds
                           /\ TypePriority[Higher(j, k, TypePriority)] >= TypePriority[j]
                           /\ TypePriority[Higher(j, k, TypePriority)] >= TypePriority[k]
    /\ \A j, k \in SubKinds : Higher(j, k, SubtypePriority) \in SubKinds
<1>1. \A k \in Kinds : TypePriority[k] \in Nat
  BY DEF TypePriority, Kinds
<1>2. \A s \in SubKinds : SubtypePriority[s] \in Nat
  BY DEF SubtypePriority, SubKinds
<1> QED
  BY <1>1, <1>2 DEF Higher

\* A name has a length.
LEMMA NamesAreFinite == \A T \in PlaceNames : IsFiniteSet(T) /\ Cardinality(T) \in Nat
<1>1. \A k \in Kinds : IsFiniteSet({k})
  BY FS_Singleton
<1> QED
  BY <1>1, FS_CardinalityType, StopoversAssumption DEF PlaceNames

\* A row becomes a place of its own: what it said is kept.
LEMMA NormalizedTyped ==
    ASSUME rows \in Seq(Stop), NEW i \in DOMAIN rows
    PROVE  /\ Normalized(i) \in Place
           /\ Normalized(i).at = rows[i].at /\ Normalized(i).capacity = rows[i].capacity
           /\ Normalized(i).type = Classified(rows[i].tags).type
           /\ rows[i].name # {} => Normalized(i).name = rows[i].name
           /\ Normalized(i).sources = {i}
<1>1. rows[i] \in Stop /\ i \in Nat
  OBVIOUS
<1>2. Classified(rows[i].tags) \in [type : Kinds, sub : SubKinds]
  BY ClassesTyped
<1> DEFINE kind == Classified(rows[i].tags)
           name == IF rows[i].name = {} THEN {kind.type} ELSE rows[i].name
<1>3. Normalized(i) = [name |-> name, at |-> rows[i].at, type |-> kind.type, sub |-> kind.sub,
                       capacity |-> rows[i].capacity, sources |-> {i}]
  BY DEF Normalized
<1>4. name \in PlaceNames /\ kind.type \in Kinds /\ kind.sub \in SubKinds
  BY <1>1, <1>2 DEF PlaceNames
<1>5. rows[i].at \in Int /\ rows[i].capacity \in Nat /\ {i} \in SUBSET Nat
  BY <1>1, StopoversAssumption
<1> HIDE DEF kind
<1>6. Normalized(i) \in Place
  BY <1>3, <1>4, <1>5 DEF Place
<1> QED
  BY <1>3, <1>6 DEF kind

\* Merging takes nothing from either of the two.
LEMMA MergedTyped ==
    ASSUME NEW base \in Place, NEW incoming \in Place
    PROVE  LET both == Merged(base, incoming) IN
           /\ both \in Place
           /\ both.at = base.at /\ both.sources = base.sources \cup incoming.sources
           /\ Cardinality(both.name) >= Cardinality(base.name)
           /\ Cardinality(both.name) >= Cardinality(incoming.name)
           /\ base.capacity > 0 \/ incoming.capacity > 0 => both.capacity > 0
           /\ TypePriority[both.type] >= TypePriority[base.type]
           /\ TypePriority[both.type] >= TypePriority[incoming.type]
<1> DEFINE name == IF Cardinality(incoming.name) > Cardinality(base.name) THEN incoming.name ELSE base.name
           capacity == IF base.capacity = 0 THEN incoming.capacity ELSE base.capacity
           type == Higher(base.type, incoming.type, TypePriority)
           sub == Higher(base.sub, incoming.sub, SubtypePriority)
<1>1. /\ base.name \in PlaceNames /\ incoming.name \in PlaceNames /\ base.capacity \in Nat /\ incoming.capacity \in Nat
      /\ base.type \in Kinds /\ incoming.type \in Kinds /\ base.sub \in SubKinds /\ incoming.sub \in SubKinds
      /\ base.at \in Int /\ base.sources \in SUBSET Nat /\ incoming.sources \in SUBSET Nat
  BY DEF Place
<1>2. Merged(base, incoming) = [name |-> name, at |-> base.at, type |-> type, sub |-> sub, capacity |-> capacity,
                                sources |-> base.sources \cup incoming.sources]
  <2>1. base = [name |-> base.name, at |-> base.at, type |-> base.type, sub |-> base.sub,
                capacity |-> base.capacity, sources |-> base.sources]
    BY DEF Place
  <2>2. Merged(base, incoming) =
          [base EXCEPT !.name = name, !.capacity = capacity, !.type = type, !.sub = sub,
                       !.sources = base.sources \cup incoming.sources]
    BY DEF Merged
  <2> HIDE DEF name, capacity, type, sub
  <2> QED
    BY <2>1, <2>2
<1>3. /\ name \in PlaceNames /\ Cardinality(name) >= Cardinality(base.name)
      /\ Cardinality(name) >= Cardinality(incoming.name)
  BY <1>1, NamesAreFinite
<1>4. capacity \in Nat /\ (base.capacity > 0 \/ incoming.capacity > 0 => capacity > 0)
  BY <1>1
<1>5. /\ type \in Kinds /\ TypePriority[type] >= TypePriority[base.type]
      /\ TypePriority[type] >= TypePriority[incoming.type]
  BY <1>1, PrioritiesAreNumbers
<1>6. sub \in SubKinds
  BY <1>1, PrioritiesAreNumbers
<1> HIDE DEF name, capacity, type, sub
<1>7. Merged(base, incoming) \in Place
  BY <1>1, <1>2, <1>3, <1>4, <1>5, <1>6 DEF Place
<1> QED
  BY <1>2, <1>3, <1>4, <1>5, <1>7

\* What a place that was merged knows of one of its rows.
Knows(place, i) ==
  /\ Far(place.at) <= Far(rows[i].at) /\ Far(place.at - rows[i].at) <= ClusterRadius
  /\ rows[i].name # {} => Cardinality(rows[i].name) <= Cardinality(place.name)
  /\ rows[i].capacity > 0 => place.capacity > 0
  /\ TypePriority[Classified(rows[i].tags).type] <= TypePriority[place.type]

\* The stops not yet merged are the rows they were made of, nearest first.
WaitingInv ==
  /\ \A k \in DOMAIN stops : \E i \in Near : stops[k] = Normalized(i)
  /\ \A k, l \in DOMAIN stops : k < l =>
       Far(stops[k].at) <= Far(stops[l].at) /\ stops[k].sources \cap stops[l].sources = {}

\* A cluster is at the place of the row it began with, and none is farther than a
\* stop not yet merged.
ClustersInv ==
  \A c \in DOMAIN clusters :
    /\ \A i \in clusters[c].sources : i \in Near /\ Knows(clusters[c], i)
    /\ \E i \in clusters[c].sources : clusters[c].at = rows[i].at
    /\ \A d \in DOMAIN clusters : c # d => clusters[c].sources \cap clusters[d].sources = {}
    /\ \A k \in DOMAIN stops : /\ Far(clusters[c].at) <= Far(stops[k].at)
                               /\ clusters[c].sources \cap stops[k].sources = {}

\* Every row near the aerodrome is in a cluster or waits to be merged.
NoneIsLost ==
  \A i \in Near : \/ \E c \in DOMAIN clusters : i \in clusters[c].sources
                  \/ \E k \in DOMAIN stops : i \in stops[k].sources

\* From the rows to the answer.
MergingInv ==
  /\ phase \in {"merging", "answered"} => WaitingInv /\ ClustersInv /\ NoneIsLost
  /\ phase = "asked" => clusters = <<>>
  /\ phase = "answered" => /\ stops = <<>>
                           /\ available = (\E c \in DOMAIN clusters : Far(clusters[c].at) <= Walkable)

\* Nothing is merged at first.
LEMMA StopoversInitial == StopoversInit => StopoversTypeOK /\ MergingInv
<1> SUFFICES ASSUME StopoversInit PROVE StopoversTypeOK /\ MergingInv
  OBVIOUS
<1>1. MaxStops \in Nat /\ MaxRules \in Nat /\ WeekDays \in Nat \ {0} /\ Hours \in Nat \ {0}
  BY StopoversAssumption
<1>2. ASSUME NEW S, NEW n \in Nat PROVE BoundedSeq(S, n) \subseteq Seq(S) /\ <<>> \in Seq(S)
  BY DEF BoundedSeq, SeqOf
<1>3. rows \in Seq(Stop)
  <2>1. rows \in BoundedSeq(Stop, MaxStops) \/ rows = <<>>
    BY DEF StopoversInit
  <2> QED
    BY <1>1, <1>2, <2>1
<1>4. rules \in Seq(Rules)
  <2>1. rules \in BoundedSeq(Rules, MaxRules) \/ rules = <<>>
    BY DEF StopoversInit
  <2> QED
    BY <1>1, <1>2, <2>1
<1>5. now \in [day : 0 .. WeekDays - 1, hour : 0 .. Hours - 1]
  BY <1>1 DEF StopoversInit
<1>6. /\ stops = <<>> /\ clusters = <<>> /\ available = FALSE /\ next = 1 /\ matched = FALSE
      /\ isOpen = "unknown" /\ phase \in {"asked", "reading"}
  BY DEF StopoversInit
<1>7. stops \in Seq(Place) /\ clusters \in Seq(Place)
  BY <1>2, <1>6
<1>8. StopoversTypeOK
  <2>1. available \in BOOLEAN /\ matched \in BOOLEAN
    BY <1>6
  <2>2. phase \in {"asked", "merging", "answered", "reading", "read"} /\ isOpen \in {"unknown", "open", "closed"}
    BY <1>6
  <2>3. next \in Nat \ {0}
    BY <1>6
  <2> QED
    BY <1>3, <1>4, <1>5, <1>7, <2>1, <2>2, <2>3 DEF StopoversTypeOK
<1> QED
  BY <1>6, <1>8 DEF MergingInv

\* A distance is not negative.
LEMMA FarIsPositive == \A x \in Int : Far(x) \in Nat /\ Far(0) = 0
  BY DEF Far

\* Sorting the rows near the aerodrome puts each in line once, nearest first.
LEMMA GatherKeeps ==
    StopoversTypeOK /\ MergingInv /\ Gather => StopoversTypeOK' /\ MergingInv'
<1> SUFFICES ASSUME StopoversTypeOK, MergingInv, Gather PROVE StopoversTypeOK' /\ MergingInv'
  OBVIOUS
<1>0. rows \in Seq(Stop) /\ Near \subseteq DOMAIN rows /\ DOMAIN rows \subseteq Nat
  BY DEF StopoversTypeOK, Near
<1>1. IsFiniteSet(Near)
  <2>1. IsFiniteSet(1 .. Len(rows))
    BY <1>0, FS_Interval
  <2> QED
    BY <1>0, <2>1, FS_Subset
<1>2. PICK order \in SetToSeqs(Near) :
        Sorted(order) /\ stops' = [k \in DOMAIN order |-> Normalized(order[k])]
  BY DEF Gather
<1>3. /\ order \in Seq(Near)
      /\ \A i, j \in DOMAIN order : i # j => order[i] # order[j]
      /\ \A x \in Near : \E i \in DOMAIN order : order[i] = x
  BY <1>1, OrdersAreWhole
<1>4. \A k \in DOMAIN order : /\ order[k] \in Near /\ stops'[k] = Normalized(order[k])
                              /\ Normalized(order[k]) \in Place /\ stops'[k].sources = {order[k]}
                              /\ stops'[k].at = rows[order[k]].at
  BY <1>0, <1>2, <1>3, NormalizedTyped
<1>5. DOMAIN stops' = DOMAIN order /\ stops' \in Seq(Place)
  BY <1>2, <1>3, <1>4
<1>6. UNCHANGED <<rows, clusters, available, rules, next, now, matched, isOpen>> /\ phase = "asked" /\ phase' = "merging"
  BY DEF Gather
<1>7. Near' = Near
  BY <1>6 DEF Near
<1>8. \A i \in DOMAIN rows : rows[i].at \in Int /\ Far(rows[i].at) \in Nat
  <2>1. ASSUME NEW i \in DOMAIN rows PROVE rows[i].at \in Int
    <3>1. rows[i] \in Stop
      BY <1>0
    <3> QED
      BY <3>1, StopoversAssumption
  <2> QED
    BY <2>1, FarIsPositive
<1>9. WaitingInv'
  <2>1. \A k \in DOMAIN stops' : \E i \in Near : stops'[k] = Normalized(i)
    BY <1>4, <1>5
  <2>2. \A i \in Near : Normalized(i)' = Normalized(i)
    BY <1>6 DEF Normalized
  <2>3. ASSUME NEW k \in DOMAIN order, NEW l \in DOMAIN order, k < l
        PROVE  Far(rows[order[k]].at) <= Far(rows[order[l]].at)
    <3>1. order[k] \in DOMAIN rows /\ order[l] \in DOMAIN rows
      BY <1>0, <1>4
    <3> QED
      BY <1>2, <1>8, <2>3, <3>1 DEF Sorted
  <2>4. ASSUME NEW k \in DOMAIN stops', NEW l \in DOMAIN stops', k < l
        PROVE  Far(stops'[k].at) <= Far(stops'[l].at) /\ stops'[k].sources \cap stops'[l].sources = {}
    <3>1. k # l
      BY <1>3, <1>5, <2>4
    <3> QED
      BY <1>3, <1>4, <1>5, <2>3, <2>4, <3>1
  <2> QED
    BY <1>7, <2>1, <2>2, <2>4 DEF WaitingInv
<1>10. clusters' = <<>>
  BY <1>6 DEF MergingInv
<1>11. NoneIsLost'
  BY <1>3, <1>4, <1>5, <1>7 DEF NoneIsLost
<1> QED
  BY <1>5, <1>6, <1>9, <1>10, <1>11 DEF StopoversTypeOK, MergingInv, ClustersInv

\* The answer is read off the clusters.
LEMMA AnswerKeeps ==
    StopoversTypeOK /\ MergingInv /\ AnswerTransport => StopoversTypeOK' /\ MergingInv'
<1> SUFFICES ASSUME StopoversTypeOK, MergingInv, AnswerTransport PROVE StopoversTypeOK' /\ MergingInv'
  OBVIOUS
<1>1. (WaitingInv /\ ClustersInv /\ NoneIsLost)'
  BY DEF AnswerTransport, MergingInv, WaitingInv, ClustersInv, NoneIsLost, Knows, Near, Normalized
<1> QED
  BY <1>1 DEF AnswerTransport, StopoversTypeOK, MergingInv

\* One stop, nearest of those that wait, joins the first cluster that fits or begins its own.
LEMMA ClusterKeeps ==
    StopoversTypeOK /\ MergingInv /\ ClusterStop => StopoversTypeOK' /\ MergingInv'
<1> SUFFICES ASSUME StopoversTypeOK, MergingInv, ClusterStop PROVE StopoversTypeOK' /\ MergingInv'
  OBVIOUS
<1> DEFINE stop == Head(stops)
           fitting == {c \in DOMAIN clusters : /\ Far(stop.at - clusters[c].at) <= ClusterRadius
                                               /\ NamesAreSimilar(stop.name, clusters[c].name)}
<1>0. /\ phase = "merging" /\ stops # <<>> /\ stops' = Tail(stops)
      /\ clusters' = IF fitting = {} THEN Append(clusters, stop)
                     ELSE [clusters EXCEPT ![Min(fitting)] = Merged(@, stop)]
      /\ UNCHANGED <<rows, phase, available, rules, next, now, matched, isOpen>>
  BY DEF ClusterStop
<1>1. WaitingInv /\ ClustersInv /\ NoneIsLost
  BY <1>0 DEF MergingInv
<1>2. stops \in Seq(Place) /\ clusters \in Seq(Place) /\ rows \in Seq(Stop)
  BY DEF StopoversTypeOK
<1>3. /\ stop = stops[1] /\ 1 \in DOMAIN stops /\ stop \in Place
      /\ Tail(stops) \in Seq(Place) /\ Len(Tail(stops)) = Len(stops) - 1
      /\ \A k \in DOMAIN Tail(stops) : k + 1 \in DOMAIN stops /\ Tail(stops)[k] = stops[k + 1]
  BY <1>0, <1>2
<1>4. PICK i \in Near : stops[1] = Normalized(i)
  BY <1>1, <1>3 DEF WaitingInv
<1>5. i \in DOMAIN rows /\ i \in Nat
  BY <1>2 DEF Near
<1>6. /\ stop.sources = {i} /\ stop.at = rows[i].at /\ stop.capacity = rows[i].capacity
      /\ stop.type = Classified(rows[i].tags).type
      /\ rows[i].name # {} => stop.name = rows[i].name
  BY <1>2, <1>3, <1>4, <1>5, NormalizedTyped
<1>7. rows[i].at \in Int /\ rows[i].capacity \in Nat /\ ClusterRadius \in Nat
  <2>1. rows[i] \in Stop
    BY <1>2, <1>5
  <2> QED
    BY <2>1, StopoversAssumption
<1>8. Near' = Near /\ \A j \in Near : Normalized(j)' = Normalized(j)
  BY <1>0 DEF Near, Normalized
<1>9. WaitingInv'
  <2>1. \A k \in DOMAIN stops' : \E j \in Near : stops'[k] = Normalized(j)
    BY <1>0, <1>1, <1>3 DEF WaitingInv
  <2>2. ASSUME NEW k \in DOMAIN stops', NEW l \in DOMAIN stops', k < l
        PROVE  Far(stops'[k].at) <= Far(stops'[l].at) /\ stops'[k].sources \cap stops'[l].sources = {}
    <3>1. k + 1 \in DOMAIN stops /\ l + 1 \in DOMAIN stops /\ k + 1 < l + 1
      BY <1>0, <1>3, <2>2
    <3>2. stops'[k] = stops[k + 1] /\ stops'[l] = stops[l + 1]
      BY <1>0, <1>3
    <3> QED
      BY <1>1, <3>1, <3>2 DEF WaitingInv
  <2> QED
    BY <1>8, <2>1, <2>2 DEF WaitingInv
\* What the stop brings is not among the rows of the others, and is no farther.
<1>10. /\ \A c \in DOMAIN clusters : clusters[c].sources \cap {i} = {} /\ Far(clusters[c].at) <= Far(stop.at)
       /\ \A k \in DOMAIN stops' : /\ stops'[k].sources \cap {i} = {}
                                   /\ Far(stop.at) <= Far(stops'[k].at)
                                   /\ \A c \in DOMAIN clusters : /\ clusters[c].sources \cap stops'[k].sources = {}
                                                                 /\ Far(clusters[c].at) <= Far(stops'[k].at)
  <2>1. \A c \in DOMAIN clusters : clusters[c].sources \cap {i} = {} /\ Far(clusters[c].at) <= Far(stop.at)
    BY <1>1, <1>3, <1>6 DEF ClustersInv
  <2>2. ASSUME NEW k \in DOMAIN stops'
        PROVE  k + 1 \in DOMAIN stops /\ 1 < k + 1 /\ stops'[k] = stops[k + 1]
    BY <1>0, <1>3
  <2>3. \A k \in DOMAIN stops' : stops'[k].sources \cap {i} = {} /\ Far(stop.at) <= Far(stops'[k].at)
    BY <1>1, <1>3, <1>6, <2>2 DEF WaitingInv
  <2>4. \A k \in DOMAIN stops' : \A c \in DOMAIN clusters :
          clusters[c].sources \cap stops'[k].sources = {} /\ Far(clusters[c].at) <= Far(stops'[k].at)
    BY <1>1, <2>2 DEF ClustersInv
  <2> QED
    BY <2>1, <2>3, <2>4
<1>11. \A j \in DOMAIN rows : \A p : Knows(p, j)' <=> Knows(p, j)
  BY <1>0 DEF Knows
<1>12. \A j \in Near : (\E c \in DOMAIN clusters : j \in clusters[c].sources)
                       \/ (\E k \in DOMAIN stops' : j \in stops'[k].sources) \/ j = i
  <2>1. ASSUME NEW j \in Near, NEW k \in DOMAIN stops, j \in stops[k].sources, j # i
        PROVE  k - 1 \in DOMAIN stops' /\ stops'[k - 1] = stops[k]
    <3>1. k # 1
      BY <1>3, <1>6, <2>1
    <3> QED
      BY <1>0, <1>2, <1>3, <3>1
  <2> QED
    BY <1>1, <2>1 DEF NoneIsLost
<1>13. CASE fitting = {}
  <2>1. clusters' = Append(clusters, stop)
    BY <1>0, <1>13
  <2> HIDE DEF fitting
  <2>2. /\ clusters' \in Seq(Place) /\ DOMAIN clusters' = DOMAIN clusters \cup {Len(clusters) + 1}
        /\ \A c \in DOMAIN clusters : clusters'[c] = clusters[c] /\ c # Len(clusters) + 1
        /\ clusters'[Len(clusters) + 1] = stop
    BY <1>2, <1>3, <2>1
  <2>3. Knows(stop, i)
    <3>1. stop.at - rows[i].at = 0 /\ Far(0) <= ClusterRadius /\ Far(rows[i].at) \in Nat
      BY <1>6, <1>7, FarIsPositive
    <3>2. Cardinality(stop.name) \in Nat /\ TypePriority[stop.type] \in Nat
      BY <1>3, NamesAreFinite, PrioritiesAreNumbers DEF Place
    <3> HIDE DEF stop
    <3> QED
      BY <1>6, <1>7, <3>1, <3>2 DEF Knows
  <2>4. ASSUME NEW c \in DOMAIN clusters'
        PROVE  \/ /\ c \in DOMAIN clusters /\ clusters'[c] = clusters[c]
               \/ /\ c = Len(clusters) + 1 /\ clusters'[c] = stop
    BY <2>2
  <2>5. ASSUME NEW c \in DOMAIN clusters'
        PROVE  /\ \A j \in clusters'[c].sources : j \in Near /\ Knows(clusters'[c], j)
               /\ \E j \in clusters'[c].sources : clusters'[c].at = rows[j].at
    BY <1>1, <1>6, <2>3, <2>4 DEF ClustersInv
  <2>6. ASSUME NEW c \in DOMAIN clusters', NEW d \in DOMAIN clusters', c # d
        PROVE  clusters'[c].sources \cap clusters'[d].sources = {}
    BY <1>1, <1>6, <1>10, <2>4, <2>6 DEF ClustersInv
  <2>7. ASSUME NEW c \in DOMAIN clusters', NEW k \in DOMAIN stops'
        PROVE  Far(clusters'[c].at) <= Far(stops'[k].at) /\ clusters'[c].sources \cap stops'[k].sources = {}
    BY <1>6, <1>10, <2>4
  <2>8. ClustersInv'
    <3>1. Near \subseteq DOMAIN rows
      BY DEF Near
    <3> QED
      BY <1>0, <1>8, <1>11, <2>5, <2>6, <2>7, <3>1 DEF ClustersInv
  <2>9. NoneIsLost'
    BY <1>6, <1>8, <1>12, <2>2 DEF NoneIsLost
  <2> QED
    BY <1>0, <1>3, <1>9, <2>2, <2>8, <2>9 DEF StopoversTypeOK, MergingInv
<1>14. CASE fitting # {}
  <2> DEFINE m == Min(fitting)
             both == Merged(clusters[m], stop)
  <2>1. m \in fitting
    <3>1. fitting \in SUBSET Nat
      BY <1>2
    <3> QED
      BY <1>14, <3>1, LeastOfSome
  <2>2. m \in DOMAIN clusters /\ Far(stop.at - clusters[m].at) <= ClusterRadius
    BY <2>1
  <2>3. clusters' = [clusters EXCEPT ![m] = both]
    BY <1>0, <1>14
  <2>4. clusters[m] \in Place
    BY <1>2, <2>2
  <2>5. /\ both \in Place /\ both.at = clusters[m].at /\ both.sources = clusters[m].sources \cup {i}
        /\ Cardinality(both.name) >= Cardinality(clusters[m].name)
        /\ Cardinality(both.name) >= Cardinality(stop.name)
        /\ clusters[m].capacity > 0 \/ stop.capacity > 0 => both.capacity > 0
        /\ TypePriority[both.type] >= TypePriority[clusters[m].type]
        /\ TypePriority[both.type] >= TypePriority[stop.type]
    BY <1>3, <1>6, <2>4, MergedTyped
  <2> HIDE DEF fitting, m, both
  <2>6. /\ clusters' \in Seq(Place) /\ DOMAIN clusters' = DOMAIN clusters /\ clusters'[m] = both
        /\ \A c \in DOMAIN clusters : c # m => clusters'[c] = clusters[c]
    BY <1>2, <2>2, <2>3, <2>5
  <2>7. ASSUME NEW j \in clusters[m].sources PROVE Knows(both, j)
    <3>1. Knows(clusters[m], j) /\ j \in DOMAIN rows
      BY <1>1, <2>2 DEF ClustersInv, Near
    <3>2. rows[j] \in Stop /\ rows[j].capacity \in Nat /\ Cardinality(rows[j].name) \in Nat
      BY <1>2, <3>1, StopoversAssumption, FS_CardinalityType
    <3>3. /\ Cardinality(both.name) \in Nat /\ Cardinality(clusters[m].name) \in Nat
          /\ TypePriority[both.type] \in Nat /\ TypePriority[clusters[m].type] \in Nat
          /\ TypePriority[Classified(rows[j].tags).type] \in Nat
      BY <2>4, <2>5, NamesAreFinite, PrioritiesAreNumbers, ClassesTyped DEF Place
    <3> QED
      BY <2>5, <3>1, <3>2, <3>3 DEF Knows
  <2>8. Knows(both, i)
    <3>1. Far(both.at) <= Far(rows[i].at)
      BY <1>6, <1>10, <2>2, <2>5
    <3>2. Far(both.at - rows[i].at) <= ClusterRadius
      <4>1. both.at \in Int /\ rows[i].at \in Int
        BY <1>7, <2>5 DEF Place
      <4>2. Far(rows[i].at - both.at) <= ClusterRadius
        BY <1>6, <2>2, <2>5
      <4> QED
        BY <4>1, <4>2 DEF Far
    <3> QED
      BY <1>6, <2>5, <3>1, <3>2 DEF Knows
  <2>9. ASSUME NEW c \in DOMAIN clusters'
        PROVE  /\ \A j \in clusters'[c].sources : j \in Near /\ Knows(clusters'[c], j)
               /\ \E j \in clusters'[c].sources : clusters'[c].at = rows[j].at
    <3>1. CASE c = m
      BY <1>1, <2>2, <2>5, <2>6, <2>7, <2>8, <3>1 DEF ClustersInv
    <3>2. CASE c # m
      BY <1>1, <2>6, <3>2 DEF ClustersInv
    <3> QED
      BY <3>1, <3>2
  <2>10. ASSUME NEW c \in DOMAIN clusters', NEW d \in DOMAIN clusters', c # d
        PROVE  clusters'[c].sources \cap clusters'[d].sources = {}
    <3>1. clusters[c].sources \cap clusters[d].sources = {}
      BY <1>1, <2>6, <2>10 DEF ClustersInv
    <3> QED
      BY <1>10, <2>5, <2>6, <2>10, <3>1
  <2>11. ASSUME NEW c \in DOMAIN clusters', NEW k \in DOMAIN stops'
        PROVE  Far(clusters'[c].at) <= Far(stops'[k].at) /\ clusters'[c].sources \cap stops'[k].sources = {}
    BY <1>10, <2>5, <2>6
  <2>12. ClustersInv'
    <3>1. Near \subseteq DOMAIN rows
      BY DEF Near
    <3> QED
      BY <1>0, <1>8, <1>11, <2>9, <2>10, <2>11, <3>1 DEF ClustersInv
  <2>13. NoneIsLost'
    <3>1. ASSUME NEW j \in Near, NEW c \in DOMAIN clusters, j \in clusters[c].sources
          PROVE  j \in clusters'[c].sources
      BY <2>5, <2>6, <3>1
    <3> QED
      BY <1>8, <1>12, <2>2, <2>5, <2>6, <3>1 DEF NoneIsLost
  <2> QED
    BY <1>0, <1>3, <1>9, <2>6, <2>12, <2>13 DEF StopoversTypeOK, MergingInv
<1> QED
  BY <1>13, <1>14

\* The rules read so far that are about today, and whether one of them is open.
Today(i) == ~rules[i].complex /\ now.day \in DaysOf(rules[i])
Opens(i) == \E r \in rules[i].ranges : OpenDuring(r)

\* While the rules are read none of today's was open, and matched says whether there was one.
ReadingInv ==
  /\ phase = "reading" => /\ isOpen = "unknown" /\ next <= Len(rules) + 1
                          /\ matched <=> \E i \in 1 .. next - 1 : Today(i)
                          /\ \A i \in 1 .. next - 1 : Today(i) => ~Opens(i)
  /\ phase = "read" =>
       \/ isOpen = "open" /\ \E i \in DOMAIN rules : Today(i) /\ Opens(i)
       \/ /\ \A i \in DOMAIN rules : Today(i) => ~Opens(i)
          /\ isOpen = IF \E i \in DOMAIN rules : Today(i) THEN "closed" ELSE "unknown"

\* The inductive invariant of the places.
PlacesInv == StopoversTypeOK /\ MergingInv /\ ReadingInv

\* No rule is read at first.
LEMMA ReadingInitial == StopoversInit => ReadingInv
  BY DEF StopoversInit, ReadingInv

\* Reading a rule keeps the invariant.
LEMMA ReadingKept ==
    ASSUME PlacesInv, ReadRule
    PROVE  PlacesInv'
<1> DEFINE rule == rules[next]
           today == ~rule.complex /\ now.day \in DaysOf(rule)
<1>1. /\ phase = "reading" /\ next <= Len(rules) /\ matched' = (matched \/ Today(next)) /\ next' = next + 1
      /\ IF Today(next) /\ Opens(next) THEN isOpen' = "open" /\ phase' = "read" ELSE UNCHANGED <<isOpen, phase>>
      /\ UNCHANGED <<rows, stops, clusters, available, rules, now>>
  BY DEF ReadRule, Today, Opens
<1>2. /\ isOpen = "unknown" /\ next <= Len(rules) + 1
      /\ matched <=> \E i \in 1 .. next - 1 : Today(i)
      /\ \A i \in 1 .. next - 1 : Today(i) => ~Opens(i)
  BY <1>1 DEF PlacesInv, ReadingInv
<1>3. next \in Nat \ {0} /\ rules \in Seq(Rules) /\ matched \in BOOLEAN
  BY DEF PlacesInv, StopoversTypeOK
<1>4. \A i : (Today(i)' <=> Today(i)) /\ (Opens(i)' <=> Opens(i))
  BY <1>1 DEF Today, Opens, OpenDuring, DaysOf
<1>5. StopoversTypeOK'
  <2>1. matched' \in BOOLEAN
    BY <1>1, <1>3 DEF Today
  <2>2. next' \in Nat \ {0} /\ phase' \in {"reading", "read"} /\ isOpen' \in {"unknown", "open"}
    BY <1>1, <1>2, <1>3
  <2> QED
    BY <1>1, <2>1, <2>2 DEF PlacesInv, StopoversTypeOK
<1>6. MergingInv'
  BY <1>1 DEF PlacesInv, MergingInv
<1>7. ReadingInv'
  <2>1. CASE Today(next) /\ Opens(next)
    <3>1. next \in DOMAIN rules'
      BY <1>1, <1>3
    <3> QED
      BY <1>1, <1>4, <2>1, <3>1 DEF ReadingInv
  <2>2. CASE ~(Today(next) /\ Opens(next))
    <3>1. 1 .. next' - 1 = (1 .. next - 1) \cup {next}
      BY <1>1, <1>3
    <3>2. matched' <=> \E i \in 1 .. next' - 1 : Today(i)
      BY <1>1, <1>2, <3>1
    <3>3. \A i \in 1 .. next' - 1 : Today(i) => ~Opens(i)
      BY <1>1, <1>2, <2>2, <3>1
    <3>4. next' <= Len(rules') + 1
      BY <1>1, <1>3
    <3> QED
      BY <1>1, <1>2, <1>4, <2>2, <3>2, <3>3, <3>4 DEF ReadingInv
  <2> QED
    BY <2>1, <2>2
<1> QED
  BY <1>5, <1>6, <1>7 DEF PlacesInv

\* The end of the rules keeps it.
LEMMA EndKept ==
    ASSUME PlacesInv, EndRules
    PROVE  PlacesInv'
<1>1. /\ phase = "reading" /\ next > Len(rules) /\ isOpen' = (IF matched THEN "closed" ELSE "unknown") /\ phase' = "read"
      /\ UNCHANGED <<rows, stops, clusters, available, rules, next, now, matched>>
  BY DEF EndRules
<1>2. /\ next <= Len(rules) + 1
      /\ matched <=> \E i \in 1 .. next - 1 : Today(i)
      /\ \A i \in 1 .. next - 1 : Today(i) => ~Opens(i)
  BY <1>1 DEF PlacesInv, ReadingInv
<1>3. next \in Nat \ {0} /\ rules \in Seq(Rules) /\ matched \in BOOLEAN
  BY DEF PlacesInv, StopoversTypeOK
<1>4. 1 .. next - 1 = DOMAIN rules
  BY <1>1, <1>2, <1>3
<1>5. \A i : (Today(i)' <=> Today(i)) /\ (Opens(i)' <=> Opens(i))
  BY <1>1 DEF Today, Opens, OpenDuring, DaysOf
<1>6. ReadingInv'
  BY <1>1, <1>2, <1>4, <1>5 DEF ReadingInv
<1>7. StopoversTypeOK'
  <2>1. phase' \in {"read"} /\ isOpen' \in {"unknown", "closed"}
    BY <1>1, <1>3
  <2> QED
    BY <1>1, <2>1 DEF PlacesInv, StopoversTypeOK
<1>8. MergingInv'
  BY <1>1 DEF PlacesInv, MergingInv
<1> QED
  BY <1>6, <1>7, <1>8 DEF PlacesInv

\* Every step keeps it.
LEMMA PlacesKept == PlacesInv /\ [StopoversNext]_stopoverVars => PlacesInv'
<1> SUFFICES ASSUME PlacesInv, [StopoversNext]_stopoverVars PROVE PlacesInv'
  OBVIOUS
<1>1. CASE Gather
  BY <1>1, GatherKeeps DEF PlacesInv, ReadingInv, Gather
<1>2. CASE ClusterStop
  BY <1>2, ClusterKeeps DEF PlacesInv, ReadingInv, ClusterStop
<1>3. CASE AnswerTransport
  BY <1>3, AnswerKeeps DEF PlacesInv, ReadingInv, AnswerTransport
<1>4. CASE ReadRule
  BY <1>4, ReadingKept
<1>5. CASE EndRules
  BY <1>5, EndKept
<1>6. CASE UNCHANGED stopoverVars
  <2>1. StopoversTypeOK'
    BY <1>6 DEF stopoverVars, PlacesInv, StopoversTypeOK
  <2>2. MergingInv'
    <3>1. /\ UNCHANGED <<rows, stops, clusters, phase, available>> /\ Near' = Near /\ MergingInv
          /\ \A i : Normalized(i)' = Normalized(i) /\ \A p : Knows(p, i)' <=> Knows(p, i)
      BY <1>6 DEF stopoverVars, PlacesInv, Near, Normalized, Knows
    <3>2. (WaitingInv' <=> WaitingInv) /\ (ClustersInv' <=> ClustersInv) /\ (NoneIsLost' <=> NoneIsLost)
      BY <3>1 DEF WaitingInv, ClustersInv, NoneIsLost
    <3> QED
      BY <3>1, <3>2 DEF MergingInv
  <2>3. ReadingInv'
    BY <1>6 DEF stopoverVars, PlacesInv, ReadingInv, Today, Opens, OpenDuring, DaysOf
  <2> QED
    BY <2>1, <2>2, <2>3 DEF PlacesInv
<1> QED
  BY <1>1, <1>2, <1>3, <1>4, <1>5, <1>6 DEF StopoversNext

\* Each row is in one cluster, and a stop can be walked to exactly if a cluster can.
LEMMA MergedIsRight ==
    ASSUME PlacesInv, phase = "answered"
    PROVE  /\ \A i \in Near :
                /\ Cardinality({c \in DOMAIN clusters : i \in clusters[c].sources}) = 1
                /\ \A c \in DOMAIN clusters : i \in clusters[c].sources => Knows(clusters[c], i)
           /\ available <=> \E i \in Near : Far(rows[i].at) <= Walkable
<1>1. ClustersInv /\ NoneIsLost /\ stops = <<>> /\ available = (\E c \in DOMAIN clusters : Far(clusters[c].at) <= Walkable)
  BY DEF PlacesInv, MergingInv
<1>2. ASSUME NEW i \in Near
      PROVE  Cardinality({c \in DOMAIN clusters : i \in clusters[c].sources}) = 1
  <2>1. PICK c \in DOMAIN clusters : i \in clusters[c].sources
    BY <1>1 DEF NoneIsLost
  <2>2. \A d \in DOMAIN clusters : i \in clusters[d].sources => d = c
    BY <1>1, <2>1 DEF ClustersInv
  <2>3. {d \in DOMAIN clusters : i \in clusters[d].sources} = {c}
    BY <2>1, <2>2
  <2> QED
    BY <2>3, FS_Singleton
<1>3. \A i \in Near : \A c \in DOMAIN clusters : i \in clusters[c].sources => Knows(clusters[c], i)
  BY <1>1 DEF ClustersInv
<1>4. ASSUME NEW c \in DOMAIN clusters, Far(clusters[c].at) <= Walkable
      PROVE  \E i \in Near : Far(rows[i].at) <= Walkable
  BY <1>1, <1>4 DEF ClustersInv
<1>5. ASSUME NEW i \in Near, Far(rows[i].at) <= Walkable
      PROVE  \E c \in DOMAIN clusters : Far(clusters[c].at) <= Walkable
  <2>1. PICK c \in DOMAIN clusters : i \in clusters[c].sources
    BY <1>1 DEF NoneIsLost
  <2>2. Far(clusters[c].at) <= Far(rows[i].at)
    BY <1>3, <2>1 DEF Knows
  <2>3. Far(clusters[c].at) \in Int /\ Far(rows[i].at) \in Int /\ Walkable \in Int
    <3>1. clusters[c].at \in Int /\ rows[i].at \in Int
      <4>1. clusters[c] \in Place /\ rows[i] \in Stop
        BY <2>1 DEF PlacesInv, StopoversTypeOK, Near
      <4> QED
        BY <4>1, StopoversAssumption DEF Place
    <3> QED
      BY <3>1, FarIsPositive, StopoversAssumption
  <2> QED
    BY <1>5, <2>2, <2>3
<1> QED
  BY <1>1, <1>2, <1>3, <1>4, <1>5

\* A set of one member at most has no two.
LEMMA TwoAreNotOne ==
    ASSUME NEW S, IsFiniteSet(S), Cardinality(S) <= 1, NEW x \in S, NEW y \in S
    PROVE  x = y
<1>1. ASSUME x # y PROVE FALSE
  <2>1. Cardinality({x, y}) = 2
    <3>1. IsFiniteSet({x}) /\ Cardinality({x}) = 1
      BY FS_Singleton
    <3>2. Cardinality({x} \cup {y}) = 2
      BY <1>1, <3>1, FS_AddElement
    <3>3. {x} \cup {y} = {x, y}
      OBVIOUS
    <3> QED
      BY <3>2, <3>3
  <2>2. Cardinality({x, y}) <= Cardinality(S)
    BY FS_Subset
  <2> QED
    BY <2>1, <2>2, FS_CardinalityType
<1> QED
  BY <1>1

\* Of rules in the forms the parser is made for, those it takes for today's are the
\* one OpenStreetMap has for today.
LEMMA HoursAreRight ==
    ASSUME PlacesInv, phase = "read", Simple
    PROVE  /\ isOpen = "open" <=> OpenNow
           /\ isOpen = "unknown" <=> RuleOf(now.day) = {}
<1> DEFINE named == {i \in DOMAIN rules : Names(rules[i], now.day)}
<1>1. /\ rules \in Seq(Rules) /\ WeekDays \in Nat \ {0} /\ Hours \in Nat \ {0}
      /\ now.day \in 0 .. WeekDays - 1 /\ now.hour \in 0 .. Hours - 1
  BY StopoversAssumption DEF PlacesInv, StopoversTypeOK
<1>2. \A i \in DOMAIN rules : rules[i] \in Rules
  BY <1>1
<1>3. ASSUME NEW i \in DOMAIN rules
      PROVE  /\ ~rules[i].complex
             /\ \A s \in rules[i].days : s[1] \in 1 .. WeekDays /\ s[2] \in 1 .. WeekDays /\ s[1] <= s[2]
             /\ \A r \in rules[i].ranges : r[1] \in 0 .. Hours /\ r[2] \in 0 .. Hours /\ r[1] < r[2]
  BY <1>2, StopoversAssumption DEF Simple
<1>4. ASSUME NEW i \in DOMAIN rules PROVE Today(i) <=> i \in named
  <2>1. CASE rules[i].days = {}
    BY <1>1, <1>3, <2>1 DEF Today, Names, DaysOf
  <2>2. CASE rules[i].days # {}
    <3>1. Today(i) <=> \E s \in rules[i].days : \E k \in s[1] .. s[2] : k % WeekDays = now.day
      BY <1>3, <2>2 DEF Today, DaysOf, ExpandDaySpec
    <3>2. i \in named <=> \E s \in rules[i].days : \E k \in 1 .. WeekDays : k % WeekDays = now.day /\ k \in s[1] .. s[2]
      BY <1>3, <2>2 DEF Names
    <3>3. \A s \in rules[i].days : \A k : k \in s[1] .. s[2] => k \in 1 .. WeekDays
      BY <1>1, <1>3
    <3> QED
      BY <3>1, <3>2, <3>3
  <2> QED
    BY <2>1, <2>2
<1>5. ASSUME NEW i \in named, NEW j \in named PROVE i = j
  <2>1. IsFiniteSet(named) /\ Cardinality(named) <= 1
    <3>1. IsFiniteSet(1 .. Len(rules))
      BY <1>1, FS_Interval
    <3>2. IsFiniteSet(named)
      BY <1>1, <3>1, FS_Subset
    <3> QED
      BY <1>1, <3>2 DEF Simple
  <2> HIDE DEF named
  <2> QED
    BY <2>1, TwoAreNotOne
<1>6. RuleOf(now.day) = named
  <2>1. ASSUME NEW i \in named, NEW j \in i + 1 .. Len(rules), Names(rules[j], now.day) PROVE FALSE
    <3>1. j \in named /\ i # j
      BY <1>1, <2>1
    <3> QED
      BY <1>5, <3>1
  <2> QED
    BY <2>1 DEF RuleOf
<1>7. ASSUME NEW i \in DOMAIN rules
      PROVE  /\ Opens(i) <=> \E r \in rules[i].ranges : now.hour >= r[1] /\ (now.hour < r[2] \/ r[2] <= r[1])
             /\ ~\E r \in rules[i].ranges : r[2] <= r[1] /\ now.hour < r[2]
  <2>1. ASSUME NEW r \in rules[i].ranges
        PROVE  /\ OpenDuring(r) <=> (now.hour >= r[1] /\ (now.hour < r[2] \/ r[2] <= r[1]))
               /\ ~(r[2] <= r[1])
    BY <1>1, <1>3 DEF OpenDuring
  <2> QED
    BY <2>1 DEF Opens
<1>8. OpenNow <=> \E i \in named : Opens(i)
  <2>1. \A day : RuleOf(day) \subseteq DOMAIN rules
    BY DEF RuleOf
  <2> QED
    BY <1>6, <1>7, <2>1 DEF OpenNow
<1> HIDE DEF named
<1>9. named \subseteq DOMAIN rules
  BY DEF named
<1>10. CASE isOpen = "open" /\ \E i \in DOMAIN rules : Today(i) /\ Opens(i)
  BY <1>4, <1>6, <1>8, <1>10
<1>11. CASE /\ \A i \in DOMAIN rules : Today(i) => ~Opens(i)
            /\ isOpen = IF \E i \in DOMAIN rules : Today(i) THEN "closed" ELSE "unknown"
  BY <1>4, <1>6, <1>8, <1>9, <1>11
<1> QED
  BY <1>10, <1>11 DEF PlacesInv, ReadingInv

\* The invariant says the places are right.
LEMMA PlacesFollow == PlacesInv => PlacesAreRight
<1> SUFFICES ASSUME PlacesInv PROVE PlacesAreRight
  OBVIOUS
<1>1. CASE phase = "answered"
  <2>1. /\ \A i \in Near :
             /\ Cardinality({c \in DOMAIN clusters : i \in clusters[c].sources}) = 1
             /\ \A c \in DOMAIN clusters : i \in clusters[c].sources => Knows(clusters[c], i)
        /\ available <=> \E i \in Near : Far(rows[i].at) <= Walkable
    BY <1>1, MergedIsRight
  <2>2. available \in BOOLEAN
    BY DEF PlacesInv, StopoversTypeOK
  <2>3. available = (\E i \in Near : Far(rows[i].at) <= Walkable)
    BY <2>1, <2>2
  <2> QED
    BY <1>1, <2>1, <2>3 DEF PlacesAreRight, Knows
<1>2. CASE phase = "read" /\ Simple
  BY <1>2, HoursAreRight DEF PlacesAreRight
<1>3. CASE phase # "answered" /\ ~(phase = "read" /\ Simple)
  BY <1>3 DEF PlacesAreRight
<1> QED
  BY <1>1, <1>2, <1>3

\* For any rows of OpenStreetMap, however many of them stand for one stop, every stop near the
\* aerodrome is a source of exactly one place, which is no farther than it, near it, and says
\* what it said, and the service is offered exactly if one can be walked to (getNearbyTransport);
\* and of opening hours in the forms the parser is made for the answer is that of
\* OpenStreetMap's reading of them (parseOpeningHours).
THEOREM PlacesStayRight == StopoversSpec => []PlacesAreRight
<1>1. StopoversInit => PlacesInv
  BY StopoversInitial, ReadingInitial DEF PlacesInv
<1> QED
  BY <1>1, PlacesKept, PlacesFollow, PTL DEF StopoversSpec

-----------------------------------------------------------------------------
(* RouteHazards: the obstacles *)

\* Squares are ordered as what they are the squares of.
LEMMA SquareBounds ==
    ASSUME NEW x \in Int, NEW c \in Nat, x * x <= c * c
    PROVE  -c <= x /\ x <= c
  OBVIOUS

\* A coordinate whose foot on a side lies between the ends is between them, but for the offset.
LEMMA BetweenEnds ==
    ASSUME NEW len \in Int, NEW along \in Int, NEW x \in Int, NEW off \in Int, NEW u \in Int, NEW c \in Nat,
           len > 0, 0 <= along, along <= len, off * off <= (c * len) * (c * len),
           len * u = along * x + off
    PROVE  /\ u >= -c \/ u >= x - c
           /\ u <= c \/ u <= x + c
<1> DEFINE k == c * len
<1>0. k \in Nat
  OBVIOUS
<1> HIDE DEF k
<1>1. -k <= off /\ off <= k
  BY <1>0, SquareBounds DEF k
<1>2. CASE x >= 0
  <2>1. 0 <= along * x /\ along * x <= len * x
    BY <1>2
  <2>2. len * u >= -k /\ len * u <= len * x + k
    BY <1>1, <2>1, <1>0
  <2>3. len * (u + c) >= 0 /\ len * (x + c - u) >= 0
    BY <2>2 DEF k
  <2>4. u + c >= 0 /\ x + c - u >= 0
    BY <2>3
  <2> QED
    BY <2>4
<1>3. CASE x < 0
  <2>1. 0 >= along * x /\ along * x >= len * x
    BY <1>3
  <2>2. len * u <= k /\ len * u >= len * x - k
    BY <1>1, <2>1, <1>0
  <2>3. len * (c - u) >= 0 /\ len * (u - x + c) >= 0
    BY <2>2 DEF k
  <2>4. c - u >= 0 /\ u - x + c >= 0
    BY <2>3
  <2> QED
    BY <2>4
<1> QED
  BY <1>2, <1>3

\* What is in the corridor of a leg is in its box: the nearest point of the leg is one of
\* its ends or lies between them, and no coordinate is farther from it than the corridor is wide.
LEMMA NearIsBoxed ==
    ASSUME NEW a \in Int \X Int, NEW b \in Int \X Int, obstacle \in Int \X Int, WithinOffset(a, b)
    PROVE  InLegBox(a, b)
<1> DEFINE x == b[1] - a[1]
           y == b[2] - a[2]
           u == obstacle[1] - a[1]
           v == obstacle[2] - a[2]
           len == x * x + y * y
           along == x * u + y * v
           cross == x * v - y * u
<1>0. x \in Int /\ y \in Int /\ u \in Int /\ v \in Int /\ Corridor \in Nat
  BY HazardAssumption
<1>1. /\ along <= 0 => u * u + v * v <= Corridor * Corridor
      /\ along > 0 /\ along >= len => (u - x) * (u - x) + (v - y) * (v - y) <= Corridor * Corridor
      /\ along > 0 /\ along < len => cross * cross <= Corridor * Corridor * len
  BY <1>0 DEF WithinOffset, Times, To
<1>2. len \in Int /\ along \in Int /\ cross \in Int
  BY <1>0
<1>3. /\ len * u = along * x + (-cross) * y
      /\ len * v = along * y + cross * x
  BY <1>0
<1>4. len = x * x + y * y
  OBVIOUS
<1>7. SUFFICES /\ u >= -Corridor \/ u >= x - Corridor
               /\ u <= Corridor \/ u <= x + Corridor
               /\ v >= -Corridor \/ v >= y - Corridor
               /\ v <= Corridor \/ v <= y + Corridor
  BY <1>0 DEF InLegBox, Lower, Upper
<1> HIDE DEF x, y, u, v, len, along, cross
<1>5. CASE along <= 0
  <2>1. u * u <= Corridor * Corridor /\ v * v <= Corridor * Corridor
    BY <1>0, <1>1, <1>5
  <2> QED
    BY <2>1, <1>0, SquareBounds
<1>6. CASE along > 0 /\ along >= len
  <2> DEFINE uu == u - x
             vv == v - y
  <2>0. uu \in Int /\ vv \in Int /\ uu * uu + vv * vv <= Corridor * Corridor
    BY <1>0, <1>1, <1>6
  <2> HIDE DEF uu, vv
  <2>1. uu * uu <= Corridor * Corridor /\ vv * vv <= Corridor * Corridor
    BY <2>0, <1>0
  <2>2. -Corridor <= uu /\ uu <= Corridor /\ -Corridor <= vv /\ vv <= Corridor
    BY <2>0, <2>1, <1>0, SquareBounds
  <2> QED
    BY <2>2, <1>0 DEF uu, vv
<1>8. CASE along > 0 /\ along < len
  <2> DEFINE offx == (-cross) * y
             offy == cross * x
  <2>0. offx \in Int /\ offy \in Int
    BY <1>0, <1>2
  <2>1. cross * cross <= Corridor * Corridor * len /\ x * x <= len /\ y * y <= len /\ len > 0
    BY <1>1, <1>8, <1>4, <1>0, <1>2
  <2>5. ASSUME NEW z \in Int, z * z <= len
        PROVE  (cross * z) * (cross * z) <= (Corridor * len) * (Corridor * len)
    <3> DEFINE m == Corridor * Corridor * len
               cc == cross * cross
               zz == z * z
    <3>1. m \in Nat /\ cc \in Nat /\ zz \in Nat /\ cc <= m /\ zz <= len
      BY <2>1, <1>0, <1>2, <2>5
    <3>3. (cross * z) * (cross * z) = cc * zz /\ (Corridor * len) * (Corridor * len) = m * len
      BY <1>0, <1>2
    <3> HIDE DEF m, cc, zz
    <3>2. cc * zz <= m * zz /\ m * zz <= m * len
      BY <3>1, <1>2
    <3> QED
      BY <3>2, <3>3, <3>1, <1>2
  <2>6. offx * offx = (cross * y) * (cross * y)
    BY <1>0, <1>2
  <2>2. offx * offx <= (Corridor * len) * (Corridor * len)
    BY <2>5, <2>6, <2>1, <1>0
  <2>3. offy * offy <= (Corridor * len) * (Corridor * len)
    BY <2>5, <2>1, <1>0
  <2>4. len * u = along * x + offx /\ len * v = along * y + offy
    BY <1>3
  <2> HIDE DEF offx, offy
  <2>7. /\ u >= -Corridor \/ u >= x - Corridor
        /\ u <= Corridor \/ u <= x + Corridor
    BY <2>0, <2>1, <2>2, <2>4, <1>0, <1>2, <1>8, BetweenEnds
  <2>8. /\ v >= -Corridor \/ v >= y - Corridor
        /\ v <= Corridor \/ v <= y + Corridor
    BY <2>0, <2>1, <2>3, <2>4, <1>0, <1>2, <1>8, BetweenEnds
  <2> QED
    BY <2>7, <2>8
<1> QED
  BY <1>5, <1>6, <1>8, <1>2

\* The types of the hazards.
HazardTypeOK == /\ path \in [1 .. 3 -> Grid \X Grid]
                /\ obstacle \in Obstacles
                /\ seg \in 1 .. 3
                /\ Len(path) = 3
                /\ geometry \in Geometries

\* They are kept.
LEMMA HazardTypes == HazardSpec => []HazardTypeOK
<1>1. HazardInit => HazardTypeOK
  <2>1. ASSUME NEW p \in [1 .. 3 -> Grid \X Grid] PROVE Len(p) = 3
    BY SeqDef, LenProperties
  <2> QED
    BY <2>1 DEF HazardInit, HazardTypeOK
<1>2. HazardTypeOK /\ [HazardNext]_hazardVars => HazardTypeOK'
  BY DEF HazardTypeOK, HazardNext, LookAtSegment, hazardVars
<1> QED
  BY <1>1, <1>2, PTL DEF HazardSpec

\* The boxes the database is asked for hold every obstacle in the corridor of a leg, whatever
\* the width of the corridor and the direction of the leg (legBoxes, routeOffset).
THEOREM ObstaclesAreAlwaysAsked == HazardSpec => []ObstaclesAreAsked
<1>1. HazardInit => ObstaclesAreAsked
  BY DEF HazardInit, ObstaclesAreAsked
<1>2. ASSUME HazardTypeOK, ObstaclesAreAsked, HazardNext
      PROVE  ObstaclesAreAsked'
  <2>0. seg \in 1 .. 2
    BY <1>2 DEF HazardTypeOK, HazardNext, LookAtSegment
  <2>3. Grid \X Grid \subseteq Int \X Int
    BY HazardAssumption
  <2>4. path[seg] \in Grid \X Grid /\ path[seg + 1] \in Grid \X Grid
    BY <1>2, <2>0 DEF HazardTypeOK
  <2>1. path[seg] \in Int \X Int /\ path[seg + 1] \in Int \X Int /\ obstacle \in Int \X Int
    BY <1>2, <2>3, <2>4, HazardAssumption DEF HazardTypeOK
  <2>2. WithinOffset(path[seg], path[seg + 1]) => InLegBox(path[seg], path[seg + 1])
    BY <2>1, NearIsBoxed
  <2> QED
    BY <1>2, <2>2 DEF ObstaclesAreAsked, HazardNext, LookAtSegment
<1>3. ObstaclesAreAsked /\ UNCHANGED hazardVars => ObstaclesAreAsked'
  BY DEF ObstaclesAreAsked, hazardVars
<1> QED
  BY <1>1, <1>2, <1>3, HazardTypes, PTL DEF HazardSpec

-----------------------------------------------------------------------------
(* RouteHazards: where a route enters an airspace *)

\* Two segments touch, told from the areas they span: F and F + E are those of the ends of
\* the one on the line of the other, G and G - E the other way round.
Touch(G, F, E) == \/ 0 < E /\ 0 <= G /\ G <= E /\ F <= 0 /\ 0 <= F + E
                  \/ E < 0 /\ G <= 0 /\ E <= G /\ 0 <= F /\ F + E <= 0

\* How the areas depend on each other.
Balanced(ay, by, cy, dy, G, F, E) == (by - ay) * G + (dy - cy) * F + (ay - cy) * E = 0

\* A ray from the ends of the first segment crosses the second as often, but for parity,
\* as rays from the ends of the second cross the first.
Agree(ay, by, cy, dy, G, F, E) ==
  ((cy <= ay /\ ay < dy /\ G > 0) <=> (cy <= by /\ by < dy /\ G - E > 0))
    <=> ((ay < cy /\ cy <= by /\ F < 0) <=> (ay < dy /\ dy <= by /\ F + E < 0))

\* Of two segments that rise and do not touch.
LEMMA SideRising ==
    ASSUME NEW ay \in Int, NEW by \in Int, NEW cy \in Int, NEW dy \in Int,
           NEW G \in Int, NEW F \in Int, NEW E \in Int, ay <= by, cy <= dy,
           Balanced(ay, by, cy, dy, G, F, E), ~Touch(G, F, E)
    PROVE  Agree(ay, by, cy, dy, G, F, E)
<1> USE DEF Agree
<1> DEFINE ry == by - ay   sy == dy - cy   wy == ay - cy
<1>0. ry \in Int /\ sy \in Int /\ wy \in Int /\ ry >= 0 /\ sy >= 0 /\ ry * G + sy * F + wy * E = 0
  BY DEF Balanced
<1>1. CASE dy <= ay \/ by < cy
  BY <1>1, <1>0
<1>2. CASE ay < cy /\ dy <= by
  <2>1. wy < 0 /\ wy + ry >= sy /\ ry > 0
    BY <1>2
  <2> HIDE DEF ry, sy, wy
  <2>2. ASSUME F < 0, F + E >= 0 PROVE FALSE
    <3>1. E > 0
      BY <2>2
    <3>2. ry * G = -wy * E - sy * F
      BY <1>0
    <3>3. -wy * E >= 0 /\ -sy * F >= 0
      BY <3>1, <2>1, <2>2, <1>0
    <3>4. G >= 0
      BY <3>2, <3>3, <1>0, <2>1
    <3>5. sy * (-F) <= sy * E
      BY <2>2, <1>0
    <3>6. (sy - wy) * E <= ry * E
      BY <3>1, <2>1, <1>0
    <3>7. ry * G <= ry * E
      BY <3>2, <3>5, <3>6, <1>0
    <3>8. G <= E
      BY <3>7, <1>0, <2>1
    <3> QED
      BY <3>1, <3>4, <3>8, <2>2 DEF Touch
  <2>3. ASSUME F >= 0, F + E < 0 PROVE FALSE
    <3>1. E < 0
      BY <2>3
    <3>2. ry * G = -wy * E - sy * F
      BY <1>0
    <3>3. -wy * E <= 0 /\ -sy * F <= 0
      BY <3>1, <2>1, <2>3, <1>0
    <3>4. G <= 0
      BY <3>2, <3>3, <1>0, <2>1
    <3>5. sy * (-F) >= sy * E
      BY <2>3, <1>0
    <3>6. (sy - wy) * E >= ry * E
      BY <3>1, <2>1, <1>0
    <3>7. ry * G >= ry * E
      BY <3>2, <3>5, <3>6, <1>0
    <3>8. E <= G
      BY <3>7, <1>0, <2>1
    <3> QED
      BY <3>1, <3>4, <3>8, <2>3 DEF Touch
  <2> QED
    BY <1>2, <2>2, <2>3 DEF ry, sy, wy
<1>3. CASE cy <= ay /\ ay < dy /\ dy <= by
  <2>1. wy >= 0 /\ sy - wy > 0 /\ ry >= sy - wy /\ sy > 0 /\ ry > 0
    BY <1>3
  <2> HIDE DEF ry, sy, wy
  <2> DEFINE D == F + E
  <2>2. D \in Int /\ F = D - E
    OBVIOUS
  <2>3. ry * G + sy * D = (sy - wy) * E
    BY <1>0, <2>2
  <2> HIDE DEF D
  <2>4. ASSUME G > 0, D >= 0 PROVE FALSE
    <3>1. ry * G > 0 /\ sy * D >= 0
      BY <2>4, <1>0, <2>2, <2>1
    <3>2. E > 0
      BY <3>1, <2>3, <2>1, <1>0, <2>2
    <3>3. sy * F = -(ry * G + wy * E)
      BY <1>0
    <3>4. wy * E >= 0
      BY <3>2, <2>1, <1>0
    <3>5. F <= 0
      BY <3>3, <3>4, <3>1, <2>1, <1>0
    <3>6. (sy - wy) * E <= ry * E
      BY <3>2, <2>1, <1>0
    <3>7. G <= E
      BY <3>1, <3>6, <2>3, <1>0, <2>2
    <3> QED
      BY <3>2, <3>5, <3>7, <2>4 DEF Touch, D
  <2>5. ASSUME G <= 0, D < 0 PROVE FALSE
    <3>1. ry * G <= 0 /\ sy * D < 0
      BY <2>5, <1>0, <2>1, <2>2
    <3>2. E < 0
      BY <3>1, <2>3, <2>1, <1>0, <2>2
    <3>3. sy * F = -(ry * G + wy * E)
      BY <1>0
    <3>4. wy * E <= 0
      BY <3>2, <2>1, <1>0
    <3>5. F >= 0
      BY <3>3, <3>4, <3>1, <2>1, <1>0
    <3>6. (sy - wy) * E >= ry * E
      BY <3>2, <2>1, <1>0
    <3>7. E <= G
      BY <3>1, <3>6, <2>3, <1>0, <2>2
    <3> QED
      BY <3>2, <3>5, <3>7, <2>5 DEF Touch, D
  <2> QED
    BY <1>3, <2>4, <2>5 DEF D
<1>4. CASE cy <= ay /\ by < dy
  <2>1. wy >= 0 /\ sy > wy + ry
    BY <1>4
  <2> HIDE DEF ry, sy, wy
  <2>2. ASSUME G > 0, G - E <= 0 PROVE FALSE
    <3>1. E > 0
      BY <2>2
    <3>2. sy * F = -(ry * G + wy * E)
      BY <1>0
    <3>3. ry * G >= 0 /\ wy * E >= 0
      BY <3>1, <2>1, <2>2, <1>0
    <3>4. F <= 0
      BY <3>2, <3>3, <2>1, <1>0
    <3>5. ry * G <= ry * E
      BY <2>2, <1>0
    <3>6. (ry + wy) * E <= sy * E
      BY <3>1, <2>1, <1>0
    <3>7. sy * (F + E) >= 0
      BY <3>2, <3>5, <3>6, <1>0
    <3>8. F + E >= 0
      BY <3>7, <2>1, <1>0
    <3> QED
      BY <3>1, <3>4, <3>8, <2>2 DEF Touch
  <2>3. ASSUME G <= 0, G - E > 0 PROVE FALSE
    <3>1. E < 0
      BY <2>3
    <3>2. sy * F = -(ry * G + wy * E)
      BY <1>0
    <3>3. ry * G <= 0 /\ wy * E <= 0
      BY <3>1, <2>1, <2>3, <1>0
    <3>4. F >= 0
      BY <3>2, <3>3, <2>1, <1>0
    <3>5. ry * G >= ry * E
      BY <2>3, <1>0
    <3>6. (ry + wy) * E >= sy * E
      BY <3>1, <2>1, <1>0
    <3>7. sy * (F + E) <= 0
      BY <3>2, <3>5, <3>6, <1>0
    <3>8. F + E <= 0
      BY <3>7, <2>1, <1>0
    <3> QED
      BY <3>1, <3>4, <3>8, <2>3 DEF Touch
  <2> QED
    BY <1>4, <2>2, <2>3
<1>5. CASE ay < cy /\ cy <= by /\ by < dy
  <2>1. wy < 0 /\ ry + wy >= 0 /\ sy > ry + wy /\ sy > 0 /\ ry > 0
    BY <1>5
  <2> HIDE DEF ry, sy, wy
  <2> DEFINE H == G - E
  <2>2. H \in Int /\ G = H + E
    OBVIOUS
  <2>3. ry * H + sy * F = -(ry + wy) * E
    BY <1>0, <2>2
  <2> HIDE DEF H
  <2>4. ASSUME H > 0, F >= 0 PROVE FALSE
    <3>1. ry * H > 0 /\ sy * F >= 0
      BY <2>4, <1>0, <2>2, <2>1
    <3>2. (ry + wy) * E < 0
      BY <3>1, <2>3, <1>0, <2>2
    <3>3. E < 0
      BY <3>2, <2>1, <1>0
    <3>4. ry * G = -wy * E - sy * F
      BY <1>0
    <3>5. -wy * E <= 0
      BY <3>3, <2>1, <1>0
    <3>6. G <= 0
      BY <3>4, <3>5, <3>1, <1>0, <2>1
    <3>7. (ry + wy) * E >= sy * E
      BY <3>3, <2>1, <1>0
    <3>8. sy * (F + E) <= 0
      BY <3>7, <3>1, <2>3, <1>0, <2>2
    <3>9. F + E <= 0
      BY <3>8, <2>1, <1>0
    <3> QED
      BY <3>3, <3>6, <3>9, <2>4, <2>2 DEF Touch
  <2>5. ASSUME H <= 0, F < 0 PROVE FALSE
    <3>1. ry * H <= 0 /\ sy * F < 0
      BY <2>5, <1>0, <2>1, <2>2
    <3>2. (ry + wy) * E > 0
      BY <3>1, <2>3, <1>0, <2>2
    <3>3. E > 0
      BY <3>2, <2>1, <1>0
    <3>4. ry * G = -wy * E - sy * F
      BY <1>0
    <3>5. -wy * E >= 0
      BY <3>3, <2>1, <1>0
    <3>6. G >= 0
      BY <3>4, <3>5, <3>1, <1>0
    <3>7. (ry + wy) * E <= sy * E
      BY <3>3, <2>1, <1>0
    <3>8. sy * (F + E) >= 0
      BY <3>7, <3>1, <2>3, <1>0, <2>2
    <3>9. F + E >= 0
      BY <3>8, <2>1, <1>0
    <3> QED
      BY <3>3, <3>6, <3>9, <2>5, <2>2 DEF Touch
  <2> QED
    BY <1>5, <2>4, <2>5 DEF H
<1> QED
  BY <1>1, <1>2, <1>3, <1>4, <1>5

\* A ray to the left of the place crosses the side a -> b.
Right(a, b, v) ==
  /\ (v[2] > a[2]) # (v[2] > b[2])
  /\ IF b[2] > a[2] THEN Times(To(a, b), To(a, v)) < 0 ELSE Times(To(a, b), To(a, v)) > 0

\* The segments a -> b and c -> d have a point in common, and are not parallel.
Touches(a, b, c, d) ==
  Touch(Times(To(c, d), To(c, a)), Times(To(a, b), To(a, c)), Times(To(a, b), To(c, d)))

\* The points of the map.
Plane == Int \X Int

\* A point has two coordinates.
LEMMA PlaneTyped ==
    ASSUME NEW p \in Plane
    PROVE  p[1] \in Int /\ p[2] \in Int /\ p = <<p[1], p[2]>>
  BY DEF Plane

\* The test of a side that rises, as an area.
LEMMA RayRising ==
    ASSUME NEW a \in Plane, NEW c \in Plane, NEW d \in Plane, c[2] <= d[2]
    PROVE  RayCrosses(a, c, d) <=> c[2] <= a[2] /\ a[2] < d[2] /\ Times(To(c, d), To(c, a)) > 0
<1>1. a[1] \in Int /\ a[2] \in Int /\ c[1] \in Int /\ c[2] \in Int /\ d[1] \in Int /\ d[2] \in Int
  BY PlaneTyped
<1> DEFINE left == (a[1] - c[1]) * (d[2] - c[2])
           right == (d[1] - c[1]) * (a[2] - c[2])
<1>2. left \in Int /\ right \in Int
  BY <1>1
<1>3. Times(To(c, d), To(c, a)) = right - left
  BY <1>1 DEF Times, To
<1>4. RayCrosses(a, c, d) <=> /\ (c[2] > a[2]) # (d[2] > a[2])
                              /\ IF d[2] > c[2] THEN left < right ELSE left > right
  BY DEF RayCrosses
<1> HIDE DEF left, right
<1> QED
  BY <1>1, <1>2, <1>3, <1>4

\* The test of a side is that of the side the other way round.
LEMMA RaySymmetric ==
    ASSUME NEW a \in Plane, NEW c \in Plane, NEW d \in Plane
    PROVE  RayCrosses(a, c, d) <=> RayCrosses(a, d, c)
<1>1. a[1] \in Int /\ a[2] \in Int /\ c[1] \in Int /\ c[2] \in Int /\ d[1] \in Int /\ d[2] \in Int
  BY PlaneTyped
<1> DEFINE left == (a[1] - c[1]) * (d[2] - c[2])
           right == (d[1] - c[1]) * (a[2] - c[2])
           left2 == (a[1] - d[1]) * (c[2] - d[2])
           right2 == (c[1] - d[1]) * (a[2] - d[2])
<1>2. left \in Int /\ right \in Int /\ left2 \in Int /\ right2 \in Int
  BY <1>1
<1>3. left2 - right2 = right - left
  BY <1>1
<1>4. RayCrosses(a, c, d) <=> /\ (c[2] > a[2]) # (d[2] > a[2])
                              /\ IF d[2] > c[2] THEN left < right ELSE left > right
  BY DEF RayCrosses
<1>5. RayCrosses(a, d, c) <=> /\ (d[2] > a[2]) # (c[2] > a[2])
                              /\ IF c[2] > d[2] THEN left2 < right2 ELSE left2 > right2
  BY DEF RayCrosses
<1> HIDE DEF left, right, left2, right2
<1> QED
  BY <1>1, <1>2, <1>3, <1>4, <1>5

\* So is that of the other ray.
LEMMA RightSymmetric ==
    ASSUME NEW a \in Plane, NEW b \in Plane, NEW v \in Plane
    PROVE  Right(a, b, v) <=> Right(b, a, v)
<1>1. a[1] \in Int /\ a[2] \in Int /\ b[1] \in Int /\ b[2] \in Int /\ v[1] \in Int /\ v[2] \in Int
  BY PlaneTyped
<1> DEFINE x == Times(To(a, b), To(a, v))
           y == Times(To(b, a), To(b, v))
<1>2. x \in Int /\ y = -x
  BY <1>1 DEF Times, To
<1>3. Right(a, b, v) <=> /\ (v[2] > a[2]) # (v[2] > b[2])
                         /\ IF b[2] > a[2] THEN x < 0 ELSE x > 0
  BY DEF Right
<1>4. Right(b, a, v) <=> /\ (v[2] > b[2]) # (v[2] > a[2])
                         /\ IF a[2] > b[2] THEN y < 0 ELSE y > 0
  BY DEF Right
<1> HIDE DEF x, y
<1> QED
  BY <1>1, <1>2, <1>3, <1>4

\* And touching.
LEMMA TouchSymmetric ==
    ASSUME NEW a \in Plane, NEW b \in Plane, NEW c \in Plane, NEW d \in Plane
    PROVE  /\ Touches(a, b, c, d) <=> Touches(a, b, d, c)
           /\ Touches(a, b, c, d) <=> Touches(b, a, c, d)
<1>1. a[1] \in Int /\ a[2] \in Int /\ b[1] \in Int /\ b[2] \in Int /\ c[1] \in Int /\ c[2] \in Int /\ d[1] \in Int /\ d[2] \in Int
  BY PlaneTyped
<1> DEFINE G == Times(To(c, d), To(c, a))
           F == Times(To(a, b), To(a, c))
           E == Times(To(a, b), To(c, d))
<1>2. G \in Int /\ F \in Int /\ E \in Int
  BY <1>1 DEF Times, To
<1>3. /\ Times(To(d, c), To(d, a)) = -G
      /\ Times(To(a, b), To(a, d)) = F + E
      /\ Times(To(a, b), To(d, c)) = -E
  <2>1. Times(To(d, c), To(d, a)) = -G
    BY <1>1 DEF Times, To
  <2>2. Times(To(a, b), To(a, d)) = F + E
    BY <1>1 DEF Times, To
  <2>3. Times(To(a, b), To(d, c)) = -E
    BY <1>1 DEF Times, To
  <2> QED
    BY <2>1, <2>2, <2>3
<1>4. /\ Times(To(c, d), To(c, b)) = G - E
      /\ Times(To(b, a), To(b, c)) = -F
      /\ Times(To(b, a), To(c, d)) = -E
  <2>1. Times(To(c, d), To(c, b)) = G - E
    BY <1>1 DEF Times, To
  <2>2. Times(To(b, a), To(b, c)) = -F
    BY <1>1 DEF Times, To
  <2>3. Times(To(b, a), To(c, d)) = -E
    BY <1>1 DEF Times, To
  <2> QED
    BY <2>1, <2>2, <2>3
<1>5. /\ Touches(a, b, c, d) <=> Touch(G, F, E)
      /\ Touches(a, b, d, c) <=> Touch(-G, F + E, -E)
      /\ Touches(b, a, c, d) <=> Touch(G - E, -F, -E)
  BY <1>3, <1>4 DEF Touches
<1> HIDE DEF G, F, E
<1>6. Touch(G, F, E) <=> Touch(-G, F + E, -E)
  BY <1>2 DEF Touch
<1>7. Touch(G, F, E) <=> Touch(G - E, -F, -E)
  BY <1>2 DEF Touch
<1> QED
  BY <1>5, <1>6, <1>7

\* Parity of a side, both segments rising.
LEMMA BothRising ==
    ASSUME NEW a \in Plane, NEW b \in Plane, NEW c \in Plane, NEW d \in Plane, a[2] <= b[2], c[2] <= d[2],
           ~Touches(a, b, c, d)
    PROVE  (RayCrosses(a, c, d) <=> RayCrosses(b, c, d)) <=> (Right(a, b, c) <=> Right(a, b, d))
<1>1. a[1] \in Int /\ a[2] \in Int /\ b[1] \in Int /\ b[2] \in Int /\ c[1] \in Int /\ c[2] \in Int /\ d[1] \in Int /\ d[2] \in Int
  BY PlaneTyped
<1> DEFINE G == Times(To(c, d), To(c, a))
           F == Times(To(a, b), To(a, c))
           E == Times(To(a, b), To(c, d))
<1>2. G \in Int /\ F \in Int /\ E \in Int
  BY <1>1 DEF Times, To
<1>3. Times(To(c, d), To(c, b)) = G - E /\ Times(To(a, b), To(a, d)) = F + E
  BY <1>1 DEF Times, To
<1>4. (b[2] - a[2]) * G + (d[2] - c[2]) * F + (a[2] - c[2]) * E = 0
  BY <1>1 DEF Times, To
<1>5. ~Touch(G, F, E)
  BY DEF Touches
<1>6. /\ RayCrosses(a, c, d) <=> c[2] <= a[2] /\ a[2] < d[2] /\ G > 0
      /\ RayCrosses(b, c, d) <=> c[2] <= b[2] /\ b[2] < d[2] /\ G - E > 0
  BY <1>3, RayRising
<1>7. /\ Right(a, b, c) <=> /\ (c[2] > a[2]) # (c[2] > b[2])
                            /\ IF b[2] > a[2] THEN F < 0 ELSE F > 0
      /\ Right(a, b, d) <=> /\ (d[2] > a[2]) # (d[2] > b[2])
                            /\ IF b[2] > a[2] THEN F + E < 0 ELSE F + E > 0
  BY <1>3 DEF Right
<1> HIDE DEF G, F, E
<1>8. /\ Right(a, b, c) <=> a[2] < c[2] /\ c[2] <= b[2] /\ F < 0
      /\ Right(a, b, d) <=> a[2] < d[2] /\ d[2] <= b[2] /\ F + E < 0
  BY <1>7, <1>1, <1>2
<1>9. Agree(a[2], b[2], c[2], d[2], G, F, E)
  <2>1. Balanced(a[2], b[2], c[2], d[2], G, F, E)
    BY <1>4 DEF Balanced
  <2> QED
    BY <2>1, <1>1, <1>2, <1>5, SideRising
<1> QED
  BY <1>6, <1>8, <1>9 DEF Agree

\* Parity of a side: the rays of a and b differ on the side c -> d if, and only if, c and d
\* differ on being to the right of a -> b, unless the two touch.
LEMMA SideParity ==
    ASSUME NEW a \in Plane, NEW b \in Plane, NEW c \in Plane, NEW d \in Plane, ~Touches(a, b, c, d)
    PROVE  (RayCrosses(a, c, d) <=> RayCrosses(b, c, d)) <=> (Right(a, b, c) <=> Right(a, b, d))
<1>1. /\ RayCrosses(a, c, d) <=> RayCrosses(a, d, c)
      /\ RayCrosses(b, c, d) <=> RayCrosses(b, d, c)
      /\ Right(a, b, c) <=> Right(b, a, c)
      /\ Right(a, b, d) <=> Right(b, a, d)
  BY RaySymmetric, RightSymmetric
<1>2. ~Touches(a, b, d, c) /\ ~Touches(b, a, c, d) /\ ~Touches(b, a, d, c)
  BY TouchSymmetric
<1>3. (a[2] <= b[2] \/ b[2] <= a[2]) /\ (c[2] <= d[2] \/ d[2] <= c[2])
  BY PlaneTyped
<1>4. CASE a[2] <= b[2] /\ c[2] <= d[2]
  BY <1>4, BothRising
<1>5. CASE a[2] <= b[2] /\ d[2] <= c[2]
  <2>1. (RayCrosses(a, d, c) <=> RayCrosses(b, d, c)) <=> (Right(a, b, d) <=> Right(a, b, c))
    BY <1>5, <1>2, BothRising
  <2> QED
    BY <2>1, <1>1
<1>6. CASE b[2] <= a[2] /\ c[2] <= d[2]
  <2>1. (RayCrosses(b, c, d) <=> RayCrosses(a, c, d)) <=> (Right(b, a, c) <=> Right(b, a, d))
    BY <1>6, <1>2, BothRising
  <2> QED
    BY <2>1, <1>1
<1>7. CASE b[2] <= a[2] /\ d[2] <= c[2]
  <2>1. (RayCrosses(b, d, c) <=> RayCrosses(a, d, c)) <=> (Right(b, a, d) <=> Right(b, a, c))
    BY <1>7, <1>2, BothRising
  <2> QED
    BY <2>1, <1>1
<1> QED
  BY <1>3, <1>4, <1>5, <1>6, <1>7

\* Where the values of a sequence change, up to a position.
Changes(b, k) == {i \in 2 .. k : ~(b[i - 1] <=> b[i])}

\* They are even in number exactly if the last value is the first.
LEMMA EvenChanges ==
    ASSUME NEW n \in Nat \ {0}, NEW b \in [1 .. n -> BOOLEAN]
    PROVE  Cardinality(Changes(b, n)) % 2 = 0 <=> (b[1] <=> b[n])
<1> DEFINE Even(k) == Cardinality(Changes(b, k)) % 2 = 0 <=> (b[1] <=> b[k])
           Wrong == {k \in 1 .. n : ~Even(k)}
<1>1. SUFFICES ASSUME Wrong # {} PROVE FALSE
  OBVIOUS
<1> DEFINE k == Min(Wrong)
<1>2. k \in Wrong /\ \A j \in Wrong : k <= j
  <2>1. Wrong \in SUBSET Nat
    OBVIOUS
  <2> HIDE DEF Wrong
  <2> QED
    BY <1>1, <2>1, LeastOfSome
<1>3. k \in 1 .. n /\ ~Even(k)
  BY <1>2
<1> HIDE DEF k
<1>4. CASE k = 1
  <2>1. Changes(b, 1) = {}
    BY DEF Changes
  <2> QED
    BY <1>3, <1>4, <2>1, FS_EmptySet
<1>5. CASE k # 1
  <2>1. k - 1 \in 1 .. n /\ k - 1 \notin Wrong
    BY <1>2, <1>3, <1>5
  <2>2. Even(k - 1)
    BY <2>1
  <2>3. IsFiniteSet(Changes(b, k - 1)) /\ Cardinality(Changes(b, k - 1)) \in Nat
    <3>1. IsFiniteSet(2 .. k - 1)
      BY <1>3, FS_Interval
    <3>2. Changes(b, k - 1) \in SUBSET (2 .. k - 1)
      BY DEF Changes
    <3> QED
      BY <3>1, <3>2, FS_Subset, FS_CardinalityType
  <2>4. b[k - 1] \in BOOLEAN /\ b[k] \in BOOLEAN /\ b[1] \in BOOLEAN
    BY <2>1, <1>3
  <2>5. CASE b[k - 1] <=> b[k]
    <3>1. Changes(b, k) = Changes(b, k - 1)
      BY <2>5, <1>3 DEF Changes
    <3> QED
      BY <3>1, <2>2, <2>5, <1>3
  <2>6. CASE ~(b[k - 1] <=> b[k])
    <3>1. Changes(b, k) = Changes(b, k - 1) \cup {k} /\ k \notin Changes(b, k - 1)
      BY <2>6, <1>3, <1>5 DEF Changes
    <3>2. Cardinality(Changes(b, k)) = Cardinality(Changes(b, k - 1)) + 1
      BY <3>1, <2>3, FS_AddElement
    <3>3. Cardinality(Changes(b, k)) % 2 = 0 <=> ~(Cardinality(Changes(b, k - 1)) % 2 = 0)
      BY <3>2, <2>3
    <3>4. (b[1] <=> b[k]) <=> ~(b[1] <=> b[k - 1])
      BY <2>6, <2>4
    <3> QED
      BY <3>3, <3>4, <2>2, <1>3
  <2> QED
    BY <2>5, <2>6
<1> QED
  BY <1>4, <1>5

\* Around a ring they change an even number of times.
LEMMA EvenRound ==
    ASSUME NEW n \in Nat, NEW b \in [1 .. n -> BOOLEAN]
    PROVE  LET round == {i \in 1 .. n : ~(b[IF i = 1 THEN n ELSE i - 1] <=> b[i])}
           IN IsFiniteSet(round) /\ Cardinality(round) % 2 = 0
<1> DEFINE round == {i \in 1 .. n : ~(b[IF i = 1 THEN n ELSE i - 1] <=> b[i])}
<1>3. SUFFICES IsFiniteSet(round) /\ Cardinality(round) % 2 = 0
  OBVIOUS
<1>1. CASE n = 0
  <2>1. round = {}
    BY <1>1
  <2> HIDE DEF round
  <2>2. Cardinality(round) = 0 /\ IsFiniteSet(round)
    BY <2>1, FS_EmptySet
  <2> QED
    BY <2>2
<1>2. CASE n # 0
  <2>1. IsFiniteSet(Changes(b, n)) /\ Cardinality(Changes(b, n)) \in Nat
    <3>1. IsFiniteSet(2 .. n)
      BY FS_Interval
    <3>2. Changes(b, n) \in SUBSET (2 .. n)
      BY DEF Changes
    <3> QED
      BY <3>1, <3>2, FS_Subset, FS_CardinalityType
  <2>2. Cardinality(Changes(b, n)) % 2 = 0 <=> (b[1] <=> b[n])
    BY <1>2, EvenChanges
  <2>3. CASE b[1] <=> b[n]
    <3>1. round = Changes(b, n)
      BY <2>3, <1>2 DEF Changes
    <3> QED
      BY <3>1, <2>1, <2>2, <2>3
  <2>4. CASE ~(b[1] <=> b[n])
    <3>1. round = Changes(b, n) \cup {1} /\ 1 \notin Changes(b, n)
      BY <2>4, <1>2 DEF Changes
    <3>2. IsFiniteSet(round) /\ Cardinality(round) = Cardinality(Changes(b, n)) + 1
      BY <3>1, <2>1, FS_AddElement
    <3> HIDE DEF round
    <3>3. Cardinality(round) % 2 = 0
      BY <3>2, <2>1, <2>2, <2>4
    <3> QED
      BY <3>2, <3>3
  <2> QED
    BY <2>3, <2>4
<1> QED
  BY <1>1, <1>2

\* Two sets that differ in an even number of members are both even or both odd.
LEMMA SameParity ==
    ASSUME NEW U, NEW V, IsFiniteSet(U), IsFiniteSet(V), Cardinality((U \ V) \cup (V \ U)) % 2 = 0
    PROVE  Cardinality(U) % 2 = Cardinality(V) % 2
<1> DEFINE u == Cardinality(U \ V)
           v == Cardinality(V \ U)
           w == Cardinality(U \cap V)
<1>1. /\ IsFiniteSet(U \ V) /\ IsFiniteSet(V \ U) /\ IsFiniteSet(U \cap V)
      /\ u \in Nat /\ v \in Nat /\ w \in Nat
  <2>1. (U \ V) \in SUBSET U /\ (V \ U) \in SUBSET V /\ (U \cap V) \in SUBSET U
    OBVIOUS
  <2> QED
    BY <2>1, FS_Subset, FS_CardinalityType
<1>2. ASSUME NEW X, NEW Y, IsFiniteSet(X), IsFiniteSet(Y), X \cap Y = {}
      PROVE  Cardinality(X \cup Y) = Cardinality(X) + Cardinality(Y)
  <2>1. Cardinality(X \cup Y) = Cardinality(X) + Cardinality(Y) - Cardinality(X \cap Y)
    BY <1>2, FS_Union
  <2>2. Cardinality(X) \in Nat /\ Cardinality(Y) \in Nat /\ Cardinality({}) = 0
    BY <1>2, FS_CardinalityType, FS_EmptySet
  <2>3. Cardinality(X \cap Y) = 0
    BY <1>2, <2>2
  <2> QED
    BY <2>1, <2>2, <2>3
<1>3. Cardinality(U) = u + w
  <2>1. U = (U \ V) \cup (U \cap V) /\ (U \ V) \cap (U \cap V) = {}
    OBVIOUS
  <2> QED
    BY <2>1, <1>1, <1>2
<1>4. Cardinality(V) = v + w
  <2>1. V = (V \ U) \cup (U \cap V) /\ (V \ U) \cap (U \cap V) = {}
    OBVIOUS
  <2> QED
    BY <2>1, <1>1, <1>2
<1>5. Cardinality((U \ V) \cup (V \ U)) = u + v
  <2>1. (U \ V) \cap (V \ U) = {}
    OBVIOUS
  <2> QED
    BY <2>1, <1>1, <1>2
<1>6. (u + v) % 2 = 0
  BY <1>5
<1> HIDE DEF u, v, w
<1> QED
  BY <1>1, <1>3, <1>4, <1>6

\* Parity of a ring: around it the corners change an even number of times from one side of
\* a -> b to the other, so both ends are inside or both outside, if no side touches the way.
LEMMA RingParity ==
    ASSUME NEW a \in Plane, NEW b \in Plane, NEW ring \in Seq(Plane),
           \A i \in DOMAIN ring : ~Touches(a, b, Preceding(ring, i), ring[i])
    PROVE  InRing(a, ring) <=> InRing(b, ring)
<1> DEFINE n == Len(ring)
           h == [i \in 1 .. n |-> Right(a, b, ring[i])]
           U == {i \in DOMAIN ring : RayCrosses(a, Preceding(ring, i), ring[i])}
           V == {i \in DOMAIN ring : RayCrosses(b, Preceding(ring, i), ring[i])}
           round == {i \in 1 .. n : ~(h[IF i = 1 THEN n ELSE i - 1] <=> h[i])}
<1>1. n \in Nat /\ DOMAIN ring = 1 .. n /\ \A i \in 1 .. n : ring[i] \in Plane
  BY LenProperties
<1>2. h \in [1 .. n -> BOOLEAN]
  BY DEF Right
<1>3. Cardinality(round) % 2 = 0
  <2> HIDE DEF h, n
  <2> QED
    BY <1>1, <1>2, EvenRound
<1>4. ASSUME NEW i \in 1 .. n
      PROVE  i \in (U \ V) \cup (V \ U) <=> i \in round
  <2> DEFINE j == IF i = 1 THEN n ELSE i - 1
  <2>1. j \in 1 .. n /\ ring[j] \in Plane /\ ring[i] \in Plane /\ Preceding(ring, i) = ring[j]
    BY <1>1 DEF Preceding
  <2>2. ~Touches(a, b, ring[j], ring[i])
    BY <1>1, <2>1
  <2>3. (RayCrosses(a, ring[j], ring[i]) <=> RayCrosses(b, ring[j], ring[i])) <=> (Right(a, b, ring[j]) <=> Right(a, b, ring[i]))
    BY <2>1, <2>2, SideParity
  <2>4. h[j] = Right(a, b, ring[j]) /\ h[i] = Right(a, b, ring[i])
    BY <2>1
  <2>5. i \in round <=> ~(h[j] <=> h[i])
    OBVIOUS
  <2>6. i \in (U \ V) \cup (V \ U) <=> ~(RayCrosses(a, ring[j], ring[i]) <=> RayCrosses(b, ring[j], ring[i]))
    BY <2>1, <1>1
  <2> QED
    BY <2>3, <2>4, <2>5, <2>6
<1>5. (U \ V) \cup (V \ U) = round
  BY <1>1, <1>4
<1>6. IsFiniteSet(U) /\ IsFiniteSet(V) /\ Cardinality(U) \in Nat /\ Cardinality(V) \in Nat
  <2>1. IsFiniteSet(1 .. n)
    BY <1>1, FS_Interval
  <2>2. U \in SUBSET (1 .. n) /\ V \in SUBSET (1 .. n)
    BY <1>1
  <2> QED
    BY <2>1, <2>2, FS_Subset, FS_CardinalityType
<1>7. Cardinality(U) % 2 = Cardinality(V) % 2
  <2> HIDE DEF U, V, round
  <2> QED
    BY <1>3, <1>5, <1>6, SameParity
<1> QED
  BY <1>7 DEF InRing

\* A map drawn larger is a map.
LEMMA EnlargedTyped ==
    ASSUME NEW p \in Plane, NEW n \in Nat
    PROVE  Enlarged(p, n) \in Plane /\ Enlarged(p, n)[1] = n * p[1] /\ Enlarged(p, n)[2] = n * p[2]
  BY PlaneTyped DEF Enlarged, Plane

\* A ray crosses the same sides on it.
LEMMA RayEnlarged ==
    ASSUME NEW a \in Plane, NEW c \in Plane, NEW d \in Plane, NEW n \in Nat \ {0}
    PROVE  RayCrosses(Enlarged(a, n), Enlarged(c, n), Enlarged(d, n)) <=> RayCrosses(a, c, d)
<1>1. a[1] \in Int /\ a[2] \in Int /\ c[1] \in Int /\ c[2] \in Int /\ d[1] \in Int /\ d[2] \in Int
  BY PlaneTyped
<1> DEFINE left == (a[1] - c[1]) * (d[2] - c[2])
           right == (d[1] - c[1]) * (a[2] - c[2])
<1>2. left \in Int /\ right \in Int
  BY <1>1
<1>3. /\ (n * a[1] - n * c[1]) * (n * d[2] - n * c[2]) = (n * n) * left
      /\ (n * d[1] - n * c[1]) * (n * a[2] - n * c[2]) = (n * n) * right
  BY <1>1
<1>4. \A x, y \in Int : n * x > n * y <=> x > y
  OBVIOUS
<1>5. n * n \in Nat \ {0}
  OBVIOUS
<1>6. /\ (n * n) * left < (n * n) * right <=> left < right
      /\ (n * n) * left > (n * n) * right <=> left > right
  <2> DEFINE m == n * n
  <2>1. m \in Nat \ {0}
    BY <1>5
  <2> HIDE DEF m, left, right
  <2>2. m * left < m * right <=> left < right
    BY <1>2, <2>1
  <2>3. m * left > m * right <=> left > right
    BY <1>2, <2>1
  <2> QED
    BY <2>2, <2>3 DEF m
<1>7. RayCrosses(a, c, d) <=> /\ ~(c[2] > a[2] <=> d[2] > a[2])
                              /\ IF d[2] > c[2] THEN left < right ELSE left > right
  BY DEF RayCrosses
<1> DEFINE left2 == (n * a[1] - n * c[1]) * (n * d[2] - n * c[2])
           right2 == (n * d[1] - n * c[1]) * (n * a[2] - n * c[2])
<1>8. RayCrosses(Enlarged(a, n), Enlarged(c, n), Enlarged(d, n)) <=>
        /\ ~(n * c[2] > n * a[2] <=> n * d[2] > n * a[2])
        /\ IF n * d[2] > n * c[2] THEN left2 < right2 ELSE left2 > right2
  BY DEF RayCrosses, Enlarged
<1>9. (left2 < right2 <=> left < right) /\ (left2 > right2 <=> left > right)
  BY <1>3, <1>6
<1>10. /\ n * c[2] > n * a[2] <=> c[2] > a[2]
       /\ n * d[2] > n * a[2] <=> d[2] > a[2]
       /\ n * d[2] > n * c[2] <=> d[2] > c[2]
  BY <1>1, <1>4
<1> HIDE DEF left, right, left2, right2
<1> QED
  BY <1>7, <1>8, <1>9, <1>10

\* The ring of a map drawn larger, corner by corner.
LEMMA EnlargedRingTyped ==
    ASSUME NEW ring \in Seq(Plane), NEW n \in Nat
    PROVE  /\ EnlargedRing(ring, n) \in Seq(Plane)
           /\ DOMAIN EnlargedRing(ring, n) = DOMAIN ring /\ DOMAIN ring = 1 .. Len(ring) /\ Len(ring) \in Nat
           /\ Len(EnlargedRing(ring, n)) = Len(ring)
           /\ \A i \in DOMAIN ring : /\ ring[i] \in Plane /\ Preceding(ring, i) \in Plane
                                     /\ EnlargedRing(ring, n)[i] = Enlarged(ring[i], n)
                                     /\ Preceding(EnlargedRing(ring, n), i) = Enlarged(Preceding(ring, i), n)
<1>1. Len(ring) \in Nat /\ DOMAIN ring = 1 .. Len(ring) /\ \A i \in 1 .. Len(ring) : ring[i] \in Plane
  BY LenProperties
<1>2. EnlargedRing(ring, n) \in [1 .. Len(ring) -> Plane]
  BY <1>1, EnlargedTyped DEF EnlargedRing
<1>3. EnlargedRing(ring, n) \in Seq(Plane)
  BY <1>1, <1>2, SeqDef
<1>4. DOMAIN EnlargedRing(ring, n) = 1 .. Len(ring)
  BY <1>2
<1>5. Len(EnlargedRing(ring, n)) \in Nat /\ DOMAIN EnlargedRing(ring, n) = 1 .. Len(EnlargedRing(ring, n))
  BY <1>3, LenProperties
<1>6. Len(EnlargedRing(ring, n)) = Len(ring)
  BY <1>1, <1>4, <1>5
<1>7. ASSUME NEW i \in DOMAIN ring
      PROVE  /\ ring[i] \in Plane /\ Preceding(ring, i) \in Plane
             /\ EnlargedRing(ring, n)[i] = Enlarged(ring[i], n)
             /\ Preceding(EnlargedRing(ring, n), i) = Enlarged(Preceding(ring, i), n)
  <2>1. \A j \in 1 .. Len(ring) : EnlargedRing(ring, n)[j] = Enlarged(ring[j], n)
    BY <1>1 DEF EnlargedRing
  <2> DEFINE j == IF i = 1 THEN Len(ring) ELSE i - 1
  <2>2. j \in 1 .. Len(ring) /\ i \in 1 .. Len(ring)
    BY <1>1
  <2>3. Preceding(ring, i) = ring[j] /\ Preceding(EnlargedRing(ring, n), i) = EnlargedRing(ring, n)[j]
    BY <1>6 DEF Preceding
  <2> HIDE DEF j
  <2> QED
    BY <1>1, <2>1, <2>2, <2>3
<1> QED
  BY <1>1, <1>3, <1>4, <1>6, <1>7

\* A place is inside the same rings on it.
LEMMA RingEnlarged ==
    ASSUME NEW a \in Plane, NEW ring \in Seq(Plane), NEW n \in Nat \ {0}
    PROVE  InRing(Enlarged(a, n), EnlargedRing(ring, n)) <=> InRing(a, ring)
<1> DEFINE big == EnlargedRing(ring, n)
<1>1. DOMAIN big = DOMAIN ring
  BY EnlargedRingTyped
<1>2. ASSUME NEW i \in DOMAIN ring
      PROVE  RayCrosses(Enlarged(a, n), Preceding(big, i), big[i]) <=> RayCrosses(a, Preceding(ring, i), ring[i])
  <2>1. /\ ring[i] \in Plane /\ Preceding(ring, i) \in Plane
        /\ big[i] = Enlarged(ring[i], n) /\ Preceding(big, i) = Enlarged(Preceding(ring, i), n)
    BY EnlargedRingTyped
  <2> QED
    BY <2>1, RayEnlarged
<1> HIDE DEF big
<1>3. {i \in DOMAIN big : RayCrosses(Enlarged(a, n), Preceding(big, i), big[i])}
        = {i \in DOMAIN ring : RayCrosses(a, Preceding(ring, i), ring[i])}
  BY <1>1, <1>2
<1> QED
  BY <1>3 DEF InRing, big

\* Fractions, and squares of distances.
Fraction == Int \X (Nat \ {0})

\* What is touched up to the fraction k/n of a segment is crossed there.
LEMMA TouchedIsCrossed ==
    ASSUME NEW a \in Plane, NEW b \in Plane, NEW c \in Plane, NEW d \in Plane,
           NEW n \in Nat \ {0}, NEW k \in 0 .. n,
           Touches(Enlarged(a, n), Between(a, b, <<k, n>>), Enlarged(c, n), Enlarged(d, n))
    PROVE  \E t \in Crossing(a, b, c, d) : ~Before(<<k, n>>, t)
<1>1. a[1] \in Int /\ a[2] \in Int /\ b[1] \in Int /\ b[2] \in Int /\ c[1] \in Int /\ c[2] \in Int /\ d[1] \in Int /\ d[2] \in Int
  BY PlaneTyped
<1> DEFINE p == Between(a, b, <<k, n>>)
           A == Enlarged(a, n)
           C == Enlarged(c, n)
           D == Enlarged(d, n)
           G == Times(To(c, d), To(c, a))
           F == Times(To(a, b), To(a, c))
           E == Times(To(a, b), To(c, d))
<1>2. G \in Int /\ F \in Int /\ E \in Int
  BY <1>1 DEF Times, To
<1>3. To(A, p) = <<k * (b[1] - a[1]), k * (b[2] - a[2])>>
  <2>1. (n - k) * a[1] + k * b[1] - n * a[1] = k * (b[1] - a[1]) /\ (n - k) * a[2] + k * b[2] - n * a[2] = k * (b[2] - a[2])
    BY <1>1
  <2>2. p = <<(n - k) * a[1] + k * b[1], (n - k) * a[2] + k * b[2]>> /\ A = <<n * a[1], n * a[2]>>
    BY DEF Between, Enlarged
  <2>3. /\ p[1] = (n - k) * a[1] + k * b[1] /\ p[2] = (n - k) * a[2] + k * b[2]
        /\ A[1] = n * a[1] /\ A[2] = n * a[2]
    BY <2>2
  <2> HIDE DEF p, A
  <2>4. To(A, p) = <<p[1] - A[1], p[2] - A[2]>>
    BY DEF To
  <2>5. p[1] - A[1] = k * (b[1] - a[1]) /\ p[2] - A[2] = k * (b[2] - a[2])
    BY <2>3, <1>1
  <2> QED
    BY <2>4, <2>5
<1>4. /\ To(C, D) = <<n * (d[1] - c[1]), n * (d[2] - c[2])>>
      /\ To(C, A) = <<n * (a[1] - c[1]), n * (a[2] - c[2])>>
      /\ To(A, C) = <<n * (c[1] - a[1]), n * (c[2] - a[2])>>
  <2>1. \A x, y \in Int : n * x - n * y = n * (x - y)
    OBVIOUS
  <2> QED
    BY <2>1, <1>1 DEF To, Enlarged
<1>5. Times(To(C, D), To(C, A)) = n * (n * G)
  BY <1>4, <1>1 DEF Times, To
<1>6. Times(To(A, p), To(A, C)) = n * (k * F)
  BY <1>3, <1>4, <1>1 DEF Times, To
<1>7. Times(To(A, p), To(C, D)) = n * (k * E)
  BY <1>3, <1>4, <1>1 DEF Times, To
<1>8. Touch(n * (n * G), n * (k * F), n * (k * E))
  BY <1>5, <1>6, <1>7 DEF Touches
<1>9. Times(To(a, c), To(c, d)) = G /\ Times(To(a, c), To(a, b)) = -F
  <2>1. Times(To(a, c), To(c, d)) = G
    BY <1>1 DEF Times, To
  <2>2. Times(To(a, c), To(a, b)) = -F
    BY <1>1 DEF Times, To
  <2> QED
    BY <2>1, <2>2
<1> DEFINE sign == IF E > 0 THEN 1 ELSE -1
<1>10. Crossing(a, b, c, d) = IF E # 0 /\ G * sign \in 0 .. sign * E /\ (-F) * sign \in 0 .. sign * E
                              THEN {<<G * sign, sign * E>>} ELSE {}
  BY <1>9 DEF Crossing
<1> HIDE DEF G, F, E, p, A, C, D
<1>11. \A x, y \in Int : n * x <= n * y <=> x <= y
  OBVIOUS
<1>12. Touch(n * G, k * F, k * E)
  <2> DEFINE kF == k * F
             kE == k * E
             nG == n * G
  <2>1. kF \in Int /\ kE \in Int /\ nG \in Int
    BY <1>2
  <2>2. Touch(n * nG, n * kF, n * kE)
    BY <1>8
  <2> HIDE DEF kF, kE, nG
  <2>3. Touch(nG, kF, kE)
    BY <2>1, <2>2 DEF Touch
  <2> QED
    BY <2>3 DEF kF, kE, nG
<1>13. CASE 0 < k * E
  <2>1. k > 0 /\ E > 0
    BY <1>13, <1>2
  <2>2. 0 <= n * G /\ n * G <= k * E /\ k * F <= 0 /\ 0 <= k * F + k * E
    BY <1>12, <1>13, <1>2 DEF Touch
  <2>3. 0 <= G /\ F <= 0
    BY <2>1, <2>2, <1>2
  <2>4. k * (F + E) >= 0
    BY <2>2, <1>2
  <2>5. F + E >= 0
    BY <2>4, <2>1, <1>2
  <2>6. k * E <= n * E
    BY <2>1, <1>2
  <2>7. n * G <= n * E
    BY <2>2, <2>6, <1>2
  <2>8. G <= E
    BY <2>7, <1>2
  <2>9. <<G, E>> \in Crossing(a, b, c, d)
    BY <1>10, <2>1, <2>3, <2>5, <2>8, <1>2
  <2>10. ~Before(<<k, n>>, <<G, E>>)
    BY <2>2, <1>2 DEF Before
  <2> QED
    BY <2>9, <2>10
<1>14. CASE k * E < 0
  <2>1. k > 0 /\ E < 0
    BY <1>14, <1>2
  <2>2. n * G <= 0 /\ k * E <= n * G /\ k * F >= 0 /\ 0 >= k * F + k * E
    BY <1>12, <1>14, <1>2 DEF Touch
  <2>3. 0 >= G /\ F >= 0
    BY <2>1, <2>2, <1>2
  <2>4. k * (F + E) <= 0
    BY <2>2, <1>2
  <2>5. F + E <= 0
    BY <2>4, <2>1, <1>2
  <2>6. k * E >= n * E
    BY <2>1, <1>2
  <2>7. n * G >= n * E
    BY <2>2, <2>6, <1>2
  <2>8. G >= E
    BY <2>7, <1>2
  <2>9. <<-G, -E>> \in Crossing(a, b, c, d)
    <3>1. G * (-1) = -G /\ (-1) * E = -E /\ (-F) * (-1) = F
      BY <1>2
    <3> QED
      BY <1>10, <2>1, <2>3, <2>5, <2>8, <1>2, <3>1
  <2>10. ~Before(<<k, n>>, <<-G, -E>>)
    <3>1. k * (-E) >= (-G) * n
      BY <2>2, <1>2
    <3> QED
      BY <3>1, <1>2 DEF Before
  <2> QED
    BY <2>9, <2>10
<1> QED
  BY <1>12, <1>13, <1>14 DEF Touch

\* A point of a segment is a point of the map drawn larger.
LEMMA BetweenTyped ==
    ASSUME NEW a \in Plane, NEW b \in Plane, NEW n \in Nat, NEW k \in 0 .. n
    PROVE  Between(a, b, <<k, n>>) \in Plane
<1>1. a[1] \in Int /\ a[2] \in Int /\ b[1] \in Int /\ b[2] \in Int
  BY PlaneTyped
<1>2. Between(a, b, <<k, n>>) = <<(n - k) * a[1] + k * b[1], (n - k) * a[2] + k * b[2]>>
  BY DEF Between
<1>3. (n - k) * a[1] + k * b[1] \in Int /\ (n - k) * a[2] + k * b[2] \in Int
  BY <1>1
<1> QED
  BY <1>2, <1>3 DEF Plane

\* The polygon of a map drawn larger has as many rings.
LEMMA BigAsLong ==
    ASSUME NEW rings \in Seq(Seq(Plane)), NEW n \in Nat
    PROVE  Len([h \in DOMAIN rings |-> EnlargedRing(rings[h], n)]) = Len(rings)
<1> DEFINE big == [h \in DOMAIN rings |-> EnlargedRing(rings[h], n)]
<1>2. DOMAIN rings = 1 .. Len(rings) /\ Len(rings) \in Nat /\ \A h \in DOMAIN rings : rings[h] \in Seq(Plane)
  BY LenProperties
<1>1. \A h \in 1 .. Len(rings) : EnlargedRing(rings[h], n) \in Seq(Plane)
  BY <1>2, EnlargedRingTyped
<1>20. big \in [1 .. Len(rings) -> Seq(Plane)]
  BY <1>2, <1>1
<1>3. big \in Seq(Seq(Plane))
  BY <1>20, <1>2, SeqDef
<1>4. DOMAIN big = 1 .. Len(big) /\ Len(big) \in Nat
  BY <1>3, LenProperties
<1>5. DOMAIN big = 1 .. Len(rings)
  BY <1>2
<1>6. Len(big) \in Nat /\ Len(rings) \in Nat /\ 1 .. Len(big) = 1 .. Len(rings)
  BY <1>4, <1>5, <1>2
<1> DEFINE x == Len(big)
           y == Len(rings)
<1> HIDE DEF x, y
<1>7. x \in Nat /\ y \in Nat /\ 1 .. x = 1 .. y
  BY <1>6 DEF x, y
<1>8. x = y
  BY <1>7
<1> QED
  BY <1>8 DEF x, y

\* A place inside a polygon the segment does not begin in: a side is crossed before.
LEMMA PolygonEntered ==
    ASSUME NEW a \in Plane, NEW b \in Plane, NEW rings \in Seq(Seq(Plane)), rings # <<>>,
           \A h \in DOMAIN rings : rings[h] # <<>> /\ rings[h][1] = rings[h][Len(rings[h])],
           NEW n \in Nat \ {0}, NEW k \in 0 .. n,
           InPolygon(Between(a, b, <<k, n>>), [h \in DOMAIN rings |-> EnlargedRing(rings[h], n)]),
           ~InPolygon(a, rings)
    PROVE  \E h \in DOMAIN rings : \E side \in Sides(rings[h]) :
             \E t \in Crossing(a, b, side[1], side[2]) : ~Before(<<k, n>>, t)
<1> DEFINE p == Between(a, b, <<k, n>>)
           big == [h \in DOMAIN rings |-> EnlargedRing(rings[h], n)]
<1>1. SUFFICES ASSUME \A h \in DOMAIN rings : \A side \in Sides(rings[h]) :
                        ~ \E t \in Crossing(a, b, side[1], side[2]) : ~Before(<<k, n>>, t)
               PROVE  FALSE
  OBVIOUS
<1>2. DOMAIN rings = 1 .. Len(rings) /\ Len(rings) \in Nat /\ \A h \in DOMAIN rings : rings[h] \in Seq(Plane)
  BY LenProperties
<1>3. Len(rings) >= 1
  BY <1>2, EmptySeq
<1>4. Enlarged(a, n) \in Plane
  BY EnlargedTyped
<1>5. p \in Plane
  BY BetweenTyped
<1>6. ASSUME NEW h \in DOMAIN rings
      PROVE  InRing(p, big[h]) <=> InRing(a, rings[h])
  <2> DEFINE ring == rings[h]
             wide == EnlargedRing(ring, n)
  <2>1. ring \in Seq(Plane) /\ ring # <<>> /\ ring[1] = ring[Len(ring)]
    BY <1>2
  <2>2. wide \in Seq(Plane) /\ DOMAIN wide = DOMAIN ring /\ DOMAIN ring = 1 .. Len(ring) /\ Len(ring) \in Nat
    BY <2>1, EnlargedRingTyped
  <2>3. ASSUME NEW i \in DOMAIN wide
        PROVE  ~Touches(Enlarged(a, n), p, Preceding(wide, i), wide[i])
    <3>1. /\ ring[i] \in Plane /\ Preceding(ring, i) \in Plane /\ i \in DOMAIN ring
          /\ wide[i] = Enlarged(ring[i], n) /\ Preceding(wide, i) = Enlarged(Preceding(ring, i), n)
      BY <2>1, <2>2, EnlargedRingTyped
    <3>2. CASE i = 1
      <4>1. Preceding(ring, i) = ring[i]
        BY <2>1, <3>2 DEF Preceding
      <4>2. Preceding(wide, i) = wide[i] /\ wide[i] \in Plane
        BY <4>1, <3>1, EnlargedTyped
      <4>3. To(wide[i], wide[i]) = <<0, 0>>
        BY <4>2, PlaneTyped DEF To
      <4> DEFINE r == To(Enlarged(a, n), p)
      <4>4. r[1] \in Int /\ r[2] \in Int
        <5>1. /\ p[1] \in Int /\ p[2] \in Int
              /\ Enlarged(a, n)[1] \in Int /\ Enlarged(a, n)[2] \in Int
          BY <1>4, <1>5, PlaneTyped
        <5> HIDE DEF p
        <5> QED
          BY <5>1 DEF To
      <4>5. Times(r, <<0, 0>>) = 0
        <5> HIDE DEF r
        <5> QED
          BY <4>4 DEF Times
      <4> QED
        BY <4>2, <4>3, <4>5 DEF Touches, Touch
    <3>3. CASE i # 1
      <4>1. i - 1 \in 1 .. Len(ring) - 1 /\ i = (i - 1) + 1
        BY <2>2, <3>1, <3>3
      <4>2. Preceding(ring, i) = ring[i - 1]
        BY <3>3 DEF Preceding
      <4>3. <<ring[i - 1], ring[i]>> \in Sides(ring)
        BY <4>1 DEF Sides
      <4>4. ~ \E t \in Crossing(a, b, ring[i - 1], ring[i]) : ~Before(<<k, n>>, t)
        BY <4>3, <1>1
      <4>5. ring[i - 1] \in Plane
        BY <3>1, <4>2
      <4>6. ~Touches(Enlarged(a, n), Between(a, b, <<k, n>>), Enlarged(ring[i - 1], n), Enlarged(ring[i], n))
        BY <4>4, <4>5, <3>1, TouchedIsCrossed
      <4> QED
        BY <4>6, <4>2, <3>1
    <3> QED
      BY <3>2, <3>3
  <2>4. InRing(Enlarged(a, n), wide) <=> InRing(p, wide)
    <3> HIDE DEF wide, p
    <3> QED
      BY <2>2, <2>3, <1>4, <1>5, RingParity
  <2>5. InRing(Enlarged(a, n), wide) <=> InRing(a, ring)
    BY <2>1, RingEnlarged
  <2>6. big[h] = wide
    OBVIOUS
  <2> QED
    BY <2>4, <2>5, <2>6
<1>7. Len(big) = Len(rings)
  BY BigAsLong
<1>8. InPolygon(p, big)
  OBVIOUS
<1> HIDE DEF p, big
<1>9. InRing(p, big[1]) /\ \A h \in 2 .. Len(rings) : ~InRing(p, big[h])
  BY <1>7, <1>8 DEF InPolygon
<1>10. InRing(a, rings[1]) /\ \A h \in 2 .. Len(rings) : ~InRing(a, rings[h])
  <2>1. 1 \in DOMAIN rings /\ \A h \in 2 .. Len(rings) : h \in DOMAIN rings
    BY <1>2, <1>3
  <2> QED
    BY <2>1, <1>9, <1>6
<1> QED
  BY <1>10 DEF InPolygon

\* Where a segment crosses a side is a point of the side.
LEMMA CrossedOnSide ==
    ASSUME NEW a \in Plane, NEW b \in Plane, NEW c \in Plane, NEW d \in Plane, NEW t \in Crossing(a, b, c, d)
    PROVE  /\ t \in Fraction /\ 0 <= t[1] /\ t[1] <= t[2]
           /\ OnSide(Between(a, b, t), Enlarged(c, t[2]), Enlarged(d, t[2]))
<1>1. a[1] \in Int /\ a[2] \in Int /\ b[1] \in Int /\ b[2] \in Int /\ c[1] \in Int /\ c[2] \in Int /\ d[1] \in Int /\ d[2] \in Int
  BY PlaneTyped
<1> DEFINE E == Times(To(a, b), To(c, d))
           sign == IF E > 0 THEN 1 ELSE -1
           u == Times(To(a, c), To(a, b)) * sign
           v == Times(To(a, c), To(c, d)) * sign
           m == sign * E
<1>2. E \in Int /\ u \in Int /\ v \in Int /\ m \in Int /\ sign \in Int
  BY <1>1 DEF Times, To
<1>3. E # 0 /\ v \in 0 .. m /\ u \in 0 .. m /\ t = <<v, m>>
  BY DEF Crossing
<1>4. m > 0
  <2> HIDE DEF E, u, v
  <2> QED
    BY <1>2, <1>3
<1>5. /\ (m - v) * a[1] + v * b[1] = (m - u) * c[1] + u * d[1]
      /\ (m - v) * a[2] + v * b[2] = (m - u) * c[2] + u * d[2]
  <2>1. sign = 1 \/ sign = -1
    OBVIOUS
  <2> DEFINE E0 == E
             u0 == Times(To(a, c), To(a, b))
             v0 == Times(To(a, c), To(c, d))
  <2>2. /\ (E0 - v0) * a[1] + v0 * b[1] = (E0 - u0) * c[1] + u0 * d[1]
        /\ (E0 - v0) * a[2] + v0 * b[2] = (E0 - u0) * c[2] + u0 * d[2]
    BY <1>1 DEF Times, To
  <2>3. E0 \in Int /\ u0 \in Int /\ v0 \in Int
    BY <1>1 DEF Times, To
  <2>4. u = u0 * sign /\ v = v0 * sign /\ m = sign * E0
    OBVIOUS
  <2> HIDE DEF E0, u0, v0, u, v, m, sign, E
  <2>5. CASE sign = 1
    BY <2>2, <2>3, <2>4, <2>5, <1>1
  <2>6. CASE sign = -1
    <3>1. u = -u0 /\ v = -v0 /\ m = -E0
      BY <2>3, <2>4, <2>6
    <3>2. ASSUME NEW w \in Int, NEW x \in Int, NEW y \in Int, NEW z \in Int,
                 (E0 - v0) * w + v0 * x = (E0 - u0) * y + u0 * z
          PROVE  (m - v) * w + v * x = (m - u) * y + u * z
      <4>1. (m - v) * w + v * x = -((E0 - v0) * w + v0 * x)
        BY <3>1, <2>3
      <4>2. (m - u) * y + u * z = -((E0 - u0) * y + u0 * z)
        BY <3>1, <2>3
      <4> QED
        BY <4>1, <4>2, <3>2
    <3> QED
      BY <3>2, <2>2, <1>1
  <2> QED
    BY <2>1, <2>5, <2>6
<1> DEFINE p == Between(a, b, t)
           C == Enlarged(c, t[2])
           D == Enlarged(d, t[2])
<1>6. /\ p = <<(m - v) * a[1] + v * b[1], (m - v) * a[2] + v * b[2]>>
      /\ C = <<m * c[1], m * c[2]>> /\ D = <<m * d[1], m * d[2]>>
  BY <1>3 DEF Between, Enlarged
<1>7. /\ p[1] = (m - u) * c[1] + u * d[1] /\ p[2] = (m - u) * c[2] + u * d[2]
      /\ C[1] = m * c[1] /\ C[2] = m * c[2] /\ D[1] = m * d[1] /\ D[2] = m * d[2]
  BY <1>5, <1>6
<1> HIDE DEF p, C, D, u, v, m, E, sign
<1>8. Times(To(C, D), To(C, p)) = 0
  <2>1. To(C, D) = <<m * (d[1] - c[1]), m * (d[2] - c[2])>>
    BY <1>7, <1>1, <1>2 DEF To
  <2>2. To(C, p) = <<u * (d[1] - c[1]), u * (d[2] - c[2])>>
    BY <1>7, <1>1, <1>2 DEF To
  <2> DEFINE x == d[1] - c[1]
             y == d[2] - c[2]
  <2>3. x \in Int /\ y \in Int
    BY <1>1
  <2>4. Times(To(C, D), To(C, p)) = (m * x) * (u * y) - (u * x) * (m * y)
    <3>1. ASSUME NEW e \in Int, NEW f \in Int, NEW g \in Int, NEW h \in Int
          PROVE  Times(<<e, f>>, <<g, h>>) = e * h - g * f
      BY DEF Times
    <3>2. m * x \in Int /\ u * y \in Int /\ u * x \in Int /\ m * y \in Int
      BY <2>3, <1>2
    <3>3. To(C, D) = <<m * x, m * y>> /\ To(C, p) = <<u * x, u * y>>
      BY <2>1, <2>2
    <3> HIDE DEF x, y
    <3> QED
      BY <3>1, <3>2, <3>3
  <2> HIDE DEF x, y
  <2>5. (m * x) * (u * y) - (u * x) * (m * y) = 0
    BY <2>3, <1>2
  <2> QED
    BY <2>4, <2>5
<1>9. ASSUME NEW x \in Int, NEW y \in Int
      PROVE  (m - u) * x + u * y \in Lower(m * x, m * y) .. Upper(m * x, m * y)
  <2>1. (m - u) * x + u * y \in Int /\ m * x \in Int /\ m * y \in Int
    BY <1>2
  <2>2. u >= 0 /\ m - u >= 0
    BY <1>2, <1>3
  <2>3. CASE x <= y
    <3>1. (m - u) * x + u * y = m * x + u * (y - x) /\ (m - u) * x + u * y = m * y - (m - u) * (y - x)
      BY <1>2
    <3>2. u * (y - x) >= 0 /\ (m - u) * (y - x) >= 0
      BY <2>2, <2>3, <1>2
    <3> QED
      BY <3>1, <3>2, <2>1, <1>2 DEF Lower, Upper
  <2>4. CASE y < x
    <3>1. (m - u) * x + u * y = m * x - u * (x - y) /\ (m - u) * x + u * y = m * y + (m - u) * (x - y)
      BY <1>2
    <3>2. u * (x - y) >= 0 /\ (m - u) * (x - y) >= 0
      BY <2>2, <2>4, <1>2
    <3> QED
      BY <3>1, <3>2, <2>1, <1>2 DEF Lower, Upper
  <2> QED
    BY <2>3, <2>4
<1>10. p[1] \in Lower(C[1], D[1]) .. Upper(C[1], D[1]) /\ p[2] \in Lower(C[2], D[2]) .. Upper(C[2], D[2])
  BY <1>7, <1>9, <1>1
<1>11. OnSide(p, C, D)
  BY <1>8, <1>10 DEF OnSide
<1>12. t \in Fraction /\ 0 <= t[1] /\ t[1] <= t[2]
  BY <1>3, <1>4, <1>2 DEF Fraction
<1> QED
  BY <1>11, <1>12 DEF p, C, D

\* Fractions are ordered.
LEMMA FractionsInOrder ==
    ASSUME NEW x \in Fraction, NEW y \in Fraction, NEW z \in Fraction, ~Before(y, x), ~Before(z, y)
    PROVE  ~Before(z, x)
<1> DEFINE a == x[1]
           b == x[2]
           c == y[1]
           d == y[2]
           e == z[1]
           f == z[2]
<1>1. a \in Int /\ c \in Int /\ e \in Int /\ b \in Nat \ {0} /\ d \in Nat \ {0} /\ f \in Nat \ {0}
  BY DEF Fraction
<1>2. a * d <= c * b /\ c * f <= e * d
  BY <1>1 DEF Before
<1>3. SUFFICES a * f <= e * b
  BY <1>1 DEF Before
<1> HIDE DEF a, b, c, d, e, f
<1>4. (a * d) * f <= (c * b) * f /\ (c * f) * b <= (e * d) * b
  <2>1. \A m, n \in Int, o \in Nat : m <= n => m * o <= n * o
    OBVIOUS
  <2> QED
    BY <1>1, <1>2, <2>1
<1>5. d * (a * f) <= d * (e * b)
  BY <1>4, <1>1
<1>6. a * f \in Int /\ e * b \in Int
  BY <1>1
<1> QED
  BY <1>5, <1>6, <1>1

\* Of finitely many fractions one is before no other.
LEMMA FirstOfSome ==
    ASSUME NEW T \in SUBSET Fraction, IsFiniteSet(T), T # {}
    PROVE  First(T) \in T /\ \A u \in T : ~Before(u, First(T))
<1> DEFINE Earlier(t) == {u \in T : Before(u, t)}
           counts == {Cardinality(Earlier(t)) : t \in T}
<1>1. \A t \in T : IsFiniteSet(Earlier(t)) /\ Cardinality(Earlier(t)) \in Nat
  BY FS_Subset, FS_CardinalityType
<1>2. counts \in SUBSET Nat /\ counts # {}
  BY <1>1
<1>3. PICK t \in T : \A u \in T : Cardinality(Earlier(t)) <= Cardinality(Earlier(u))
  <2>1. Min(counts) \in counts /\ \A n \in counts : Min(counts) <= n
    <3> HIDE DEF counts
    <3> QED
      BY <1>2, LeastOfSome
  <2> QED
    BY <2>1
<1>4. ASSUME NEW u \in T, Before(u, t) PROVE FALSE
  <2>0. u \in Fraction /\ t \in Fraction
    OBVIOUS
  <2>1. \A v \in T : Before(v, u) => Before(v, t)
    <3> TAKE v \in T
    <3>1. v \in Fraction
      OBVIOUS
    <3>2. ASSUME ~Before(v, t), Before(v, u) PROVE FALSE
      <4>1. ~Before(u, v)
        BY <3>2, <3>1, <2>0 DEF Before, Fraction
      <4>2. ~Before(u, t)
        BY <4>1, <3>2, <3>1, <2>0, FractionsInOrder
      <4> QED
        BY <4>2, <1>4
    <3> QED
      BY <3>2
  <2>2. Earlier(u) \in SUBSET Earlier(t) /\ u \in Earlier(t) /\ u \notin Earlier(u)
    BY <2>1, <1>4, <2>0 DEF Before, Fraction
  <2>3. Cardinality(Earlier(u)) <= Cardinality(Earlier(t)) /\ (Cardinality(Earlier(t)) = Cardinality(Earlier(u)) => Earlier(t) = Earlier(u))
    BY <2>2, <1>1, FS_Subset
  <2>4. Cardinality(Earlier(t)) <= Cardinality(Earlier(u)) /\ Cardinality(Earlier(t)) \in Nat /\ Cardinality(Earlier(u)) \in Nat
    BY <1>3, <1>1
  <2> HIDE DEF Earlier
  <2> QED
    BY <2>2, <2>3, <2>4
<1> QED
  BY <1>4 DEF First

\* The image of a finite set is finite.
LEMMA ImagesAreFinite ==
    ASSUME NEW S, IsFiniteSet(S), NEW f
    PROVE  IsFiniteSet({f[x] : x \in S})
<1> DEFINE T == {f[x] : x \in S}
           g == [x \in S |-> f[x]]
<1>1. g \in Surjection(S, T)
  BY DEF Surjection
<1> HIDE DEF T, g
<1>2. IsFiniteSet(T)
  BY <1>1, FS_Surjection
<1> QED
  BY <1>2 DEF T

\* A ring has finitely many sides.
LEMMA SidesAreFinite ==
    ASSUME NEW ring \in Seq(Plane)
    PROVE  IsFiniteSet(Sides(ring)) /\ Sides(ring) \subseteq Plane \X Plane
<1> DEFINE m == 1 .. Len(ring) - 1
           f == [i \in m |-> <<ring[i], ring[i + 1]>>]
<1>1. Len(ring) \in Nat /\ \A i \in 1 .. Len(ring) : ring[i] \in Plane
  BY LenProperties
<1>2. IsFiniteSet(m)
  BY <1>1, FS_Interval
<1>3. Sides(ring) = {f[i] : i \in m}
  BY DEF Sides
<1>4. IsFiniteSet({f[i] : i \in m})
  <2> HIDE DEF f, m
  <2> QED
    BY <1>2, ImagesAreFinite
<1>5. Sides(ring) \subseteq Plane \X Plane
  BY <1>1 DEF Sides
<1> QED
  BY <1>3, <1>4, <1>5

\* What the geometries are assumed to be.
Polygons(polygons) ==
  /\ IsFiniteSet(polygons) /\ polygons \subseteq Seq(Seq(Plane)) \ {<<>>}
  /\ \A rings \in polygons : \A h \in DOMAIN rings :
       rings[h] # <<>> /\ rings[h][1] = rings[h][Len(rings[h])]

\* All sides of all rings.
SidesOf(polygons) == UNION {UNION {Sides(rings[h]) : h \in DOMAIN rings} : rings \in polygons}

\* They are finitely many.
LEMMA AllSidesAreFinite ==
    ASSUME NEW polygons, Polygons(polygons)
    PROVE  IsFiniteSet(SidesOf(polygons)) /\ SidesOf(polygons) \subseteq Plane \X Plane
<1> DEFINE f == [rings \in polygons |-> UNION {Sides(rings[h]) : h \in DOMAIN rings}]
<1>1. ASSUME NEW rings \in polygons
      PROVE  IsFiniteSet(f[rings]) /\ f[rings] \subseteq Plane \X Plane
  <2>1. DOMAIN rings = 1 .. Len(rings) /\ Len(rings) \in Nat /\ \A h \in DOMAIN rings : rings[h] \in Seq(Plane)
    <3>1. rings \in Seq(Seq(Plane))
      BY DEF Polygons
    <3> QED
      BY <3>1, LenProperties
  <2> DEFINE g == [h \in DOMAIN rings |-> Sides(rings[h])]
             all == {g[h] : h \in DOMAIN rings}
  <2>2. IsFiniteSet(DOMAIN rings)
    BY <2>1, FS_Interval
  <2>3. IsFiniteSet(all)
    <3> HIDE DEF g
    <3> QED
      BY <2>2, ImagesAreFinite
  <2>4. \A s \in all : IsFiniteSet(s) /\ s \subseteq Plane \X Plane
    BY <2>1, SidesAreFinite
  <2>5. f[rings] = UNION all
    OBVIOUS
  <2> HIDE DEF all, f
  <2>6. IsFiniteSet(UNION all)
    BY <2>3, <2>4, FS_UNION
  <2> QED
    BY <2>4, <2>5, <2>6
<1>2. SidesOf(polygons) = UNION {f[rings] : rings \in polygons}
  BY DEF SidesOf
<1>3. IsFiniteSet(polygons)
  BY DEF Polygons
<1> HIDE DEF f
<1>4. IsFiniteSet({f[rings] : rings \in polygons})
  BY <1>3, ImagesAreFinite
<1>5. IsFiniteSet(UNION {f[rings] : rings \in polygons})
  BY <1>4, <1>1, FS_UNION
<1> QED
  BY <1>1, <1>2, <1>5

\* A segment crosses them finitely often.
LEMMA CrossingsAreFinite ==
    ASSUME Polygons(geometry), path[seg] \in Plane, path[seg + 1] \in Plane
    PROVE  IsFiniteSet(Crossings) /\ Crossings \subseteq Fraction
<1> DEFINE a == path[seg]
           b == path[seg + 1]
           f == [side \in SidesOf(geometry) |-> Crossing(a, b, side[1], side[2])]
<1>1. Crossings = UNION {f[side] : side \in SidesOf(geometry)}
  BY DEF Crossings, SidesOf
<1>2. IsFiniteSet(SidesOf(geometry)) /\ SidesOf(geometry) \subseteq Plane \X Plane
  BY AllSidesAreFinite
<1>3. ASSUME NEW side \in SidesOf(geometry)
      PROVE  IsFiniteSet(f[side]) /\ f[side] \subseteq Fraction
  <2>1. side[1] \in Plane /\ side[2] \in Plane
    BY <1>2
  <2>2. f[side] = Crossing(a, b, side[1], side[2])
    OBVIOUS
  <2>3. f[side] \subseteq Fraction
    BY <2>1, <2>2, CrossedOnSide
  <2>4. \E t : f[side] \subseteq {t}
    BY <2>2 DEF Crossing
  <2>5. IsFiniteSet(f[side])
    <3>1. PICK t : f[side] \subseteq {t}
      BY <2>4
    <3>2. IsFiniteSet({t}) /\ f[side] \in SUBSET {t}
      BY <3>1, FS_Singleton
    <3> HIDE DEF f
    <3> QED
      BY <3>2, FS_Subset
  <2> QED
    BY <2>3, <2>5
<1> HIDE DEF f
<1>4. IsFiniteSet({f[side] : side \in SidesOf(geometry)})
  BY <1>2, ImagesAreFinite
<1>5. IsFiniteSet(UNION {f[side] : side \in SidesOf(geometry)})
  BY <1>3, <1>4, FS_UNION
<1> QED
  BY <1>1, <1>3, <1>5

\* The entry is on a segment that was looked at.
EntryOK == entry # NoEntry => entry.seg \in 1 .. seg - 1

\* The assumption of the constants, of one geometry.
LEMMA GeometriesArePolygons ==
    ASSUME NEW g \in Geometries
    PROVE  Polygons(g)
  BY HazardAssumption DEF Polygons, Plane

\* Both ends of a segment are points of the map.
LEMMA SegmentTyped ==
    ASSUME HazardTypeOK, NEW i \in 1 .. 2
    PROVE  path[i] \in Plane /\ path[i + 1] \in Plane
<1>1. Grid \X Grid \subseteq Plane
  BY HazardAssumption DEF Plane
<1>2. path[i] \in Grid \X Grid /\ path[i + 1] \in Grid \X Grid
  BY DEF HazardTypeOK
<1> QED
  BY <1>1, <1>2

\* A segment that is inside the airspace somewhere has entered it by then.
LEMMA SegmentEntered ==
    ASSUME HazardTypeOK, seg \in 1 .. 2, NEW k \in 0 .. Samples, InsideAt(seg, <<k, Samples>>)
    PROVE  Entered # NoEntry /\ Entered.seg = seg /\ ~Before(<<k, Samples>>, Entered.at)
<1> DEFINE a == path[seg]
           b == path[seg + 1]
           t == <<k, Samples>>
<1>1. a \in Plane /\ b \in Plane
  BY SegmentTyped
<1>2. Samples \in Nat \ {0} /\ Polygons(geometry)
  BY HazardAssumption, GeometriesArePolygons DEF HazardTypeOK
<1>3. \A x : [seg |-> seg, at |-> x] # NoEntry
  BY DEF NoEntry
<1>4. CASE \E rings \in geometry : InPolygon(path[seg], rings)
  <2>1. Entered = [seg |-> seg, at |-> <<0, 1>>]
    BY <1>4 DEF Entered
  <2>2. ~Before(t, <<0, 1>>)
    BY <1>2 DEF Before
  <2> QED
    BY <2>1, <2>2, <1>3
<1>5. CASE ~ \E rings \in geometry : InPolygon(path[seg], rings)
  <2>1. PICK rings \in geometry : InPolygon(Between(a, b, t), [h \in DOMAIN rings |-> EnlargedRing(rings[h], Samples)])
    <3>1. t[2] = Samples
      OBVIOUS
    <3> HIDE DEF t
    <3> QED
      BY <3>1 DEF InsideAt, PointAt, t
  <2>2. rings \in Seq(Seq(Plane)) /\ rings # <<>> /\ \A h \in DOMAIN rings : rings[h] # <<>> /\ rings[h][1] = rings[h][Len(rings[h])]
    BY <1>2 DEF Polygons
  <2>3. ~InPolygon(a, rings)
    BY <1>5
  <2>4. \E h \in DOMAIN rings : \E side \in Sides(rings[h]) :
          \E u \in Crossing(a, b, side[1], side[2]) : ~Before(t, u)
    <3> HIDE DEF a, b
    <3> QED
      BY <1>1, <1>2, <2>1, <2>2, <2>3, PolygonEntered
  <2>11. PICK h \in DOMAIN rings : \E side \in Sides(rings[h]) : \E u \in Crossing(a, b, side[1], side[2]) : ~Before(t, u)
    BY <2>4
  <2>5. PICK side \in Sides(rings[h]) : \E u \in Crossing(a, b, side[1], side[2]) : ~Before(t, u)
    BY <2>11
  <2>6. PICK u \in Crossing(a, b, side[1], side[2]) : ~Before(t, u)
    BY <2>5
  <2>7. u \in Crossings
    <3>1. side \in UNION {UNION {Sides(r[j]) : j \in DOMAIN r} : r \in geometry}
      OBVIOUS
    <3> QED
      BY <3>1, <2>6 DEF Crossings
  <2>8. First(Crossings) \in Crossings /\ ~Before(u, First(Crossings)) /\ Crossings \in SUBSET Fraction /\ Crossings # {}
    BY <2>7, <1>1, <1>2, CrossingsAreFinite, FirstOfSome
  <2>9. ~Before(t, First(Crossings))
    <3>1. t \in Fraction /\ u \in Fraction /\ First(Crossings) \in Fraction
      BY <2>7, <2>8, <1>2 DEF Fraction
    <3> HIDE DEF t
    <3> QED
      BY <3>1, <2>6, <2>8, FractionsInOrder
  <2>10. Entered = [seg |-> seg, at |-> First(Crossings)]
    BY <1>5, <2>8 DEF Entered
  <2> QED
    BY <2>9, <2>10, <1>3
<1> QED
  BY <1>4, <1>5

\* Where a segment enters is a point of the airspace.
LEMMA EntryIsThere ==
    ASSUME HazardTypeOK, seg \in 1 .. 2, Entered # NoEntry
    PROVE  Entered.seg = seg /\ (InsideAt(seg, Entered.at) \/ OnBoundaryAt(seg, Entered.at))
<1> DEFINE a == path[seg]
           b == path[seg + 1]
<1>1. a \in Plane /\ b \in Plane
  BY SegmentTyped
<1>2. Polygons(geometry)
  BY GeometriesArePolygons DEF HazardTypeOK
<1>4. CASE \E rings \in geometry : InPolygon(path[seg], rings)
  <2>1. Entered = [seg |-> seg, at |-> <<0, 1>>]
    BY <1>4 DEF Entered
  <2>2. PICK rings \in geometry : InPolygon(a, rings)
    BY <1>4
  <2>3. Between(a, b, <<0, 1>>) = Enlarged(a, 1)
    <3>1. a[1] \in Int /\ a[2] \in Int /\ b[1] \in Int /\ b[2] \in Int
      BY <1>1, PlaneTyped
    <3> HIDE DEF a, b
    <3>2. Between(a, b, <<0, 1>>) = <<(1 - 0) * a[1] + 0 * b[1], (1 - 0) * a[2] + 0 * b[2]>>
      BY DEF Between
    <3>3. (1 - 0) * a[1] + 0 * b[1] = 1 * a[1] /\ (1 - 0) * a[2] + 0 * b[2] = 1 * a[2]
      BY <3>1
    <3> QED
      BY <3>2, <3>3 DEF Enlarged
  <2> DEFINE big == [h \in DOMAIN rings |-> EnlargedRing(rings[h], 1)]
  <2>4. rings \in Seq(Seq(Plane)) /\ rings # <<>>
    BY <1>2 DEF Polygons
  <2>5. DOMAIN rings = 1 .. Len(rings) /\ Len(rings) \in Nat /\ Len(rings) # 0 /\ \A h \in DOMAIN rings : rings[h] \in Seq(Plane)
    BY <2>4, LenProperties, EmptySeq
  <2>6. \A h \in DOMAIN rings : InRing(Enlarged(a, 1), big[h]) <=> InRing(a, rings[h])
    <3> HIDE DEF a
    <3> QED
      BY <2>5, <1>1, RingEnlarged
  <2>7. Len(big) = Len(rings)
    BY <2>5, BigAsLong
  <2>8. 1 \in DOMAIN rings /\ \A h \in 2 .. Len(rings) : h \in DOMAIN rings
    BY <2>5
  <2>9. InPolygon(Enlarged(a, 1), big)
    <3> HIDE DEF big, a
    <3> QED
      BY <2>2, <2>6, <2>7, <2>8 DEF InPolygon
  <2>10. InsideAt(seg, <<0, 1>>)
    BY <2>3, <2>9 DEF InsideAt, PointAt
  <2> QED
    BY <2>1, <2>10
<1>5. CASE ~ \E rings \in geometry : InPolygon(path[seg], rings)
  <2>1. Crossings # {}
    BY <1>5 DEF Entered
  <2> DEFINE t == First(Crossings)
  <2>2. t \in Crossings
    BY <2>1, <1>1, <1>2, CrossingsAreFinite, FirstOfSome
  <2>3. Entered = [seg |-> seg, at |-> t]
    BY <1>5, <2>1 DEF Entered
  <2> HIDE DEF t
  <2>8. PICK rings \in geometry : \E h \in DOMAIN rings : \E side \in Sides(rings[h]) : t \in Crossing(a, b, side[1], side[2])
    BY <2>2 DEF Crossings
  <2>9. PICK h \in DOMAIN rings : \E side \in Sides(rings[h]) : t \in Crossing(a, b, side[1], side[2])
    BY <2>8
  <2>4. PICK side \in Sides(rings[h]) : t \in Crossing(a, b, side[1], side[2])
    BY <2>9
  <2>5. side[1] \in Plane /\ side[2] \in Plane
    <3>1. side \in SidesOf(geometry)
      BY DEF SidesOf
    <3> QED
      BY <3>1, <1>2, AllSidesAreFinite
  <2>6. OnSide(Between(a, b, t), Enlarged(side[1], t[2]), Enlarged(side[2], t[2]))
    <3> HIDE DEF a, b
    <3> QED
      BY <2>4, <2>5, <1>1, CrossedOnSide
  <2>7. OnBoundaryAt(seg, t)
    BY <2>6 DEF OnBoundaryAt, PointAt
  <2> QED
    BY <2>3, <2>7
<1> QED
  BY <1>4, <1>5

\* The inductive invariant of the entry.
EntriesInv == HazardTypeOK /\ EntryOK /\ EntriesAreRight

\* Every segment keeps it.
LEMMA EntriesKept == EntriesInv /\ HazardNext => EntriesInv'
<1> SUFFICES ASSUME EntriesInv, HazardNext PROVE EntriesInv'
  OBVIOUS
<1>1. seg \in 1 .. 2 /\ seg' = seg + 1 /\ path' = path /\ geometry' = geometry
      /\ entry' = IF entry = NoEntry THEN Entered ELSE entry
  BY DEF EntriesInv, HazardTypeOK, HazardNext, LookAtSegment
<1>2. HazardTypeOK'
  BY <1>1 DEF EntriesInv, HazardTypeOK, HazardNext, LookAtSegment
<1>3. \A i, t : (InsideAt(i, t)' <=> InsideAt(i, t)) /\ (OnBoundaryAt(i, t)' <=> OnBoundaryAt(i, t))
  BY <1>1 DEF InsideAt, OnBoundaryAt, PointAt
<1>4. CASE entry # NoEntry
  <2>1. entry' = entry /\ entry.seg \in 1 .. seg - 1
    BY <1>1, <1>4 DEF EntriesInv, EntryOK
  <2>2. EntryOK'
    BY <1>1, <2>1 DEF EntryOK
  <2>3. ASSUME NEW i \in 1 .. seg' - 1, NEW k \in 0 .. Samples, InsideAt(i, <<k, Samples>>)
        PROVE  EnteredBy(i, <<k, Samples>>)'
    <3>1. CASE i = seg
      BY <2>1, <1>4, <3>1, <1>1 DEF EnteredBy
    <3>2. CASE i # seg
      <4>1. i \in 1 .. seg - 1
        BY <3>2, <1>1
      <4>2. EnteredBy(i, <<k, Samples>>)
        BY <4>1, <2>3 DEF EntriesInv, EntriesAreRight
      <4> QED
        BY <4>2, <2>1 DEF EnteredBy
    <3> QED
      BY <3>1, <3>2
  <2>4. InsideAt(entry.seg, entry.at) \/ OnBoundaryAt(entry.seg, entry.at)
    BY <1>4 DEF EntriesInv, EntriesAreRight
  <2>5. (InsideAt(entry.seg, entry.at) \/ OnBoundaryAt(entry.seg, entry.at))'
    BY <2>4, <2>1, <1>1 DEF InsideAt, OnBoundaryAt, PointAt
  <2> QED
    <3>1. EntriesAreRight'
      <4>1. ASSUME NEW i \in (1 .. seg - 1)', NEW k \in 0 .. Samples, InsideAt(i, <<k, Samples>>)'
            PROVE  EnteredBy(i, <<k, Samples>>)'
        BY <4>1, <2>3, <1>3
      <4> QED
        BY <4>1, <2>5 DEF EntriesAreRight
    <3> QED
      BY <1>2, <2>2, <3>1 DEF EntriesInv
<1>5. CASE entry = NoEntry
  <2>1. entry' = Entered
    BY <1>1, <1>5
  <2>0. HazardTypeOK
    BY DEF EntriesInv
  <2>2. ASSUME entry' # NoEntry
        PROVE  entry'.seg = seg /\ (InsideAt(entry'.seg, entry'.at) \/ OnBoundaryAt(entry'.seg, entry'.at))
    BY <2>0, <2>1, <2>2, <1>1, EntryIsThere
  <2>3. EntryOK'
    BY <2>2, <1>1 DEF EntryOK, NoEntry
  <2>4. ASSUME NEW i \in 1 .. seg' - 1, NEW k \in 0 .. Samples, InsideAt(i, <<k, Samples>>)
        PROVE  EnteredBy(i, <<k, Samples>>)'
    <3>1. CASE i = seg
      <4>1. Entered # NoEntry /\ Entered.seg = seg /\ ~Before(<<k, Samples>>, Entered.at)
        BY <3>1, <2>4, <2>0, <1>1, SegmentEntered
      <4> QED
        BY <4>1, <2>1, <3>1 DEF EnteredBy, NoEntry, Before
    <3>2. CASE i # seg
      <4>1. i \in 1 .. seg - 1
        BY <3>2, <1>1
      <4>2. EnteredBy(i, <<k, Samples>>)
        BY <4>1, <2>4 DEF EntriesInv, EntriesAreRight
      <4> QED
        BY <4>2, <1>5 DEF EnteredBy
    <3> QED
      BY <3>1, <3>2
  <2>5. entry' # NoEntry => (InsideAt(entry.seg, entry.at) \/ OnBoundaryAt(entry.seg, entry.at))'
    BY <2>2, <1>1 DEF InsideAt, OnBoundaryAt, PointAt
  <2> QED
    <3>1. EntriesAreRight'
      <4>1. ASSUME NEW i \in (1 .. seg - 1)', NEW k \in 0 .. Samples, InsideAt(i, <<k, Samples>>)'
            PROVE  EnteredBy(i, <<k, Samples>>)'
        BY <4>1, <2>4, <1>3
      <4>2. NoEntry' = NoEntry
        BY DEF NoEntry
      <4> QED
        BY <4>1, <4>2, <2>5 DEF EntriesAreRight
    <3> QED
      BY <1>2, <2>3, <3>1 DEF EntriesInv
<1> QED
  BY <1>4, <1>5

\* Whatever the airspace, with holes, corners and however many polygons, and whatever the
\* route: where it is inside, at any of the points looked at, it was seen to enter by then, and
\* where it is said to enter is inside or on a side (routeEntryNm).
THEOREM EntriesStayRight == HazardSpec => []EntriesAreRight
<1>1. HazardInit => EntriesInv
  <2>1. HazardInit => HazardTypeOK
    <3>1. ASSUME NEW p \in [1 .. 3 -> Grid \X Grid] PROVE Len(p) = 3
      BY SeqDef, LenProperties
    <3> QED
      BY <3>1 DEF HazardInit, HazardTypeOK
  <2>2. HazardInit => EntryOK /\ EntriesAreRight
    <3>1. HazardInit => entry = NoEntry /\ seg = 1
      BY DEF HazardInit
    <3>2. 1 .. 1 - 1 = {}
      OBVIOUS
    <3> QED
      BY <3>1, <3>2 DEF EntryOK, EntriesAreRight
  <2> QED
    BY <2>1, <2>2 DEF EntriesInv
<1>2. EntriesInv /\ UNCHANGED hazardVars => EntriesInv'
  BY DEF EntriesInv, HazardTypeOK, EntryOK, EntriesAreRight, EnteredBy, InsideAt, OnBoundaryAt, PointAt, hazardVars
<1>3. EntriesInv => EntriesAreRight
  BY DEF EntriesInv
<1> QED
  BY <1>1, <1>2, <1>3, EntriesKept, PTL DEF HazardSpec

-----------------------------------------------------------------------------
(* Surroundings: the wires near an aerodrome, the airspaces of a window *)

\* A number beyond another has a larger square.
LEMMA SquareBeyond ==
    ASSUME NEW x \in Int, NEW c \in Nat, x > c \/ x < -c
    PROVE  x * x > c * c
<1>1. CASE x > c
  BY <1>1
<1>2. CASE x < -c
  <2>1. -x > c
    BY <1>2
  <2>2. (-x) * (-x) > c * c
    BY <2>1
  <2> QED
    BY <2>2
<1> QED
  BY <1>1, <1>2

\* No point of a segment is nearer to a place than the distance that is told.
LEMMA PointsAreNoNearer ==
    ASSUME NEW s \in Plane, NEW a \in Plane, NEW b \in Plane, NEW n \in Nat \ {0}, NEW k \in 0 .. n
    PROVE  LET d == Distance2(s, a, b)
           IN /\ d \in Nat \X (Nat \ {0})
              /\ Norm2(To(Enlarged(s, n), Between(a, b, <<k, n>>))) * d[2] >= (n * n) * d[1]
<1> DEFINE x == b[1] - a[1]
           y == b[2] - a[2]
           u == s[1] - a[1]
           v == s[2] - a[2]
           len == x * x + y * y
           along == x * u + y * v
           cross == x * v - y * u
           off == u * u + v * v
           N == Norm2(To(Enlarged(s, n), Between(a, b, <<k, n>>)))
           d == Distance2(s, a, b)
<1>0. a[1] \in Int /\ a[2] \in Int /\ b[1] \in Int /\ b[2] \in Int /\ s[1] \in Int /\ s[2] \in Int
  BY PlaneTyped
<1>1. x \in Int /\ y \in Int /\ u \in Int /\ v \in Int
  BY <1>0
<1>2. len \in Nat /\ along \in Int /\ cross \in Int /\ off \in Nat
  BY <1>1
<1>3. N = (k * x - n * u) * (k * x - n * u) + (k * y - n * v) * (k * y - n * v)
  <2> DEFINE A == Enlarged(s, n)
             p == Between(a, b, <<k, n>>)
  <2>1. /\ (n - k) * a[1] + k * b[1] - n * s[1] = k * x - n * u
        /\ (n - k) * a[2] + k * b[2] - n * s[2] = k * y - n * v
    BY <1>0
  <2>2. p = <<(n - k) * a[1] + k * b[1], (n - k) * a[2] + k * b[2]>> /\ A = <<n * s[1], n * s[2]>>
    BY DEF Between, Enlarged
  <2>3. /\ p[1] = (n - k) * a[1] + k * b[1] /\ p[2] = (n - k) * a[2] + k * b[2]
        /\ A[1] = n * s[1] /\ A[2] = n * s[2]
    BY <2>2
  <2> HIDE DEF p, A
  <2>4. To(A, p) = <<p[1] - A[1], p[2] - A[2]>>
    BY DEF To
  <2>5. p[1] - A[1] = k * x - n * u /\ p[2] - A[2] = k * y - n * v
    BY <2>3, <1>0
  <2>6. Norm2(To(A, p)) = (p[1] - A[1]) * (p[1] - A[1]) + (p[2] - A[2]) * (p[2] - A[2])
    BY <2>4 DEF Norm2
  <2> QED
    BY <2>5, <2>6 DEF p, A
<1>4. N = (k * k) * len - 2 * ((k * n) * along) + (n * n) * off
  <2> HIDE DEF x, y, u, v, N
  <2> QED
    BY <1>1, <1>3
<1>5. len * off = along * along + cross * cross
  <2> HIDE DEF x, y, u, v
  <2> QED
    BY <1>1
<1>6. d = IF along <= 0 \/ a = b THEN <<off, 1>>
          ELSE IF along >= len THEN <<(u - x) * (u - x) + (v - y) * (v - y), 1>>
          ELSE <<cross * cross, len>>
  <2>1. Norm2(To(b, s)) = (u - x) * (u - x) + (v - y) * (v - y)
    <3>1. s[1] - b[1] = u - x /\ s[2] - b[2] = v - y
      BY <1>0
    <3> QED
      BY <3>1 DEF Norm2, To
  <2>2. Norm2(To(a, s)) = off /\ Norm2(To(a, b)) = len /\ Times(To(a, b), To(a, s)) = cross
    BY <1>0 DEF Norm2, Times, To
  <2>3. To(a, b)[1] * To(a, s)[1] + To(a, b)[2] * To(a, s)[2] = along
    BY DEF To
  <2> HIDE DEF x, y, u, v, len, along, cross, off
  <2> QED
    BY <2>1, <2>2, <2>3 DEF Distance2
<1>7. (u - x) * (u - x) + (v - y) * (v - y) = off - 2 * along + len
  <2> HIDE DEF x, y, u, v
  <2> QED
    BY <1>1
<1>8. a = b => along = 0
  BY <1>0
<1>9. N \in Int
  <2> HIDE DEF N, x, y, u, v
  <2> QED
    BY <1>3, <1>1
<1>10. SUFFICES d \in Nat \X (Nat \ {0}) /\ N * d[2] >= (n * n) * d[1]
  OBVIOUS
<1> HIDE DEF x, y, u, v, len, along, cross, off, N, d
<1>11. CASE along <= 0 \/ a = b
  <2>1. d = <<off, 1>> /\ along <= 0
    BY <1>6, <1>8, <1>11, <1>2
  <2>2. (k * k) * len >= 0 /\ (k * n) * along <= 0
    <3>1. k * k \in Nat /\ k * n \in Nat
      OBVIOUS
    <3> QED
      BY <3>1, <1>2, <2>1
  <2>3. N >= (n * n) * off
    BY <2>2, <1>4, <1>2
  <2> QED
    BY <2>1, <2>3, <1>2, <1>9
<1>12. CASE ~(along <= 0 \/ a = b) /\ along >= len
  <2> DEFINE w == off - 2 * along + len
  <2>1. d = <<w, 1>> /\ w \in Nat
    <3>1. (u - x) * (u - x) >= 0 /\ (v - y) * (v - y) >= 0
      BY <1>1
    <3> QED
      BY <3>1, <1>6, <1>7, <1>12, <1>1, <1>2
  <2>2. N - (n * n) * w = (n - k) * (2 * (n * along) - (n + k) * len)
    BY <1>4, <1>2
  <2>3. 2 * (n * along) >= (n + k) * len
    <3>1. n * along >= n * len
      BY <1>2, <1>12
    <3>2. (n + k) * len <= (2 * n) * len
      BY <1>2
    <3> QED
      BY <3>1, <3>2, <1>2
  <2>4. N - (n * n) * w >= 0
    <3> DEFINE m == 2 * (n * along) - (n + k) * len
    <3>1. m \in Nat
      BY <2>3, <1>2
    <3> HIDE DEF m
    <3>2. (n - k) * m >= 0
      BY <3>1
    <3> QED
      BY <3>2, <2>2 DEF m
  <2> HIDE DEF w
  <2> QED
    BY <2>1, <2>4, <1>9
<1>13. CASE ~(along <= 0 \/ a = b) /\ ~(along >= len)
  <2>1. d = <<cross * cross, len>> /\ len > 0 /\ cross * cross \in Nat
    BY <1>6, <1>13, <1>2
  <2>2. N * len - (n * n) * (cross * cross) = (k * len - n * along) * (k * len - n * along)
    <3>1. N * len = (k * k) * (len * len) - 2 * ((k * n) * (along * len)) + (n * n) * (len * off)
      BY <1>4, <1>2
    <3>2. (n * n) * (len * off) = (n * n) * (along * along) + (n * n) * (cross * cross)
      BY <1>5, <1>2
    <3> QED
      BY <3>1, <3>2, <1>2, <1>9
  <2>3. (k * len - n * along) * (k * len - n * along) >= 0
    <3> DEFINE m == k * len - n * along
    <3>1. m \in Int
      BY <1>2
    <3> HIDE DEF m
    <3>2. m * m >= 0
      BY <3>1
    <3> QED
      BY <3>2 DEF m
  <2>4. N * len >= (n * n) * (cross * cross)
    BY <2>2, <2>3, <2>1, <1>9, <1>2
  <2> QED
    BY <2>1, <2>4, <1>2
<1> QED
  BY <1>11, <1>12, <1>13

\* The nearest point of a line is nearer than those of all its segments.
LEMMA EdgesTyped ==
    ASSUME NEW s \in Plane, NEW line \in Seq(Plane), Len(line) >= 2
    PROVE  /\ Edges(s, line) \in SUBSET Fraction /\ IsFiniteSet(Edges(s, line)) /\ Edges(s, line) # {}
           /\ NearestPoint(s, line) \in Fraction
           /\ \A i \in 1 .. Len(line) - 1 : ~Before(Distance2(s, line[i], line[i + 1]), NearestPoint(s, line))
<1> DEFINE m == 1 .. Len(line) - 1
           f == [i \in m |-> Distance2(s, line[i], line[i + 1])]
<1>1. Len(line) \in Nat /\ \A i \in 1 .. Len(line) : line[i] \in Plane
  BY LenProperties
<1>2. IsFiniteSet(m) /\ 1 \in m
  BY <1>1, FS_Interval
<1>3. Edges(s, line) = {f[i] : i \in m}
  BY DEF Edges
<1>4. IsFiniteSet({f[i] : i \in m})
  <2> HIDE DEF f, m
  <2> QED
    BY <1>2, ImagesAreFinite
<1>5. ASSUME NEW i \in m PROVE Distance2(s, line[i], line[i + 1]) \in Fraction
  <2>1. line[i] \in Plane /\ line[i + 1] \in Plane
    BY <1>1
  <2>2. Distance2(s, line[i], line[i + 1]) \in Nat \X (Nat \ {0})
    <3>1. 1 \in Nat \ {0} /\ 0 \in 0 .. 1
      OBVIOUS
    <3> QED
      BY <2>1, <3>1, PointsAreNoNearer
  <2> QED
    BY <2>2 DEF Fraction
<1>6. Edges(s, line) \in SUBSET Fraction /\ Edges(s, line) # {}
  BY <1>2, <1>5 DEF Edges
<1>7. NearestPoint(s, line) \in Edges(s, line) /\ \A e \in Edges(s, line) : ~Before(e, NearestPoint(s, line))
  BY <1>3, <1>4, <1>6, FirstOfSome DEF NearestPoint, Nearest
<1> QED
  BY <1>3, <1>4, <1>6, <1>7 DEF Edges

\* A wire has a segment.
LEMMA WiresTyped ==
    ASSUME NEW w \in Wires
    PROVE  w \in Seq(Plane) /\ Len(w) >= 2
  BY SurroundingsAssumption DEF Plane

\* Finitely many numbers have a least and a greatest.
LEMMA LeastInt ==
    ASSUME NEW T \in SUBSET Int, IsFiniteSet(T), T # {}
    PROVE  /\ Min(T) \in T /\ \A x \in T : Min(T) <= x
           /\ Max(T) \in T /\ \A x \in T : x <= Max(T)
<1> DEFINE f == [x \in T |-> <<x, 1>>]
           g == [x \in T |-> <<-x, 1>>]
           F == {f[x] : x \in T}
           G == {g[x] : x \in T}
<1>1. IsFiniteSet(F) /\ IsFiniteSet(G)
  <2> HIDE DEF f, g
  <2> QED
    BY ImagesAreFinite
<1>2. F \in SUBSET Fraction /\ G \in SUBSET Fraction /\ F # {} /\ G # {}
  <2>1. \A x \in T : x \in Int /\ -x \in Int /\ 1 \in Nat \ {0}
    OBVIOUS
  <2>2. \A x \in T : f[x] \in Fraction /\ g[x] \in Fraction
    BY <2>1 DEF Fraction
  <2> HIDE DEF f, g
  <2> QED
    BY <2>2
<1>3. PICK x \in T : \A u \in F : ~Before(u, <<x, 1>>)
  <2>1. First(F) \in F /\ \A u \in F : ~Before(u, First(F))
    <3> HIDE DEF F
    <3> QED
      BY <1>1, <1>2, FirstOfSome
  <2> QED
    BY <2>1
<1>4. PICK y \in T : \A u \in G : ~Before(u, <<-y, 1>>)
  <2>1. First(G) \in G /\ \A u \in G : ~Before(u, First(G))
    <3> HIDE DEF G
    <3> QED
      BY <1>1, <1>2, FirstOfSome
  <2> QED
    BY <2>1
<1>5. \A z \in T : x <= z
  <2> TAKE z \in T
  <2>1. <<z, 1>> \in F
    OBVIOUS
  <2>2. ~Before(<<z, 1>>, <<x, 1>>)
    BY <2>1, <1>3
  <2> QED
    BY <2>2 DEF Before
<1>6. \A z \in T : z <= y
  <2> TAKE z \in T
  <2>1. <<-z, 1>> \in G
    OBVIOUS
  <2>2. ~Before(<<-z, 1>>, <<-y, 1>>)
    BY <2>1, <1>4
  <2> QED
    BY <2>2 DEF Before
<1> QED
  BY <1>5, <1>6 DEF Min, Max

\* The ends of what some points span.
LEMMA SpanOf ==
    ASSUME NEW points \in SUBSET Plane, IsFiniteSet(points), NEW c \in {1, 2}, NEW q \in points
    PROVE  /\ Lowest(points, c) \in Int /\ Highest(points, c) \in Int
           /\ Lowest(points, c) <= q[c] /\ q[c] <= Highest(points, c)
<1> DEFINE f == [p \in points |-> p[c]]
           T == {f[p] : p \in points}
<1>1. IsFiniteSet(T)
  <2> HIDE DEF f
  <2> QED
    BY ImagesAreFinite
<1>2. T \in SUBSET Int /\ q[c] \in T
  BY DEF Plane
<1>3. /\ Min(T) \in T /\ \A x \in T : Min(T) <= x
      /\ Max(T) \in T /\ \A x \in T : x <= Max(T)
  <2> HIDE DEF T
  <2> QED
    BY <1>1, <1>2, LeastInt
<1>4. T = {p[c] : p \in points}
  OBVIOUS
<1> HIDE DEF T
<1> QED
  BY <1>2, <1>3, <1>4 DEF Lowest, Highest

\* A line has finitely many corners.
LEMMA PointsAreFinite ==
    ASSUME NEW line \in Seq(Plane)
    PROVE  IsFiniteSet(ToSet(line)) /\ ToSet(line) \in SUBSET Plane
<1>1. DOMAIN line = 1 .. Len(line) /\ Len(line) \in Nat /\ \A i \in DOMAIN line : line[i] \in Plane
  BY LenProperties
<1>2. IsFiniteSet(DOMAIN line)
  BY <1>1, FS_Interval
<1> QED
  BY <1>1, <1>2, ImagesAreFinite DEF ToSet

\* A line out of the box around a place keeps away from it.
LEMMA OutOfTheBox ==
    ASSUME NEW s \in Plane, NEW line \in Seq(Plane), Len(line) >= 2, ~MeetsBox(s, ToSet(line)),
           NEW i \in 1 .. Len(line) - 1, NEW k \in 0 .. Samples
    PROVE  Norm2(To(Enlarged(s, Samples), Between(line[i], line[i + 1], <<k, Samples>>)))
             > Radius * Radius * (Samples * Samples)
<1> DEFINE n == Samples
           a == line[i]
           b == line[i + 1]
           A == Enlarged(s, n)
           p == Between(a, b, <<k, n>>)
<1>0. n \in Nat \ {0} /\ Radius \in Nat
  BY HazardAssumption, SurroundingsAssumption
<1>1. a \in Plane /\ b \in Plane /\ a \in ToSet(line) /\ b \in ToSet(line)
  <2>1. DOMAIN line = 1 .. Len(line) /\ Len(line) \in Nat
    BY LenProperties
  <2>2. i \in 1 .. Len(line) /\ i + 1 \in 1 .. Len(line)
    BY <2>1
  <2> QED
    BY <2>1, <2>2, LenProperties DEF ToSet
<1>2. PICK c \in {1, 2} : ~(Lowest(ToSet(line), c) <= s[c] + Radius /\ Highest(ToSet(line), c) >= s[c] - Radius)
  <2>1. <<s[1] - Radius, s[2] - Radius>>[1] = s[1] - Radius /\ <<s[1] - Radius, s[2] - Radius>>[2] = s[2] - Radius
    OBVIOUS
  <2>2. <<s[1] + Radius, s[2] + Radius>>[1] = s[1] + Radius /\ <<s[1] + Radius, s[2] + Radius>>[2] = s[2] + Radius
    OBVIOUS
  <2> DEFINE low == <<s[1] - Radius, s[2] - Radius>>
             high == <<s[1] + Radius, s[2] + Radius>>
  <2>3. ~Meets(ToSet(line), low, high)
    BY DEF MeetsBox
  <2> HIDE DEF low, high
  <2>4. PICK c \in {1, 2} : ~(Lowest(ToSet(line), c) <= high[c] /\ Highest(ToSet(line), c) >= low[c])
    BY <2>3 DEF Meets
  <2>5. high[c] = s[c] + Radius /\ low[c] = s[c] - Radius
    BY <2>1, <2>2 DEF low, high
  <2> QED
    BY <2>4, <2>5
<1>3. s[c] \in Int /\ a[c] \in Int /\ b[c] \in Int
  BY <1>1 DEF Plane
<1>4. \/ a[c] > s[c] + Radius /\ b[c] > s[c] + Radius
      \/ a[c] < s[c] - Radius /\ b[c] < s[c] - Radius
  <2>1. /\ Lowest(ToSet(line), c) \in Int /\ Highest(ToSet(line), c) \in Int
        /\ Lowest(ToSet(line), c) <= a[c] /\ a[c] <= Highest(ToSet(line), c)
        /\ Lowest(ToSet(line), c) <= b[c] /\ b[c] <= Highest(ToSet(line), c)
    BY <1>1, PointsAreFinite, SpanOf
  <2> HIDE DEF a, b
  <2> QED
    BY <2>1, <1>2, <1>3, <1>0
<1> DEFINE off(x) == ((n - k) * a[x] + k * b[x]) - n * s[x]
<1>5. off(c) > Radius * n \/ off(c) < -(Radius * n)
  <2>1. n - k >= 0 /\ k >= 0 /\ k \in Int
    BY <1>0
  <2> DEFINE e == a[c] - s[c]
             f == b[c] - s[c]
  <2>2. e \in Int /\ f \in Int
    BY <1>3
  <2>3. off(c) = (n - k) * e + k * f
    <3>1. \A j, l, x, y, z \in Int : ((j - l) * x + l * y) - j * z = (j - l) * (x - z) + l * (y - z)
      OBVIOUS
    <3>2. n \in Int /\ k \in Int
      BY <1>0
    <3> DEFINE ac == a[c]
               bc == b[c]
               sc == s[c]
    <3>3. ac \in Int /\ bc \in Int /\ sc \in Int
      BY <1>3
    <3> HIDE DEF n, ac, bc, sc
    <3>4. ((n - k) * ac + k * bc) - n * sc = (n - k) * (ac - sc) + k * (bc - sc)
      BY <3>2, <3>3
    <3> QED
      BY <3>4 DEF ac, bc, sc
  <2>4. (e > Radius /\ f > Radius) \/ (e < -Radius /\ f < -Radius)
    BY <1>3, <1>4, <1>0
  <2> DEFINE m == n - k
             z == off(c)
  <2>5. m \in Nat /\ k \in Nat /\ m + k = n /\ z = m * e + k * f
    BY <2>1, <2>3, <1>0
  <2> HIDE DEF m, z, e, f, n
  <2>6. ASSUME NEW g \in Int, NEW h \in Int, g > Radius, h > Radius
        PROVE  m * g + k * h > Radius * n
    <3>1. m * g >= m * (Radius + 1) /\ k * h >= k * (Radius + 1)
      BY <2>5, <2>6, <1>0
    <3>2. m * (Radius + 1) + k * (Radius + 1) = Radius * n + n
      BY <2>5, <1>0
    <3>3. m * g \in Int /\ k * h \in Int /\ m * (Radius + 1) \in Int /\ k * (Radius + 1) \in Int /\ Radius * n \in Int
      BY <2>5, <1>0
    <3> QED
      BY <3>1, <3>2, <3>3, <1>0
  <2>7. CASE e > Radius /\ f > Radius
    <3>1. z > Radius * n
      BY <2>2, <2>5, <2>6, <2>7
    <3> QED
      BY <3>1 DEF z
  <2>8. CASE e < -Radius /\ f < -Radius
    <3>1. -e \in Int /\ -f \in Int /\ -e > Radius /\ -f > Radius
      BY <2>2, <2>8, <1>0
    <3>2. m * (-e) + k * (-f) > Radius * n
      BY <3>1, <2>6
    <3>3. m * (-e) + k * (-f) = -z
      BY <2>5, <2>2
    <3>4. -z > Radius * n /\ z \in Int /\ Radius * n \in Int
      BY <3>2, <3>3, <2>5, <2>2, <1>0
    <3>5. z < -(Radius * n)
      BY <3>4
    <3> QED
      BY <3>5 DEF z
  <2> QED
    BY <2>4, <2>7, <2>8
<1>6. off(1) \in Int /\ off(2) \in Int /\ off(c) \in Int
  <2>1. a[1] \in Int /\ a[2] \in Int /\ b[1] \in Int /\ b[2] \in Int /\ s[1] \in Int /\ s[2] \in Int
    BY <1>1, PlaneTyped
  <2>2. \A j, l, x, y, z \in Int : ((j - l) * x + l * y) - j * z \in Int
    OBVIOUS
  <2>3. n \in Int /\ k \in Int
    BY <1>0
  <2>4. off(1) \in Int
    BY <2>1, <2>2, <2>3
  <2>5. off(2) \in Int
    BY <2>1, <2>2, <2>3
  <2> HIDE DEF off
  <2> QED
    BY <2>4, <2>5
<1>7. Norm2(To(A, p)) = off(1) * off(1) + off(2) * off(2)
  <2>2. p = <<(n - k) * a[1] + k * b[1], (n - k) * a[2] + k * b[2]>> /\ A = <<n * s[1], n * s[2]>>
    BY DEF Between, Enlarged
  <2>3. /\ p[1] = (n - k) * a[1] + k * b[1] /\ p[2] = (n - k) * a[2] + k * b[2]
        /\ A[1] = n * s[1] /\ A[2] = n * s[2]
    BY <2>2
  <2> HIDE DEF p, A
  <2>4. To(A, p) = <<p[1] - A[1], p[2] - A[2]>>
    BY DEF To
  <2>5. p[1] - A[1] = off(1) /\ p[2] - A[2] = off(2)
    BY <2>3
  <2> HIDE DEF off
  <2> QED
    BY <2>4, <2>5 DEF Norm2
<1>8. off(c) * off(c) > (Radius * n) * (Radius * n)
  <2> DEFINE z == off(c)
             r == Radius * n
  <2>1. z \in Int /\ r \in Nat /\ (z > r \/ z < -r)
    BY <1>5, <1>6, <1>0
  <2> HIDE DEF z, r
  <2>2. z * z > r * r
    BY <2>1, SquareBeyond
  <2> QED
    BY <2>2 DEF z, r
<1>9. (Radius * n) * (Radius * n) = Radius * Radius * (n * n)
  BY <1>0
<1> DEFINE z1 == off(1)
           z2 == off(2)
<1>10. z1 \in Int /\ z2 \in Int /\ (off(c) = z1 \/ off(c) = z2)
  BY <1>6
<1> HIDE DEF off, z1, z2
<1>11. z1 * z1 >= 0 /\ z2 * z2 >= 0 /\ z1 * z1 \in Int /\ z2 * z2 \in Int
  BY <1>10
<1>12. z1 * z1 + z2 * z2 > Radius * Radius * (n * n)
  <2>1. z1 * z1 > Radius * Radius * (n * n) \/ z2 * z2 > Radius * Radius * (n * n)
    BY <1>8, <1>9, <1>10
  <2>2. Radius * Radius * (n * n) \in Int
    BY <1>0
  <2> QED
    BY <2>1, <2>2, <1>11
<1> QED
  BY <1>7, <1>12 DEF z1, z2

\* The points of a line are those of its segments.
LEMMA AlongEach ==
    ASSUME NEW line, NEW s, NEW far,
           \A i \in 1 .. Len(line) - 1, k \in 0 .. Samples :
             Norm2(To(s, Between(line[i], line[i + 1], <<k, Samples>>))) > far
    PROVE  \A p \in Along(line) : Norm2(To(s, p)) > far
<1> TAKE p \in Along(line)
<1>1. \E i \in 1 .. Len(line) - 1 : \E k \in 0 .. Samples : p = Between(line[i], line[i + 1], <<k, Samples>>)
  BY DEF Along
<1>3. PICK i \in 1 .. Len(line) - 1 : \E k \in 0 .. Samples : p = Between(line[i], line[i + 1], <<k, Samples>>)
  BY <1>1
<1>4. PICK k \in 0 .. Samples : p = Between(line[i], line[i + 1], <<k, Samples>>)
  BY <1>3
<1>2. Norm2(To(s, Between(line[i], line[i + 1], <<k, Samples>>))) > far
  OBVIOUS
<1> QED
  BY <1>4, <1>2

\* A wire that is not among the nearest first is far, or the answer is full of nearer ones.
LEMMA WiresAnswered ==
    ASSUME NEW s \in Plane, NEW order,
           order \in SetToSeqs({w \in Wires : MeetsBox(s, ToSet(w)) /\ Within(NearestPoint(s, w), Radius)}),
           NearestFirst(s, order),
           NEW w \in Wires, w \notin ToSet(SubSeq(order, 1, Min({MaxShown, Len(order)})))
    PROVE  \/ \A p \in Along(w) : Norm2(To(Enlarged(s, Samples), p)) > Radius * Radius * (Samples * Samples)
           \/ /\ Len(SubSeq(order, 1, Min({MaxShown, Len(order)}))) = MaxShown
              /\ \A v \in ToSet(SubSeq(order, 1, Min({MaxShown, Len(order)}))) :
                   ~Before(NearestPoint(s, w), NearestPoint(s, v))
<1> DEFINE found == {x \in Wires : MeetsBox(s, ToSet(x)) /\ Within(NearestPoint(s, x), Radius)}
           m == Min({MaxShown, Len(order)})
           answer == SubSeq(order, 1, m)
<1>0. w \in Seq(Plane) /\ Len(w) >= 2 /\ Samples \in Nat \ {0} /\ Radius \in Nat /\ MaxShown \in Nat
  BY WiresTyped, HazardAssumption, SurroundingsAssumption
<1>1. CASE w \in found
  <2>1. IsFiniteSet(found)
    <3>1. IsFiniteSet(Wires) /\ found \in SUBSET Wires
      BY SurroundingsAssumption
    <3> HIDE DEF found
    <3> QED
      BY <3>1, FS_Subset
  <2>2. order \in Seq(found) /\ \A x \in found : \E i \in DOMAIN order : order[i] = x
    <3>1. order \in SetToSeqs(found)
      OBVIOUS
    <3> HIDE DEF found
    <3> QED
      BY <2>1, <3>1, OrdersAreWhole
  <2>3. PICK j \in DOMAIN order : order[j] = w
    BY <2>2, <1>1
  <2>4. Len(order) \in Nat /\ DOMAIN order = 1 .. Len(order)
    <3> HIDE DEF found
    <3> QED
      BY <2>2, LenProperties
  <2>5. m \in {MaxShown, Len(order)} /\ m <= MaxShown /\ m <= Len(order) /\ m \in Nat
    <3>1. {MaxShown, Len(order)} \in SUBSET Nat /\ {MaxShown, Len(order)} # {}
      BY <2>4, <1>0
    <3>2. m \in {MaxShown, Len(order)} /\ \A x \in {MaxShown, Len(order)} : m <= x
      BY <3>1, LeastOfSome
    <3> HIDE DEF m
    <3> QED
      BY <3>2, <2>4, <1>0
  <2> DEFINE total == Len(order)
  <2>10. total \in Nat /\ m \in Nat /\ m <= total /\ m <= MaxShown /\ (m = MaxShown \/ m = total) /\ DOMAIN order = 1 .. total
    <3> HIDE DEF m
    <3> QED
      BY <2>4, <2>5
  <2> HIDE DEF m, found, total
  <2>6. Len(answer) = m /\ DOMAIN answer = 1 .. m /\ \A i \in 1 .. m : answer[i] = order[i]
    <3>1. m \in 0 .. total
      BY <2>10
    <3>2. CASE m = 0
      <4>1. answer = <<>>
        BY <3>2, <2>2, <2>4 DEF answer
      <4> QED
        BY <4>1, <3>2
    <3>3. CASE m # 0
      <4>1. m \in Int /\ 1 \in Int /\ 1 <= m /\ \A i \in 1 .. m : order[i] \in found
        <5>1. \A i \in 1 .. m : i \in 1 .. total
          BY <2>10
        <5> QED
          BY <5>1, <2>2, <2>10, <3>3
      <4>2. Len(answer) = m - 1 + 1 /\ answer \in Seq(found) /\ \A i \in 1 .. m - 1 + 1 : answer[i] = order[1 + i - 1]
        BY <4>1, SubSeqProperties DEF answer
      <4>3. DOMAIN answer = 1 .. Len(answer)
        BY <4>2, LenProperties
      <4>4. m - 1 + 1 = m /\ \A i \in 1 .. m : 1 + i - 1 = i
        BY <4>1
      <4> HIDE DEF answer
      <4> QED
        BY <4>2, <4>3, <4>4
    <3> QED
      BY <3>2, <3>3
  <2>7. j > m
    <3>1. ASSUME j <= m PROVE FALSE
      <4>1. j \in 1 .. m
        BY <3>1, <2>3, <2>10
      <4>2. answer[j] = w
        BY <4>1, <2>6, <2>3
      <4>3. w \in ToSet(answer)
        BY <4>1, <4>2, <2>6 DEF ToSet
      <4> QED
        BY <4>3 DEF m
    <3> QED
      BY <3>1, <2>3, <2>10
  <2>8. m = MaxShown
    BY <2>3, <2>7, <2>10
  <2>9. ASSUME NEW v \in ToSet(answer) PROVE ~Before(NearestPoint(s, w), NearestPoint(s, v))
    <3>1. PICK i \in 1 .. m : v = order[i]
      BY <2>6 DEF ToSet
    <3>2. i \in DOMAIN order /\ j \in DOMAIN order /\ i < j
      BY <2>3, <2>7, <2>10
    <3> QED
      BY <3>1, <3>2, <2>3 DEF NearestFirst
  <2> QED
    BY <2>6, <2>8, <2>9 DEF m
<1>2. CASE ~MeetsBox(s, ToSet(w))
  <2>1. ASSUME NEW i \in 1 .. Len(w) - 1, NEW k \in 0 .. Samples
        PROVE  Norm2(To(Enlarged(s, Samples), Between(w[i], w[i + 1], <<k, Samples>>))) > Radius * Radius * (Samples * Samples)
    BY <1>0, <1>2, OutOfTheBox
  <2> QED
    BY <2>1, AlongEach
<1>3. CASE ~Within(NearestPoint(s, w), Radius)
  <2>1. ASSUME NEW i \in 1 .. Len(w) - 1, NEW k \in 0 .. Samples
        PROVE  Norm2(To(Enlarged(s, Samples), Between(w[i], w[i + 1], <<k, Samples>>))) > Radius * Radius * (Samples * Samples)
    <3> DEFINE d == Distance2(s, w[i], w[i + 1])
               e == NearestPoint(s, w)
               N == Norm2(To(Enlarged(s, Samples), Between(w[i], w[i + 1], <<k, Samples>>)))
    <3>1. w[i] \in Plane /\ w[i + 1] \in Plane
      <4>1. i \in 1 .. Len(w) /\ i + 1 \in 1 .. Len(w)
        BY <1>0
      <4> QED
        BY <4>1, <1>0, LenProperties
    <3>2. d \in Nat \X (Nat \ {0}) /\ N * d[2] >= (Samples * Samples) * d[1]
      BY <3>1, <1>0, PointsAreNoNearer
    <3>3. ~Before(d, e) /\ e \in Fraction
      BY <1>0, EdgesTyped
    <3>4. N \in Int
      <4>1. Enlarged(s, Samples) \in Plane
        BY <1>0, EnlargedTyped
      <4>2. Between(w[i], w[i + 1], <<k, Samples>>) \in Plane
        BY <1>0, <3>1, BetweenTyped
      <4> DEFINE A == Enlarged(s, Samples)
                 p == Between(w[i], w[i + 1], <<k, Samples>>)
      <4>3. A[1] \in Int /\ A[2] \in Int /\ p[1] \in Int /\ p[2] \in Int
        BY <4>1, <4>2, PlaneTyped
      <4> HIDE DEF A, p
      <4>4. Norm2(To(A, p)) \in Int
        BY <4>3 DEF Norm2, To
      <4> QED
        BY <4>4 DEF A, p
    <3> DEFINE d1 == d[1]
               d2 == d[2]
               e1 == e[1]
               e2 == e[2]
    <3>5. d1 \in Nat /\ d2 \in Nat \ {0} /\ e1 \in Int /\ e2 \in Nat \ {0}
      BY <3>2, <3>3 DEF Fraction
    <3>6. e1 > (Radius * Radius) * e2
      BY <1>3, <1>0, <3>5 DEF Within
    <3>7. d1 * e2 >= e1 * d2
      BY <3>3, <3>5 DEF Before
    <3>8. N * d2 >= (Samples * Samples) * d1
      BY <3>2
    <3> DEFINE q == Radius * Radius
               n == Samples * Samples
    <3>9. q \in Nat /\ n \in Nat \ {0}
      BY <1>0
    <3> HIDE DEF d, e, N, d1, d2, e1, e2, q, n
    <3>10. d1 > q * d2
      <4>1. e1 * d2 > (q * e2) * d2
        BY <3>5, <3>6, <3>9 DEF q
      <4>2. d1 * e2 > (q * d2) * e2
        BY <4>1, <3>7, <3>5, <3>9
      <4>3. q * d2 \in Int
        BY <3>5, <3>9
      <4> QED
        BY <4>2, <4>3, <3>5
    <3>11. n * d1 > n * (q * d2)
      <4>1. q * d2 \in Int
        BY <3>5, <3>9
      <4> QED
        BY <4>1, <3>5, <3>9, <3>10
    <3>12. N * d2 > (q * n) * d2
      BY <3>11, <3>8, <3>4, <3>5, <3>9 DEF n
    <3>13. N > q * n
      <4>1. q * n \in Int
        BY <3>9
      <4> QED
        BY <3>12, <3>4, <3>5, <4>1
    <3> QED
      BY <3>13 DEF N, q, n
  <2> QED
    BY <2>1, AlongEach
<1> QED
  BY <1>1, <1>2, <1>3

\* A crossed side is straddled, and no end of it that is crossed is all to the left.
LEMMA CrossedMeans ==
    ASSUME NEW p \in Plane, NEW c \in Plane, NEW d \in Plane
    PROVE  /\ RayCrosses(p, c, d) => ~(c[2] > p[2] <=> d[2] > p[2]) /\ (c[1] > p[1] \/ d[1] > p[1])
           /\ c[1] > p[1] /\ d[1] > p[1] => (RayCrosses(p, c, d) <=> ~(c[2] > p[2] <=> d[2] > p[2]))
<1> DEFINE u == p[1] - c[1]
           v == p[2] - c[2]
           x == d[1] - c[1]
           y == d[2] - c[2]
<1>1. p[1] \in Int /\ p[2] \in Int /\ c[1] \in Int /\ c[2] \in Int /\ d[1] \in Int /\ d[2] \in Int
  BY PlaneTyped
<1>2. u \in Int /\ v \in Int /\ x \in Int /\ y \in Int
  BY <1>1
<1>3. RayCrosses(p, c, d) <=> /\ ~(v < 0 <=> v < y)
                              /\ IF y > 0 THEN u * y < x * v ELSE u * y > x * v
  <2>1. RayCrosses(p, c, d) <=> /\ ~(c[2] > p[2] <=> d[2] > p[2])
                                /\ IF d[2] > c[2] THEN u * y < x * v ELSE u * y > x * v
    BY DEF RayCrosses
  <2>2. (c[2] > p[2] <=> v < 0) /\ (d[2] > p[2] <=> v < y) /\ (d[2] > c[2] <=> y > 0)
    BY <1>1
  <2> HIDE DEF u, v, x, y
  <2> QED
    BY <2>1, <2>2
<1>4. (c[2] > p[2] <=> v < 0) /\ (d[2] > p[2] <=> v < y) /\ (c[1] > p[1] <=> u < 0) /\ (d[1] > p[1] <=> u < x)
  BY <1>1
<1> HIDE DEF u, v, x, y
<1>5. ASSUME ~(v < 0 <=> v < y), IF y > 0 THEN u * y < x * v ELSE u * y > x * v, u >= 0, u >= x
      PROVE  FALSE
  <2>1. CASE v >= 0 /\ v < y
    <3>1. u * y >= u * v /\ u * v >= x * v
      BY <2>1, <1>2, <1>5
    <3>2. u * y \in Int /\ u * v \in Int /\ x * v \in Int
      BY <1>2
    <3> QED
      BY <3>1, <3>2, <2>1, <1>2, <1>5
  <2>2. CASE v < 0 /\ v >= y
    <3>1. u * y <= u * v /\ u * v <= x * v
      BY <2>2, <1>2, <1>5
    <3>2. u * y \in Int /\ u * v \in Int /\ x * v \in Int
      BY <1>2
    <3> QED
      BY <3>1, <3>2, <2>2, <1>2, <1>5
  <2> QED
    BY <2>1, <2>2, <1>2, <1>5
<1>6. ASSUME ~(v < 0 <=> v < y), u < 0, u < x
      PROVE  IF y > 0 THEN u * y < x * v ELSE u * y > x * v
  <2>1. CASE v >= 0 /\ v < y
    <3>1. u * y <= u * v /\ u * v <= x * v
      BY <2>1, <1>2, <1>6
    <3>2. u * y < u * v
      BY <2>1, <1>2, <1>6
    <3>3. u * y \in Int /\ u * v \in Int /\ x * v \in Int
      BY <1>2
    <3> QED
      BY <3>1, <3>2, <3>3, <2>1, <1>2
  <2>2. CASE v < 0 /\ v >= y
    <3>1. u * y >= u * v
      BY <2>2, <1>2, <1>6
    <3>2. u * v > x * v
      BY <2>2, <1>2, <1>6
    <3>3. u * y \in Int /\ u * v \in Int /\ x * v \in Int
      BY <1>2
    <3> QED
      BY <3>1, <3>2, <3>3, <2>2, <1>2
  <2> QED
    BY <2>1, <2>2, <1>2, <1>6
<1> QED
  BY <1>2, <1>3, <1>4, <1>5, <1>6

\* A place inside a ring has points of the ring on either side of it, along each axis.
LEMMA RingAround ==
    ASSUME NEW p \in Plane, NEW ring \in Seq(Plane), InRing(p, ring), NEW c \in {1, 2}
    PROVE  /\ \E q \in ToSet(ring) : q[c] <= p[c]
           /\ \E q \in ToSet(ring) : q[c] >= p[c]
<1> DEFINE n == Len(ring)
           U == {i \in DOMAIN ring : RayCrosses(p, Preceding(ring, i), ring[i])}
<1>1. n \in Nat /\ DOMAIN ring = 1 .. n /\ \A i \in 1 .. n : ring[i] \in Plane /\ ring[i] \in ToSet(ring)
  BY LenProperties DEF ToSet
<1>2. Cardinality(U) % 2 = 1
  BY DEF InRing
<1>3. PICK i \in 1 .. n : RayCrosses(p, Preceding(ring, i), ring[i])
  <2>1. U # {}
    <3>1. ASSUME U = {} PROVE FALSE
      <4>1. Cardinality(U) = 0
        BY <3>1, FS_EmptySet
      <4> HIDE DEF U
      <4> QED
        BY <4>1, <1>2
    <3> QED
      BY <3>1
  <2> QED
    BY <2>1, <1>1
<1> DEFINE j == IF i = 1 THEN n ELSE i - 1
<1>4. j \in 1 .. n /\ Preceding(ring, i) = ring[j]
  BY <1>1 DEF Preceding
<1>5. /\ ~(ring[j][2] > p[2] <=> ring[i][2] > p[2])
      /\ ring[j][1] > p[1] \/ ring[i][1] > p[1]
  BY <1>1, <1>3, <1>4, CrossedMeans
<1>6. /\ ring[i] \in ToSet(ring) /\ ring[j] \in ToSet(ring)
      /\ p[1] \in Int /\ p[2] \in Int /\ ring[i][1] \in Int /\ ring[i][2] \in Int /\ ring[j][1] \in Int /\ ring[j][2] \in Int
  BY <1>1, <1>4, PlaneTyped
<1> HIDE DEF j
<1>7. CASE c = 2
  <2>1. \/ ring[j][2] > p[2] /\ ring[i][2] <= p[2]
        \/ ring[i][2] > p[2] /\ ring[j][2] <= p[2]
    BY <1>5, <1>6
  <2>2. ring[j][2] > p[2] => ring[j][2] >= p[2]
    BY <1>6
  <2>3. ring[i][2] > p[2] => ring[i][2] >= p[2]
    BY <1>6
  <2> QED
    BY <2>1, <2>2, <2>3, <1>6, <1>7
<1>8. CASE c = 1
  <2>1. \E q \in ToSet(ring) : q[1] >= p[1]
    <3>1. ring[j][1] >= p[1] \/ ring[i][1] >= p[1]
      BY <1>5, <1>6
    <3> QED
      BY <3>1, <1>6
  <2>2. ASSUME ~ \E q \in ToSet(ring) : q[1] <= p[1] PROVE FALSE
    <3>1. \A l \in 1 .. n : ring[l][1] > p[1]
      <4> TAKE l \in 1 .. n
      <4>1. ring[l] \in ToSet(ring) /\ ring[l][1] \in Int /\ p[1] \in Int
        BY <1>1, <1>6, PlaneTyped
      <4>2. ~(ring[l][1] <= p[1])
        BY <4>1, <2>2
      <4> QED
        BY <4>1, <4>2
    <3> DEFINE b == [l \in 1 .. n |-> ring[l][2] > p[2]]
               round == {l \in 1 .. n : ~(b[IF l = 1 THEN n ELSE l - 1] <=> b[l])}
    <3>2. b \in [1 .. n -> BOOLEAN]
      OBVIOUS
    <3>3. Cardinality(round) % 2 = 0
      <4> HIDE DEF b, n
      <4> QED
        BY <1>1, <3>2, EvenRound
    <3>4. ASSUME NEW l \in 1 .. n
          PROVE  RayCrosses(p, Preceding(ring, l), ring[l]) <=> l \in round
      <4> DEFINE h == IF l = 1 THEN n ELSE l - 1
      <4>1. h \in 1 .. n /\ Preceding(ring, l) = ring[h]
        BY <1>1 DEF Preceding
      <4>2. RayCrosses(p, ring[h], ring[l]) <=> ~(ring[h][2] > p[2] <=> ring[l][2] > p[2])
        BY <4>1, <1>1, <3>1, CrossedMeans
      <4>3. b[h] = (ring[h][2] > p[2]) /\ b[l] = (ring[l][2] > p[2])
        BY <4>1
      <4>4. l \in round <=> ~(b[h] <=> b[l])
        OBVIOUS
      <4> QED
        BY <4>1, <4>2, <4>3, <4>4
    <3>5. U = round
      BY <3>4, <1>1
    <3> HIDE DEF U, round
    <3> QED
      BY <3>3, <3>5, <1>2
  <2> QED
    BY <2>1, <2>2, <1>8
<1> QED
  BY <1>7, <1>8

\* A window that holds a place inside an airspace meets what is drawn of it.
LEMMA WindowMeets ==
    ASSUME NEW polygons \in Outlines, NEW rings \in polygons, NEW p \in Plane, InPolygon(p, rings),
           NEW low \in Plane, NEW high \in Plane, \A c \in {1, 2} : p[c] \in low[c] .. high[c]
    PROVE  Meets(UNION {ToSet(ring) : ring \in RingsOf(polygons)}, low, high)
<1> DEFINE points == UNION {ToSet(ring) : ring \in RingsOf(polygons)}
           P == Seq(Seq(Plane))
<1>1. IsFiniteSet(polygons) /\ polygons \subseteq P \ {<<>>}
  BY SurroundingsAssumption DEF Plane
<1>2. ASSUME NEW r \in polygons
      PROVE  IsFiniteSet(ToSet(r)) /\ ToSet(r) \subseteq Seq(Plane)
  <2>1. r \in Seq(Seq(Plane))
    BY <1>1
  <2>2. DOMAIN r = 1 .. Len(r) /\ Len(r) \in Nat /\ \A h \in DOMAIN r : r[h] \in Seq(Plane)
    BY <2>1, LenProperties
  <2>3. IsFiniteSet(DOMAIN r)
    BY <2>2, FS_Interval
  <2> QED
    BY <2>2, <2>3, ImagesAreFinite DEF ToSet
<1>3. IsFiniteSet(RingsOf(polygons)) /\ RingsOf(polygons) \subseteq Seq(Plane)
  <2> DEFINE f == [r \in polygons |-> ToSet(r)]
  <2>1. IsFiniteSet({f[r] : r \in polygons})
    <3> HIDE DEF f
    <3> QED
      BY <1>1, ImagesAreFinite
  <2>2. RingsOf(polygons) = UNION {f[r] : r \in polygons}
    BY DEF RingsOf
  <2>3. \A t \in {f[r] : r \in polygons} : IsFiniteSet(t) /\ t \subseteq Seq(Plane)
    BY <1>2
  <2> HIDE DEF f
  <2> QED
    BY <2>1, <2>2, <2>3, FS_UNION
<1>4. IsFiniteSet(points) /\ points \in SUBSET Plane
  <2> DEFINE f == [ring \in RingsOf(polygons) |-> ToSet(ring)]
  <2>1. IsFiniteSet({f[ring] : ring \in RingsOf(polygons)})
    <3> HIDE DEF f
    <3> QED
      BY <1>3, ImagesAreFinite
  <2>2. points = UNION {f[ring] : ring \in RingsOf(polygons)}
    OBVIOUS
  <2>3. \A t \in {f[ring] : ring \in RingsOf(polygons)} : IsFiniteSet(t) /\ t \subseteq Plane
    BY <1>3, PointsAreFinite
  <2> HIDE DEF f, points
  <2> QED
    BY <2>1, <2>2, <2>3, FS_UNION
<1>5. rings[1] \in Seq(Plane) /\ InRing(p, rings[1]) /\ ToSet(rings[1]) \subseteq points
  <2>1. rings \in Seq(Seq(Plane)) /\ rings # <<>>
    BY <1>1
  <2>2. DOMAIN rings = 1 .. Len(rings) /\ Len(rings) \in Nat /\ Len(rings) # 0
    BY <2>1, LenProperties, EmptySeq
  <2>3. 1 \in DOMAIN rings
    BY <2>2
  <2>4. rings[1] \in Seq(Plane) /\ rings[1] \in RingsOf(polygons)
    BY <2>1, <2>3, LenProperties DEF RingsOf, ToSet
  <2> QED
    BY <2>4 DEF InPolygon
<1> HIDE DEF points
<1>6. ASSUME NEW c \in {1, 2}
      PROVE  Lowest(points, c) <= high[c] /\ Highest(points, c) >= low[c]
  <2>1. p[c] \in Int /\ low[c] \in Int /\ high[c] \in Int
    BY DEF Plane
  <2>2. PICK q \in ToSet(rings[1]) : q[c] <= p[c]
    BY <1>5, RingAround
  <2>3. PICK r \in ToSet(rings[1]) : r[c] >= p[c]
    BY <1>5, RingAround
  <2>4. q \in points /\ r \in points /\ q[c] \in Int /\ r[c] \in Int
    BY <1>4, <1>5 DEF Plane
  <2>5. /\ Lowest(points, c) \in Int /\ Lowest(points, c) <= q[c]
        /\ Highest(points, c) \in Int /\ r[c] <= Highest(points, c)
    BY <1>4, <2>4, SpanOf
  <2> QED
    BY <2>1, <2>2, <2>3, <2>4, <2>5
<1> QED
  BY <1>6 DEF Meets, points

\* The inductive invariant of what lies around.
AroundInv == outline \in Outlines /\ WiresAreTold /\ WindowsAreWhole

\* Every question is answered so.
LEMMA AroundKept == AroundInv /\ [AroundNext]_aroundVars => AroundInv'
<1> SUFFICES ASSUME AroundInv, [AroundNext]_aroundVars PROVE AroundInv'
  OBVIOUS
<1>1. CASE ImportArea
  BY <1>1 DEF AroundInv, ImportArea, WiresAreTold, WindowsAreWhole
<1>2. ASSUME NEW s \in Spots, FindProtectedAreasNear(s) PROVE AroundInv'
  BY <1>2 DEF AroundInv, FindProtectedAreasNear, AskedAt, WiresAreTold, WindowsAreWhole
<1>3. ASSUME NEW s \in Spots, FindAerialLinesNear(s) PROVE AroundInv'
  <2>1. /\ asked' = "wires" /\ spot' = s /\ outline' = outline
        /\ \E order \in SetToSeqs({w \in Wires : MeetsBox(s, ToSet(w)) /\ Within(NearestPoint(s, w), Radius)}) :
             NearestFirst(s, order) /\ told' = SubSeq(order, 1, Min({MaxShown, Len(order)}))
    BY <1>3 DEF FindAerialLinesNear, AskedAt
  <2>2. PICK order \in SetToSeqs({w \in Wires : MeetsBox(s, ToSet(w)) /\ Within(NearestPoint(s, w), Radius)}) :
          NearestFirst(s, order) /\ told' = SubSeq(order, 1, Min({MaxShown, Len(order)}))
    BY <2>1
  <2>3. s \in Plane
    BY SurroundingsAssumption DEF Plane
  <2>4. ASSUME NEW w \in Wires, w \notin ToSet(told')
        PROVE  \/ \A p \in Along(w) : Norm2(To(Enlarged(s, Samples), p)) > Radius * Radius * (Samples * Samples)
               \/ /\ Len(told') = MaxShown
                  /\ \A v \in ToSet(told') : ~Before(NearestPoint(s, w), NearestPoint(s, v))
    BY <2>2, <2>3, <2>4, WiresAnswered
  <2>5. WiresAreTold'
    BY <2>1, <2>4 DEF WiresAreTold
  <2>6. WindowsAreWhole'
    BY <2>1 DEF WindowsAreWhole
  <2> QED
    BY <2>1, <2>5, <2>6 DEF AroundInv
<1>4. ASSUME NEW w \in Windows, FindByBbox(w) PROVE AroundInv'
  <2>1. /\ asked' = "window" /\ spot' = w /\ outline' = outline
        /\ Meets(UNION {ToSet(ring) : ring \in RingsOf(outline)}, w[1], w[2]) => told' = <<w>>
    BY <1>4 DEF FindByBbox, AskedAt
  <2>2. w[1] \in Plane /\ w[2] \in Plane /\ Spots \subseteq Plane /\ outline \in Outlines
    BY SurroundingsAssumption DEF Plane, AroundInv
  <2>3. ASSUME NEW p \in Spots, \E rings \in outline : InPolygon(p, rings),
               \A c \in {1, 2} : p[c] \in w[1][c] .. w[2][c]
        PROVE  told' # <<>>
    <3>1. PICK rings \in outline : InPolygon(p, rings)
      BY <2>3
    <3>2. Meets(UNION {ToSet(ring) : ring \in RingsOf(outline)}, w[1], w[2])
      BY <2>2, <2>3, <3>1, WindowMeets
    <3> QED
      BY <3>2, <2>1
  <2>4. WindowsAreWhole'
    BY <2>1, <2>3 DEF WindowsAreWhole
  <2>5. WiresAreTold'
    BY <2>1 DEF WiresAreTold
  <2> QED
    BY <2>1, <2>2, <2>4, <2>5 DEF AroundInv
<1>5. CASE UNCHANGED aroundVars
  BY <1>5 DEF AroundInv, aroundVars, WiresAreTold, WindowsAreWhole
<1> QED
  BY <1>1, <1>2, <1>3, <1>4, <1>5 DEF AroundNext

\* For any wires and places, a wire with a point within the radius is told unless the answer is
\* full of wires no farther (findAerialLinesNear); for any airspaces, a window that shows a
\* place inside of one is given it (findByBbox).
THEOREM AroundStaysTold == AroundSpec => [](WiresAreTold /\ WindowsAreWhole)
<1>1. AroundInit => AroundInv
  BY DEF AroundInit, AroundInv, WiresAreTold, WindowsAreWhole
<1>2. AroundInv => WiresAreTold /\ WindowsAreWhole
  BY DEF AroundInv
<1> QED
  BY <1>1, <1>2, AroundKept, PTL DEF AroundSpec

-----------------------------------------------------------------------------
(* What a pilot is told of the way and of the surroundings *)

\* The hazards of a route (planner/route-hazards.ts), the places near an aerodrome
\* (transport.service.ts, restaurant.service.ts), the wires near it and the airspaces of a
\* window (aerodrome.service.ts, airspace.service.ts): for any polygons, routes, wires,
\* places and rules, a route inside an airspace has been seen to enter it, where it is
\* said to enter it does, and nothing near is left out.
THEOREM SurroundingsStayTold ==
    HazardSpec /\ StopoversSpec /\ AroundSpec => []SurroundingsAreTold
<1>1. EntriesAreRight /\ ObstaclesAreAsked /\ PlacesAreRight /\ (WiresAreTold /\ WindowsAreWhole)
        => SurroundingsAreTold
  BY DEF SurroundingsAreTold, HazardsAreSeen
<1> QED
  BY <1>1, EntriesStayRight, ObstaclesAreAlwaysAsked, PlacesStayRight, AroundStaysTold, PTL

=============================================================================
