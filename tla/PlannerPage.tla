----------------------------- MODULE PlannerPage -----------------------------
(***************************************************************************)
(* The page of the trip planner (planner/page.tsx): the profile and the    *)
(* departure a calculation needs, the searches that are saved, applied and *)
(* replayed from an address, and the calculations under way.               *)
(*                                                                         *)
(* Applying a search sets what it can at once and the departure when its   *)
(* aerodrome has been fetched; meanwhile the member goes on, the home      *)
(* aerodrome and the profiles arrive, and other searches are applied.      *)
(***************************************************************************)
EXTENDS Naturals

CONSTANTS
    Departure, \* aerodromes
    Aircraft,  \* profiles, numbered in the order of the list
    Setting,   \* mode, scope, limits, filters: what a search keeps as it is
    Applying,  \* calls of applySavedPlannerSearch at once
    Calculation, \* and of handleCalculate
    Unset      \* null

ASSUME AircraftAssumption == Aircraft \subseteq Nat /\ Aircraft # {} /\ Unset \notin Aircraft \cup Departure

ASSUME SettingAssumption == Setting # {}

VARIABLES
    inputs,      \* what the page holds
    home,        \* the member's home aerodrome, and whether it was fetched
    hangar,      \* the profiles on the server, and those the page knows
    apply,       \* calls that wait for a departure, and for which
    calculation, \* calculations under way, and of what
    calculating, \* isCalculating
    results,     \* the inputs that the results are for
    kept,        \* a saved search
    last,        \* history: the inputs of the calculation that was asked for last
    applied,     \* history: the search applied last, unless the page was changed since
    crossed      \* history: it was applied while an older search waited for its departure

plannerPageVars == <<inputs, home, hangar, apply, calculation, calculating, results, kept,
                     last, applied, crossed>>

Inputs == [setting : Setting, departure : Departure \cup {Unset}, profile : Aircraft \cup {Unset}]

PlannerPageTypeOK ==
    /\ inputs \in Inputs
    /\ home \in [is : Departure \cup {Unset}, here : BOOLEAN]
    /\ hangar \in [stored : SUBSET Aircraft, listed : SUBSET Aircraft]
    /\ apply \in [Applying -> Departure \cup {Unset}]
    /\ calculation \in [Calculation -> Inputs \cup {Unset}]
    /\ calculating \in BOOLEAN
    /\ results \in Inputs \cup {Unset} /\ last \in Inputs \cup {Unset}
    /\ kept \in Inputs \cup {Unset} /\ applied \in Inputs \cup {Unset}
    /\ crossed \in BOOLEAN

NoInputs == [setting |-> CHOOSE s \in Setting : TRUE, departure |-> Unset, profile |-> Unset]

First(S) == CHOOSE p \in S : \A q \in S : p <= q

PlannerPageInit ==
    /\ inputs = NoInputs
    /\ home \in [is : Departure \cup {Unset}, here : {FALSE}]
    /\ hangar = [stored |-> {First(Aircraft)}, listed |-> {}]
    /\ apply = [a \in Applying |-> Unset]
    /\ calculation = [c \in Calculation |-> Unset]
    /\ calculating = FALSE
    /\ results = Unset /\ kept = Unset /\ last = Unset /\ applied = Unset
    /\ crossed = FALSE

\* The effect that selects a profile, in a page that knows the profiles in S.
Select(p, S) == IF p = Unset /\ S # {} THEN First(S) ELSE p

Waiting == \E a \in Applying : apply[a] # Unset

-----------------------------------------------------------------------------
(* What the page fetches by itself. *)

ProfilesArrive ==
    /\ hangar.listed # hangar.stored
    /\ hangar' = [hangar EXCEPT !.listed = hangar.stored]
    /\ inputs' = [inputs EXCEPT !.profile = Select(@, hangar.stored)]
    /\ UNCHANGED <<home, apply, calculation, calculating, results, kept, last, applied, crossed>>

\* The home aerodrome is the departure, unless there is one.
HomeArrives ==
    /\ home.is # Unset /\ ~home.here
    /\ home' = [home EXCEPT !.here = TRUE]
    /\ inputs' = [inputs EXCEPT !.departure = IF @ = Unset THEN home.is ELSE @]
    /\ UNCHANGED <<hangar, apply, calculation, calculating, results, kept, last, applied, crossed>>

\* The list is fetched again afterwards: until then the profile that is gone may
\* be the first, and is selected.
DeleteProfile(p) ==
    /\ p \in hangar.stored
    /\ hangar' = [hangar EXCEPT !.stored = @ \ {p}]
    /\ inputs' = [inputs EXCEPT !.profile = IF @ = p THEN Select(Unset, hangar.listed) ELSE @]
    /\ applied' = Unset
    /\ UNCHANGED <<home, apply, calculation, calculating, results, kept, last, crossed>>

-----------------------------------------------------------------------------
(* What the member enters. *)

ChangeSetting(s) ==
    /\ inputs' = [inputs EXCEPT !.setting = s]
    /\ applied' = Unset
    /\ UNCHANGED <<home, hangar, apply, calculation, calculating, results, kept, last, crossed>>

SelectProfile(p) ==
    /\ p \in hangar.listed
    /\ inputs' = [inputs EXCEPT !.profile = p]
    /\ applied' = Unset
    /\ UNCHANGED <<home, hangar, apply, calculation, calculating, results, kept, last, crossed>>

\* Selected before the list has it.
CreateProfile(p) ==
    /\ p \notin hangar.stored
    /\ hangar' = [hangar EXCEPT !.stored = @ \cup {p}]
    /\ inputs' = [inputs EXCEPT !.profile = p]
    /\ applied' = Unset
    /\ UNCHANGED <<home, apply, calculation, calculating, results, kept, last, crossed>>

\* Typing in the field takes the departure away, and leaves the results.
HandleSelectDeparture(d) ==
    /\ inputs' = [inputs EXCEPT !.departure = d]
    /\ applied' = Unset
    /\ UNCHANGED <<home, hangar, apply, calculation, calculating, results, kept, last, crossed>>

\* A calculation under way still brings its results.
HandleClearDeparture ==
    /\ inputs.departure # Unset
    /\ inputs' = [inputs EXCEPT !.departure = Unset]
    /\ results' = Unset
    /\ applied' = Unset
    /\ UNCHANGED <<home, hangar, apply, calculation, calculating, kept, last, crossed>>

-----------------------------------------------------------------------------
(* Saved searches. *)

\* buildPlannerSearchParams
SavePlannerSearch ==
    /\ kept' = inputs
    /\ UNCHANGED <<inputs, home, hangar, apply, calculation, calculating, results, last, applied, crossed>>

\* What an applied search leaves to be fetched is the departure.
RestoredWith(q, profile) == [inputs EXCEPT !.setting = q.setting, !.profile = profile]

\* Mutant: a profile that is selected stays.
RestoredForThisAircraft(q) == RestoredWith(q, IF inputs.profile # Unset THEN inputs.profile ELSE q.profile)

Restored(q) == RestoredWith(q, IF q.profile # Unset THEN q.profile ELSE inputs.profile)

ApplySaved(a, q) ==
    /\ apply[a] = Unset
    /\ inputs' = Restored(q)
    /\ apply' = [apply EXCEPT ![a] = q.departure]
    /\ applied' = q
    /\ crossed' = Waiting
    /\ UNCHANGED <<home, hangar, calculation, calculating, results, kept, last>>

\* Whatever the page holds by now.
DepartureArrives(a) ==
    /\ apply[a] # Unset
    /\ inputs' = [inputs EXCEPT !.departure = apply[a]]
    /\ apply' = [apply EXCEPT ![a] = Unset]
    /\ UNCHANGED <<home, hangar, calculation, calculating, results, kept, last, applied, crossed>>

DepartureFails(a) ==
    /\ apply[a] # Unset
    /\ inputs' = [inputs EXCEPT !.departure = Unset]
    /\ apply' = [apply EXCEPT ![a] = Unset]
    /\ applied' = Unset
    /\ UNCHANGED <<home, hangar, calculation, calculating, results, kept, last, crossed>>

-----------------------------------------------------------------------------
(* handleCalculate *)

Calculate(c) ==
    /\ inputs.profile # Unset /\ inputs.departure # Unset
    /\ calculation[c] = Unset
    /\ calculation' = [calculation EXCEPT ![c] = inputs]
    /\ calculating' = TRUE
    /\ last' = inputs
    /\ UNCHANGED <<inputs, home, hangar, apply, results, kept, applied, crossed>>

HandleCalculate(c) == ~calculating /\ Calculate(c)

\* The results stand until then; an error leaves none.
CalculationEnds(c) ==
    /\ calculation[c] # Unset
    /\ calculation' = [calculation EXCEPT ![c] = Unset]
    /\ calculating' = FALSE
    /\ results' \in {calculation[c], Unset}
    /\ UNCHANGED <<inputs, home, hangar, apply, kept, last, applied, crossed>>

\* The page is opened at an address that holds a search: what was under way on the
\* former page is for nobody.
OpenAt(a, q) ==
    /\ q.departure # Unset
    /\ inputs' = [Restored(q) EXCEPT !.departure = IF home.here THEN home.is ELSE Unset]
    /\ apply' = [b \in Applying |-> IF b = a THEN q.departure ELSE Unset]
    /\ calculation' = [c \in Calculation |-> Unset]
    /\ calculating' = FALSE
    /\ results' = Unset /\ last' = Unset
    /\ applied' = q
    /\ crossed' = FALSE
    /\ UNCHANGED <<home, hangar, kept>>

PlannerPageNext ==
    \/ ProfilesArrive \/ HomeArrives \/ HandleClearDeparture \/ SavePlannerSearch
    \/ \E p \in Aircraft : (DeleteProfile(p) \/ SelectProfile(p) \/ CreateProfile(p))
    \/ \E s \in Setting : ChangeSetting(s)
    \/ \E d \in Departure \cup {Unset} : HandleSelectDeparture(d)
    \/ \E a \in Applying : \/ DepartureArrives(a) \/ DepartureFails(a)
                           \/ kept # Unset /\ (ApplySaved(a, kept) \/ OpenAt(a, kept))
    \/ \E c \in Calculation : (HandleCalculate(c) \/ CalculationEnds(c))

PlannerPageSpec == PlannerPageInit /\ [][PlannerPageNext]_plannerPageVars

-----------------------------------------------------------------------------
(* Properties *)

\* The answers of two calculations could come in either order: the results are
\* those of the one that was asked for last, or there are none.
ResultsAreOfTheLastCalculation == ~calculating => results \in {last, Unset}

\* A search is applied in two steps, and the home aerodrome, the profiles and the
\* departure arrive in any order: when all is there, the page holds the search,
\* unless it was applied while another search still waited for its departure.
AppliedSearchIsWhole ==
    applied # Unset /\ ~Waiting /\ ~crossed =>
        /\ inputs.setting = applied.setting
        /\ applied.departure # Unset => inputs.departure = applied.departure
        /\ applied.profile # Unset => inputs.profile = applied.profile

\* Answers come in any order, and the page ends with what was asked for last.
PlannerShowsTheLast == ResultsAreOfTheLastCalculation /\ AppliedSearchIsWhole

=============================================================================
