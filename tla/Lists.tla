-------------------------------- MODULE Lists --------------------------------
(***************************************************************************)
(* The lists of one member (list.service.ts): the default one, made by the *)
(* first look at the lists, and those he makes, renames, fills and         *)
(* deletes.  Every handler reads, then writes by id; two constraints hold  *)
(* in between: one list of a name, one item of an aerodrome in a list.     *)
(***************************************************************************)
EXTENDS Integers, FiniteSets, Sequences

CONSTANTS
    List,     \* ids
    Visitor,  \* requests at once
    Label,    \* names of lists
    Favoris,  \* the name of the default one
    Place,    \* aerodromes
    Nothing

ASSUME FavorisAssumption == Favoris \in Label
ASSUME VisitorAssumption == IsFiniteSet(Visitor)
ASSUME NothingAssumption == Nothing \notin List \cup [name : Label, isDefault : BOOLEAN]

VARIABLES
    list,     \* [name, isDefault], or Nothing
    made,     \* ids in the order of createdAt
    items,    \* the items of each list
    task,     \* what each request is about to do
    rescued,  \* history: lists that became the default one after they were made
    seen      \* history: an answer without a default list

listsVars == <<list, made, items, task, rescued, seen>>

AtRest == [step |-> "idle", on |-> Nothing]

There(l) == list[l] # Nothing
Defaults == {l \in List : There(l) /\ list[l].isDefault}
Taken(n) == \E l \in List : There(l) /\ list[l].name = n

ListsInit ==
    /\ list = [l \in List |-> Nothing] /\ made = <<>>
    /\ items = [l \in List |-> {}]
    /\ task = [r \in Visitor |-> AtRest]
    /\ rescued = {} /\ seen = FALSE

About(r, step) == task[r].step = step
Proceed(r, step, l) == task' = [task EXCEPT ![r] = [step |-> step, on |-> l]]
Leave(r) == Proceed(r, "idle", Nothing)

\* create: refused by @@unique([userId, name]).
Make(l, n, default) ==
    /\ ~There(l) /\ \A i \in DOMAIN made : made[i] # l
    /\ ~Taken(n)
    /\ list' = [list EXCEPT ![l] = [name |-> n, isDefault |-> default]]
    /\ made' = Append(made, l)

-----------------------------------------------------------------------------
(* listForUser, ensureDefaultFavorites *)

FindDefault(r) ==
    /\ About(r, "idle")
    /\ Proceed(r, IF Defaults = {} THEN "create" ELSE "answer", Nothing)
    /\ UNCHANGED <<list, made, items, rescued, seen>>

CreateFavoris(r, l) ==
    /\ About(r, "create")
    /\ Make(l, Favoris, TRUE)
    /\ Proceed(r, "answer", Nothing)
    /\ UNCHANGED <<items, rescued, seen>>

FavorisRefused(r) ==
    /\ About(r, "create") /\ Taken(Favoris)
    /\ Proceed(r, "oldest", Nothing)
    /\ UNCHANGED <<list, made, items, rescued, seen>>

Oldest == {made[i] : i \in {i \in DOMAIN made : /\ There(made[i])
                                               /\ \A j \in 1..(i - 1) : ~There(made[j])}}

\* Without a list, the request is refused.
FindOldest(r) ==
    /\ About(r, "oldest")
    /\ IF Oldest = {} THEN Leave(r) ELSE \E l \in Oldest : Proceed(r, "mark", l)
    /\ UNCHANGED <<list, made, items, rescued, seen>>

MarkDefault(r) ==
    /\ About(r, "mark")
    /\ IF There(task[r].on)
       THEN /\ list' = [list EXCEPT ![task[r].on].isDefault = TRUE]
            /\ rescued' = rescued \cup {task[r].on}
            /\ Proceed(r, "answer", Nothing)
       ELSE Leave(r) /\ UNCHANGED <<list, rescued>>
    /\ UNCHANGED <<made, items, seen>>

AnswerLists(r) ==
    /\ About(r, "answer")
    /\ seen' = (seen \/ Defaults = {})
    /\ Leave(r)
    /\ UNCHANGED <<list, made, items, rescued>>

-----------------------------------------------------------------------------
(* The member's own lists *)

CreateList(l, n) ==
    /\ Make(l, n, FALSE)
    /\ UNCHANGED <<items, task, rescued, seen>>

\* assertOwnedList, before every change.
ReadList(r, l, step) ==
    /\ About(r, "idle") /\ There(l)
    /\ Proceed(r, step, l)
    /\ UNCHANGED <<list, made, items, rescued, seen>>

\* The other changes fail when the list is gone.
Gone(r) ==
    /\ task[r].step \in {"rename", "check", "delete", "add"} /\ ~There(task[r].on)
    /\ Leave(r)
    /\ UNCHANGED <<list, made, items, rescued, seen>>

UpdateList(r, n) ==
    /\ About(r, "rename") /\ There(task[r].on)
    /\ list' = IF \E l \in List \ {task[r].on} : There(l) /\ list[l].name = n
               THEN list ELSE [list EXCEPT ![task[r].on].name = n]
    /\ Leave(r)
    /\ UNCHANGED <<made, items, rescued, seen>>

\* Mutant: the list called Favoris is the one that stays.
CheckName(r) ==
    /\ About(r, "check") /\ There(task[r].on)
    /\ IF list[task[r].on].name = Favoris THEN Leave(r) ELSE Proceed(r, "delete", task[r].on)
    /\ UNCHANGED <<list, made, items, rescued, seen>>

CheckDefault(r) ==
    /\ About(r, "check") /\ There(task[r].on)
    /\ IF list[task[r].on].isDefault THEN Leave(r) ELSE Proceed(r, "delete", task[r].on)
    /\ UNCHANGED <<list, made, items, rescued, seen>>

DeleteList(r) ==
    /\ About(r, "delete") /\ There(task[r].on)
    /\ list' = [list EXCEPT ![task[r].on] = Nothing]
    /\ items' = [items EXCEPT ![task[r].on] = {}]
    /\ Leave(r)
    /\ UNCHANGED <<made, rescued, seen>>

AddItem(r, p) ==
    /\ About(r, "add") /\ There(task[r].on)
    /\ items' = [items EXCEPT ![task[r].on] = @ \cup {p}]
    /\ Leave(r)
    /\ UNCHANGED <<list, made, rescued, seen>>

\* deleteMany of a list that may be gone.
RemoveItem(r, p) ==
    /\ About(r, "remove")
    /\ items' = [items EXCEPT ![task[r].on] = @ \ {p}]
    /\ Leave(r)
    /\ UNCHANGED <<list, made, rescued, seen>>

ListsNext ==
    \/ \E r \in Visitor :
          \/ FindDefault(r) \/ FavorisRefused(r) \/ FindOldest(r) \/ MarkDefault(r)
          \/ AnswerLists(r) \/ CheckDefault(r) \/ DeleteList(r) \/ Gone(r)
          \/ \E l \in List : CreateFavoris(r, l)
          \/ \E l \in List, s \in {"rename", "check", "add", "remove"} : ReadList(r, l, s)
          \/ \E n \in Label : UpdateList(r, n)
          \/ \E p \in Place : (AddItem(r, p) \/ RemoveItem(r, p))
    \/ \E l \in List, n \in Label : CreateList(l, n)

ListsSpec == ListsInit /\ [][ListsNext]_listsVars

-----------------------------------------------------------------------------
(* Properties *)

\* Of two first looks that overlap, the one that comes second may mark the oldest
\* list: never more default lists than requests at once, whatever is renamed.
DefaultsAreFew == Cardinality(Defaults) <= Cardinality(Visitor)

\* Whoever asks for his lists is given a default one, which cannot be deleted, but
\* for a list that was marked while its deletion was under way.
AnswersHaveADefault == seen => rescued # {}

\* The default list is there for whoever asks, and cannot be got rid of.
TheDefaultStays == DefaultsAreFew /\ AnswersHaveADefault

=============================================================================
