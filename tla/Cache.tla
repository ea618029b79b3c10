------------------------------- MODULE Cache -------------------------------
(* The cache in front of the airspaces, the markers and the weather
   (common/cache.service.ts; metar.service.ts): an entry in Redis or, when a
   command to Redis fails, in the memory of the process.  A call looks, asks
   the source and stores, with an await before each; a command to Redis may
   fail, with or without its effect.  Time is counted in the shorter of the
   two lives an entry may have. *)
EXTENDS Naturals, FiniteSets

CONSTANTS CacheKey,
          Caller,     \* calls under way at once
          LongTtl,    \* life of a full answer
          ShortTtl,   \* life of "nothing there" and of a partial answer
          MaxMemory,  \* MEMORY_MAX_ENTRIES
          MaxFlight,  \* bound: time between the answer of the source and its storage
          MaxClock    \* bound: time

ASSUME CacheAssumption ==
  /\ CacheKey # {} /\ MaxMemory \in Nat \ {0, 1}
  /\ LongTtl \in Nat /\ ShortTtl \in Nat /\ MaxFlight \in Nat /\ MaxClock \in Nat

VARIABLES clock,
          redis,    \* entries in Redis
          memory,   \* entries in memory
          place,    \* each key's place in the Map, the oldest first; 0 when it is not there
          caller,   \* what each call is doing
          stale     \* history: an answer was older than its life and the time it took to store

cacheVars == <<clock, redis, memory, place, caller, stale>>

Absence == [made |-> 0, ttl |-> 0, kind |-> "absent", expires |-> 0]
AtRest == [pc |-> "idle", key |-> CHOOSE k \in CacheKey : TRUE, got |-> Absence]

CacheInit ==
  /\ clock = 0
  /\ redis = [k \in CacheKey |-> Absence] /\ memory = redis
  /\ place = [k \in CacheKey |-> 0]
  /\ caller = [c \in Caller |-> AtRest]
  /\ stale = FALSE

Remembered == {k \in CacheKey : place[k] > 0}

\* The places of some of the keys, in the order they had.
PlacesOf(keys) ==
  [k \in CacheKey |-> IF k \in keys THEN Cardinality({j \in keys : place[j] <= place[k]}) ELSE 0]

Fresh(entry) == entry.kind # "absent" /\ entry.expires > clock

Reply(c, got) == /\ stale' = (stale \/ clock > got.made + got.ttl + MaxFlight)
                 /\ caller' = [caller EXCEPT ![c] = AtRest]

AskSource(c, k) == /\ caller' = [caller EXCEPT ![c] = [AtRest EXCEPT !.pc = "produce", !.key = k]]
                   /\ UNCHANGED stale

LookInRedis(c, k) ==
  /\ caller[c].pc = "idle"
  /\ IF redis[k] # Absence THEN Reply(c, redis[k]) ELSE AskSource(c, k)
  /\ UNCHANGED <<clock, redis, memory, place>>

\* Mutant: an entry in memory is good for as long as it is there.
LookInMemoryUnaged(c, k) ==
  /\ caller[c].pc = "idle"
  /\ IF memory[k].kind # "absent" THEN Reply(c, memory[k]) ELSE AskSource(c, k)
  /\ UNCHANGED <<clock, redis, memory, place>>

(* Redis fails, or there is none; an entry that has expired goes. *)
LookInMemory(c, k) ==
  /\ caller[c].pc = "idle"
  /\ IF Fresh(memory[k])
     THEN Reply(c, memory[k]) /\ UNCHANGED <<memory, place>>
     ELSE /\ AskSource(c, k)
          /\ memory' = [memory EXCEPT ![k] = Absence]
          /\ place' = PlacesOf(Remembered \ {k})
  /\ UNCHANGED <<clock, redis>>

(* The source answers: in full, in part or that it has nothing, or not at all,
   and that is not stored. *)
Produce(c, kind) ==
  /\ caller[c].pc = "produce"
  /\ LET got == [made |-> clock, kind |-> kind, expires |-> 0,
                 ttl |-> IF kind = "value" THEN LongTtl ELSE ShortTtl] IN
     IF kind = "outage" THEN Reply(c, got)
     ELSE /\ caller' = [caller EXCEPT ![c].pc = "store", ![c].got = got]
          /\ UNCHANGED stale
  /\ UNCHANGED <<clock, redis, memory, place>>

-----------------------------------------------------------------------------
(* set *)

Stored(c) == [caller[c].got EXCEPT !.expires = clock + caller[c].got.ttl]

Living == {k \in Remembered : Fresh(memory[k])}

OlderHalf(keys) == {k \in keys : PlacesOf(keys)[k] <= Cardinality(keys) \div 2}

\* pruneMemory: what has expired, then the older half.
Pruned == IF Cardinality(Living) < MaxMemory THEN Living ELSE Living \ OlderHalf(Living)

Kept == IF Cardinality(Remembered) < MaxMemory THEN Remembered ELSE Pruned

\* Map.set: a key that is there keeps its place.
StoreInMemory(c) ==
  /\ place' = IF caller[c].key \in Kept THEN PlacesOf(Kept)
              ELSE [PlacesOf(Kept) EXCEPT ![caller[c].key] = Cardinality(Kept) + 1]
  /\ memory' = [k \in CacheKey |-> IF k = caller[c].key THEN Stored(c)
                                   ELSE IF k \in Kept THEN memory[k] ELSE Absence]

StoreInRedis(c) == redis' = [redis EXCEPT ![caller[c].key] = Stored(c)]

(* In Redis; in memory when the command failed; in both when its answer was lost. *)
Store(c) ==
  /\ caller[c].pc = "store"
  /\ \/ StoreInRedis(c) /\ UNCHANGED <<memory, place>>
     \/ StoreInMemory(c) /\ UNCHANGED redis
     \/ StoreInRedis(c) /\ StoreInMemory(c)
  /\ Reply(c, caller[c].got)
  /\ UNCHANGED clock

-----------------------------------------------------------------------------

(* An answer of the source is stored before long; Redis drops what expires. *)
Elapse ==
  /\ clock < MaxClock
  /\ \A c \in Caller : caller[c].pc = "store" => clock < caller[c].got.made + MaxFlight
  /\ clock' = clock + 1
  /\ redis' = [k \in CacheKey |-> IF redis[k].expires > clock' THEN redis[k] ELSE Absence]
  /\ UNCHANGED <<memory, place, caller, stale>>

ProcessRestarts ==
  /\ memory' = [k \in CacheKey |-> Absence] /\ place' = [k \in CacheKey |-> 0]
  /\ caller' = [c \in Caller |-> AtRest]
  /\ UNCHANGED <<clock, redis, stale>>

CacheNext ==
  \/ \E c \in Caller :
       \/ \E k \in CacheKey : (LookInRedis(c, k) \/ LookInMemory(c, k))
       \/ \E kind \in {"value", "partial", "outage"} : Produce(c, kind)
       \/ Store(c)
  \/ Elapse \/ ProcessRestarts

CacheSpec == CacheInit /\ [][CacheNext]_cacheVars

-----------------------------------------------------------------------------
(* Property *)

\* What is answered is never older than its life and the time it took to
\* store, though Redis and the memory hold different copies and either may
\* come back; an outage is never kept; and the memory holds its keys, no more
\* than its limit, whatever expires or not.
AnswersAreYoung ==
  /\ ~stale
  /\ \A k \in CacheKey : redis[k].kind # "outage" /\ memory[k].kind # "outage"
  /\ Cardinality(Remembered) <= MaxMemory
  /\ Remembered = {k \in CacheKey : memory[k].kind # "absent"}

=============================================================================
