------------------------------- MODULE CachedFS -------------------------------
(***************************************************************************)
(* cachedvfs.FS (internal/vfs/cachedvfs/cachedvfs.go): a cache in front of *)
(* a file system, one map for each kind of question, about one path here.  *)
(* A question looks its map up, asks the file system and stores, each      *)
(* without a lock; ClearCache clears the maps one after the other.         *)
(***************************************************************************)
EXTENDS Integers, Sequences, SequencesExt

CONSTANTS
  Askers,       \* goroutines that ask
  Asked,        \* the kinds of questions they ask, of those below
  MaxChanges,    \* bound on the changes of the file system
  MaxClears     \* bound on the calls of ClearCache

\* The maps, in the order ClearCache clears them.
Maps == <<"directoryExists", "fileExists", "accessibleEntries", "realpath", "stat">>

CachedAssumption == Asked \subseteq ToSet(Maps)

VARIABLES
  changes,     \* how often the path changed
  cache,       \* the change each map's answer tells, or NoAnswer
  calls,       \* where each goroutine is, in which map, and what it has seen
  clearing,    \* the map ClearCache comes to next, 0 if it is not running
  clears,      \* how often ClearCache returned
  floor,       \* what was on the disk when the last ClearCache that returned was called
  began        \* what was on the disk when the one that is running was called

cachedVars == <<changes, cache, calls, clearing, clears, floor, began>>

NoAnswer == -1
Idle == [at |-> "idle", map |-> Maps[1], seen |-> 0, straddles |-> FALSE]

CachedInit ==
  /\ changes = 0
  /\ cache = [m \in ToSet(Maps) |-> [seen |-> NoAnswer, straddled |-> FALSE]]
  /\ calls = [g \in Askers |-> Idle]
  /\ clearing = 0 /\ clears = 0
  /\ floor = 0 /\ began = 0

\* The path changes on the disk: WriteFile and Remove go through, and forget nothing.
Change ==
  /\ changes < MaxChanges
  /\ changes' = changes + 1
  /\ UNCHANGED <<cache, calls, clearing, clears, floor, began>>

\* Lookup: an answer that is there is returned.
Lookup(g, m) ==
  /\ calls[g].at = "idle"
  /\ calls' = [calls EXCEPT ![g] =
       IF cache[m].seen # NoAnswer
       THEN [at |-> "served", map |-> m, seen |-> cache[m].seen, straddles |-> cache[m].straddled]
       ELSE [at |-> "ask", map |-> m, seen |-> 0, straddles |-> clearing # 0]]
  /\ UNCHANGED <<changes, cache, clearing, clears, floor, began>>

\* The file system answers.
Ask(g) ==
  /\ calls[g].at = "ask"
  /\ calls' = [calls EXCEPT ![g].at = "store", ![g].seen = changes]
  /\ UNCHANGED <<changes, cache, clearing, clears, floor, began>>

Store(g) ==
  /\ calls[g].at = "store"
  /\ cache' = [cache EXCEPT ![calls[g].map] = [seen |-> calls[g].seen, straddled |-> calls[g].straddles]]
  /\ calls' = [calls EXCEPT ![g] = Idle]
  /\ UNCHANGED <<changes, clearing, clears, floor, began>>

Served(g) ==
  /\ calls[g].at = "served"
  /\ calls' = [calls EXCEPT ![g] = Idle]
  /\ UNCHANGED <<changes, cache, clearing, clears, floor, began>>

\* A call under way now straddles the clearing.
BeginClear ==
  /\ clearing = 0 /\ clears < MaxClears
  /\ clearing' = 1 /\ began' = changes
  /\ calls' = [g \in Askers |-> IF calls[g].at \in {"ask", "store"} THEN [calls[g] EXCEPT !.straddles = TRUE] ELSE calls[g]]
  /\ UNCHANGED <<changes, cache, clears, floor>>

\* Variant: one map is forgotten.
ClearVariant ==
  /\ clearing # 0
  /\ cache' = IF Maps[clearing] = "realpath" THEN cache ELSE [cache EXCEPT ![Maps[clearing]].seen = NoAnswer]
  /\ IF clearing < Len(Maps) THEN clearing' = clearing + 1 /\ UNCHANGED <<clears, floor>>
     ELSE clearing' = 0 /\ clears' = clears + 1 /\ floor' = began
  /\ UNCHANGED <<changes, calls, began>>

Clear ==
  /\ clearing # 0
  /\ cache' = [cache EXCEPT ![Maps[clearing]].seen = NoAnswer]
  /\ IF clearing < Len(Maps) THEN clearing' = clearing + 1 /\ UNCHANGED <<clears, floor>>
     ELSE clearing' = 0 /\ clears' = clears + 1 /\ floor' = began
  /\ UNCHANGED <<changes, calls, began>>

CachedNext ==
  \/ Change \/ BeginClear \/ Clear
  \/ \E g \in Askers : Ask(g) \/ Store(g) \/ Served(g) \/ \E m \in Asked : Lookup(g, m)

CachedSpec == CachedInit /\ [][CachedNext]_cachedVars

-----------------------------------------------------------------------------
\* An answer of before a ClearCache is in no map once the call has returned, but for one
\* whose question was on its way while the call was: that one may be put back.
OnlyStraddlersAreStale ==
  \A m \in ToSet(Maps) : clearing = 0 /\ cache[m].seen # NoAnswer /\ cache[m].seen < floor => cache[m].straddled

(***************************************************************************)
(* Why it holds: the inductive invariant.                                  *)
(***************************************************************************)
CachedTypeOK ==
  /\ changes \in Nat /\ began \in Nat /\ floor \in Nat
  /\ cache \in [ToSet(Maps) -> [seen : Nat \cup {NoAnswer}, straddled : BOOLEAN]]
  /\ calls \in [Askers -> [at : {"idle", "ask", "store", "served"}, map : ToSet(Maps), seen : Nat \cup {NoAnswer},
                           straddles : BOOLEAN]]
  /\ clearing \in 0..Len(Maps)

\* What a ClearCache was called on is what the disk held by then.
InOrder == floor <= began /\ began <= changes

\* A question is on its way past a ClearCache, or none has begun since it was asked.
OnTheWay ==
  \A g \in Askers : calls[g].at \in {"ask", "store"} /\ ~calls[g].straddles =>
    clearing = 0 /\ (calls[g].at = "store" => calls[g].seen >= floor)

\* A map that ClearCache has passed has only what was put back since.
Passed ==
  \A i \in DOMAIN Maps : i < clearing /\ cache[Maps[i]].seen # NoAnswer => cache[Maps[i]].straddled

Fresh ==
  \A m \in ToSet(Maps) : cache[m].seen # NoAnswer /\ ~cache[m].straddled => cache[m].seen >= floor

CachedInv == CachedTypeOK /\ InOrder /\ OnTheWay /\ Passed /\ Fresh
===============================================================================
