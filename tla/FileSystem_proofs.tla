---------------------------- MODULE FileSystem_proofs ----------------------------
(***************************************************************************)
(* The two parts that look at a file system that changes under them.       *)
(*                                                                         *)
(* tsc --watch (Watcher.tla), for any set of files and any number of       *)
(* writes, deletes and changes of the config between the steps of the      *)
(* cycles: the times kept are times files had, and no output goes back to  *)
(* an older text.                                                          *)
(*                                                                         *)
(* cachedvfs.FS (CachedFS.tla), for any goroutines, any number of changes  *)
(* of the file system and any number of calls of ClearCache: what an       *)
(* answer of before a ClearCache can still be found for.                   *)
(***************************************************************************)
EXTENDS Watcher, CachedFS, TLAPS

-----------------------------------------------------------------------------
(* Watcher *)

\* The watcher starts with nothing read, kept or emitted.
LEMMA InitIInv == WatcherInit => WatcherInv
<1> SUFFICES ASSUME WatcherInit PROVE WatcherInv
  OBVIOUS
<1>1. disk \in [SourceFiles -> Nat] /\ written \in [SourceFiles -> Nat] /\ \A f \in SourceFiles : disk[f] = written[f]
  BY DEF WatcherInit
<1>2. Nothing \in [SourceFiles -> Nat] /\ \A f \in SourceFiles : Nothing[f] = 0
  BY DEF Nothing, Missing
<1>3. WatcherTypeOK
  <2>1. config \in [ok : BOOLEAN, version : Nat] /\ options \in Nat
    BY DEF WatcherInit
  <2>2. \A f \in SourceFiles : {program[f], currState[f], prevModified[f], outputs[f]} \subseteq 0..written[f]
    <3>1. \A f \in SourceFiles : program[f] = 0 /\ currState[f] = 0 /\ prevModified[f] = 0 /\ outputs[f] = 0 /\ written[f] \in Nat
      BY <1>1, <1>2 DEF WatcherInit
    <3> QED BY <3>1
  <2> QED BY <1>1, <1>2, <2>1, <2>2 DEF WatcherInit, WatcherTypeOK
<1>4. DiskIsLast /\ ProgramIsNotOld /\ ConfigIsCompared
  BY <1>1, <1>2 DEF WatcherInit, DiskIsLast, ProgramIsNotOld, ConfigIsCompared
<1> QED BY <1>3, <1>4 DEF WatcherInv

\* A file is given its next version, wherever the cycle is.
LEMMA WriteIInv == WatcherInv /\ Write => WatcherInv'
<1> SUFFICES ASSUME WatcherInv, Write PROVE WatcherInv'
  OBVIOUS
<1>1. PICK f \in SourceFiles : /\ written' = [written EXCEPT ![f] = @ + 1]
                         /\ disk' = [disk EXCEPT ![f] = written[f] + 1]
  BY DEF Write
<1>2. WatcherTypeOK'
  BY <1>1 DEF WatcherInv, WatcherTypeOK, Write
<1>3. DiskIsLast' /\ ProgramIsNotOld' /\ ConfigIsCompared'
  BY <1>1 DEF WatcherInv, WatcherTypeOK, DiskIsLast, ProgramIsNotOld, ConfigIsCompared, Write
<1> QED BY <1>2, <1>3 DEF WatcherInv

\* A file is deleted, wherever the cycle is.
LEMMA DeleteIInv == WatcherInv /\ Delete => WatcherInv'
<1> SUFFICES ASSUME WatcherInv, Delete PROVE WatcherInv'
  OBVIOUS
<1>1. PICK f \in SourceFiles : disk' = [disk EXCEPT ![f] = Missing]
  BY DEF Delete, Present
<1>2. WatcherTypeOK'
  BY <1>1 DEF WatcherInv, WatcherTypeOK, Delete, Missing
<1>3. DiskIsLast' /\ ProgramIsNotOld' /\ ConfigIsCompared'
  BY <1>1 DEF WatcherInv, WatcherTypeOK, DiskIsLast, ProgramIsNotOld, ConfigIsCompared, Delete
<1> QED BY <1>2, <1>3 DEF WatcherInv

\* The config changes.
LEMMA EditConfigIInv == WatcherInv /\ EditConfig => WatcherInv'
BY DEF WatcherInv, WatcherTypeOK, DiskIsLast, ProgramIsNotOld, ConfigIsCompared, EditConfig

\* A cycle begins with an empty program.
LEMMA ReadConfigIInv == WatcherInv /\ ReadConfig => WatcherInv'
BY DEF WatcherInv, WatcherTypeOK, DiskIsLast, ProgramIsNotOld, ConfigIsCompared, ReadConfig, envVars, Present, Nothing, Missing

\* What is read from the disk is the last version of the file, and none later was emitted.
LEMMA LoadFileIInv == WatcherInv /\ LoadFile => WatcherInv'
<1> SUFFICES ASSUME WatcherInv, LoadFile PROVE WatcherInv'
  OBVIOUS
<1>1. PICK f \in fileNames : program' = [program EXCEPT ![f] = disk[f]] /\ fileNames' = fileNames \ {f}
  BY DEF LoadFile
<1>2. f \in SourceFiles /\ disk[f] \in {Missing, written[f]} /\ disk[f] \in Nat /\ outputs[f] \in 0..written[f]
  BY DEF WatcherInv, WatcherTypeOK, DiskIsLast
<1>3. WatcherTypeOK'
  BY <1>1, <1>2 DEF WatcherInv, WatcherTypeOK, LoadFile, envVars, Missing
<1>4. DiskIsLast' /\ ProgramIsNotOld' /\ ConfigIsCompared'
  BY <1>1, <1>2 DEF WatcherInv, WatcherTypeOK, DiskIsLast, ProgramIsNotOld, ConfigIsCompared, LoadFile, envVars
<1> QED BY <1>3, <1>4 DEF WatcherInv

\* The comparison begins.
LEMMA StartCompareIInv == WatcherInv /\ StartCompare => WatcherInv'
BY DEF WatcherInv, WatcherTypeOK, DiskIsLast, ProgramIsNotOld, ConfigIsCompared, StartCompare, envVars, Nothing, Missing

\* One file is statted: its time is kept, or the file is gone.
LEMMA StatFileIInv == WatcherInv /\ StatFile => WatcherInv'
<1> SUFFICES ASSUME WatcherInv, StatFile PROVE WatcherInv'
  OBVIOUS
<1>1. PICK f \in fileNames :
        /\ fileNames' = fileNames \ {f}
        /\ IF disk[f] = Missing THEN UNCHANGED <<currState, filesModified, prevModified>>
           ELSE /\ currState' = [currState EXCEPT ![f] = disk[f]]
                /\ filesModified' = (filesModified \/ disk[f] # prevModified[f])
                /\ prevModified' = IF filesModified THEN prevModified ELSE [prevModified EXCEPT ![f] = Missing]
  BY DEF StatFile
<1>2. f \in SourceFiles /\ disk[f] \in {Missing, written[f]} /\ disk[f] \in Nat /\ written[f] \in Nat
  BY DEF WatcherInv, WatcherTypeOK, DiskIsLast
<1>3. WatcherTypeOK'
  <2>1. currState' \in [SourceFiles -> Nat] /\ prevModified' \in [SourceFiles -> Nat] /\ filesModified' \in BOOLEAN
    <3>1. disk[f] \in Nat /\ Missing \in Nat /\ filesModified \in BOOLEAN /\ (disk[f] # prevModified[f]) \in BOOLEAN
      BY <1>2 DEF WatcherInv, WatcherTypeOK, Missing
    <3>2. currState \in [SourceFiles -> Nat] /\ prevModified \in [SourceFiles -> Nat]
      BY DEF WatcherInv, WatcherTypeOK
    <3>3. CASE disk[f] = Missing
      BY <1>1, <3>1, <3>2, <3>3
    <3>4. CASE disk[f] # Missing
      <4>1. currState' \in [SourceFiles -> Nat] /\ prevModified' \in [SourceFiles -> Nat]
        BY <1>1, <1>2, <3>1, <3>2, <3>4
      <4>2. filesModified' \in BOOLEAN
        BY <1>1, <3>4
      <4> QED BY <4>1, <4>2
    <3> QED BY <3>3, <3>4
  <2>2. \A g \in SourceFiles : currState'[g] \in 0..written[g] /\ prevModified'[g] \in 0..written[g]
    BY <1>1, <1>2 DEF WatcherInv, WatcherTypeOK, Missing
  <2> QED BY <1>1, <2>1, <2>2 DEF WatcherInv, WatcherTypeOK, StatFile, envVars
<1>4. DiskIsLast' /\ ProgramIsNotOld' /\ ConfigIsCompared'
  BY DEF WatcherInv, WatcherTypeOK, DiskIsLast, ProgramIsNotOld, ConfigIsCompared, StatFile, envVars
<1> QED BY <1>3, <1>4 DEF WatcherInv

\* The comparison ends; the change of the config is no longer pending.
LEMMA EndCompareIInv == WatcherInv /\ EndCompare => WatcherInv'
<1> SUFFICES ASSUME WatcherInv, EndCompare PROVE WatcherInv'
  OBVIOUS
<1>1. step' \in {"emit", "sleep"} /\ step # "sleep" /\ prevModified' = currState /\ configModified' = FALSE
  BY DEF EndCompare
<1>2. UNCHANGED <<disk, written, config, options, fileNames, program, currState, filesModified, outputs>>
  BY DEF EndCompare, envVars
<1> QED BY <1>1, <1>2 DEF WatcherInv, WatcherTypeOK, DiskIsLast, ProgramIsNotOld, ConfigIsCompared

\* The program's files are emitted.
LEMMA EmitIInv == WatcherInv /\ Emit => WatcherInv'
BY DEF WatcherInv, WatcherTypeOK, DiskIsLast, ProgramIsNotOld, ConfigIsCompared, Emit, envVars, Missing

\* WatcherInv is kept, and no step of it takes an output back.
LEMMA NextIInv == WatcherInv /\ [WatcherNext]_watcherVars => WatcherInv'
<1>1. WatcherInv /\ UNCHANGED watcherVars => WatcherInv'
  BY DEF watcherVars, envVars, WatcherInv, WatcherTypeOK, DiskIsLast, ProgramIsNotOld, ConfigIsCompared
<1> QED BY <1>1, WriteIInv, DeleteIInv, EditConfigIInv, ReadConfigIInv, LoadFileIInv, StartCompareIInv, StatFileIInv,
           EndCompareIInv, EmitIInv DEF WatcherNext, Cycle

\* The watcher's state is always of its types: the times kept are times the files had, and while
\* it sleeps no change of the config is pending.
THEOREM WatcherTypesOK == WatcherSpec => []WatcherTypeOK
<1>1. WatcherInv => WatcherTypeOK
  BY DEF WatcherInv
<1> QED BY <1>1, InitIInv, NextIInv, PTL DEF WatcherSpec

\* However the writes and deletes fall between the steps of the cycles, no output is replaced
\* by one of an older text.
THEOREM OutputsOnlyAdvance == WatcherSpec => OutputsNeverGoBack
<1>1. WatcherInv /\ [WatcherNext]_watcherVars => [\A f \in SourceFiles : outputs'[f] >= outputs[f]]_outputs
  <2> SUFFICES ASSUME WatcherInv, [WatcherNext]_watcherVars, outputs' # outputs PROVE \A f \in SourceFiles : outputs'[f] >= outputs[f]
    OBVIOUS
  <2>1. Emit
    BY DEF watcherVars, WatcherNext, Cycle, Write, Delete, EditConfig, ReadConfig, LoadFile, StartCompare, StatFile, EndCompare
  <2> QED BY <2>1 DEF Emit, WatcherInv, WatcherTypeOK, ProgramIsNotOld
<1> QED BY <1>1, InitIInv, NextIInv, PTL DEF WatcherSpec, OutputsNeverGoBack

-----------------------------------------------------------------------------
(* CachedFS *)

\* There are five maps, each at its own place.
LEMMA MapsFacts ==
  /\ DOMAIN Maps = 1..5 /\ Len(Maps) = 5
  /\ \A i \in 1..5 : Maps[i] \in ToSet(Maps)
  /\ \A m \in ToSet(Maps) : \E i \in 1..5 : m = Maps[i]
  /\ \A i, j \in 1..5 : Maps[i] = Maps[j] => i = j
BY DEF Maps, ToSet

\* No map has an answer and nobody asks.
LEMMA CacheInit == CachedInit => CachedInv
<1> SUFFICES ASSUME CachedInit PROVE CachedInv
  OBVIOUS
<1>1. CachedTypeOK
  BY MapsFacts DEF CachedInit, CachedTypeOK, Idle, NoAnswer
<1>2. InOrder /\ OnTheWay /\ Passed /\ Fresh
  BY MapsFacts DEF CachedInit, InOrder, OnTheWay, Passed, Fresh, Idle, NoAnswer
<1> QED BY <1>1, <1>2 DEF CachedInv

\* The disk only gets ahead.
LEMMA CacheWrite == CachedInv /\ Change => CachedInv'
BY DEF CachedInv, Change, CachedTypeOK, InOrder, OnTheWay, Passed, Fresh

\* The map's answer, or a question that begins now: during a ClearCache it is known to straddle it.
LEMMA CacheLoad ==
  ASSUME CachedAssumption, CachedInv, NEW g \in Askers, NEW m \in Asked, Lookup(g, m)
  PROVE  CachedInv'
<1>1. m \in ToSet(Maps) /\ cache[m] \in [seen : Nat \cup {NoAnswer}, straddled : BOOLEAN]
  BY DEF CachedAssumption, CachedInv, CachedTypeOK
<1>2. CachedTypeOK'
  BY <1>1 DEF CachedInv, CachedTypeOK, Lookup, NoAnswer
<1>3. OnTheWay'
  BY DEF CachedInv, CachedTypeOK, OnTheWay, Lookup
<1>4. InOrder' /\ Passed' /\ Fresh'
  BY DEF CachedInv, InOrder, Passed, Fresh, Lookup
<1> QED BY <1>2, <1>3, <1>4 DEF CachedInv

\* What the file system says now is no older than what any finished ClearCache was called on.
LEMMA CacheAsk ==
  ASSUME CachedInv, NEW g \in Askers, Ask(g)
  PROVE  CachedInv'
<1>1. CachedTypeOK'
  BY DEF CachedInv, CachedTypeOK, Ask
<1>2. OnTheWay'
  BY DEF CachedInv, CachedTypeOK, InOrder, OnTheWay, Ask
<1>3. InOrder' /\ Passed' /\ Fresh'
  BY DEF CachedInv, InOrder, Passed, Fresh, Ask
<1> QED BY <1>1, <1>2, <1>3 DEF CachedInv

\* An answer put into a map that ClearCache has passed is one of a call that straddles it.
LEMMA CacheStore ==
  ASSUME CachedInv, NEW g \in Askers, Store(g)
  PROVE  CachedInv'
<1> DEFINE m == calls[g].map
<1>1. /\ m \in ToSet(Maps) /\ calls[g].seen \in Nat \cup {NoAnswer} /\ calls[g].straddles \in BOOLEAN
      /\ cache' = [cache EXCEPT ![m] = [seen |-> calls[g].seen, straddled |-> calls[g].straddles]]
      /\ calls[g].straddles \/ (clearing = 0 /\ calls[g].seen >= floor)
  BY DEF CachedInv, CachedTypeOK, OnTheWay, Store
<1>2. CachedTypeOK'
  BY <1>1, MapsFacts DEF CachedInv, CachedTypeOK, Store, Idle, NoAnswer
<1>3. OnTheWay'
  BY DEF CachedInv, CachedTypeOK, OnTheWay, Store, Idle
<1>4. Passed'
  BY <1>1, MapsFacts DEF CachedInv, CachedTypeOK, Passed, Store
<1>5. Fresh'
  BY <1>1 DEF CachedInv, CachedTypeOK, Fresh, Store
<1>6. InOrder'
  BY DEF CachedInv, InOrder, Store
<1> QED BY <1>2, <1>3, <1>4, <1>5, <1>6 DEF CachedInv

\* A call returns what it found.
LEMMA CacheServed ==
  ASSUME CachedInv, NEW g \in Askers, Served(g)
  PROVE  CachedInv'
BY MapsFacts DEF CachedInv, CachedTypeOK, InOrder, OnTheWay, Passed, Fresh, Served, Idle, NoAnswer

\* Every question on its way straddles the call that begins.
LEMMA CacheBeginClear == CachedInv /\ BeginClear => CachedInv'
<1> SUFFICES ASSUME CachedInv, BeginClear PROVE CachedInv'
  OBVIOUS
<1> DEFINE Call == [at : {"idle", "ask", "store", "served"}, map : ToSet(Maps), seen : Nat \cup {NoAnswer},
                    straddles : BOOLEAN]
<1>a. \A c \in Call : [c EXCEPT !.straddles = TRUE] \in Call
  OBVIOUS
<1>b. calls' \in [Askers -> Call]
  BY <1>a DEF CachedInv, CachedTypeOK, BeginClear
<1>1. CachedTypeOK'
  BY <1>b, MapsFacts DEF CachedInv, CachedTypeOK, BeginClear
<1>2. OnTheWay'
  BY DEF CachedInv, CachedTypeOK, OnTheWay, BeginClear
<1>3. InOrder' /\ Passed' /\ Fresh'
  BY MapsFacts DEF CachedInv, CachedTypeOK, InOrder, Passed, Fresh, BeginClear
<1> QED BY <1>1, <1>2, <1>3 DEF CachedInv

\* One map is cleared. With the last one, no map has an answer that did not straddle the call.
LEMMA CacheClear == CachedInv /\ Clear => CachedInv'
<1> SUFFICES ASSUME CachedInv, Clear PROVE CachedInv'
  OBVIOUS
<1> DEFINE c == Maps[clearing]
<1>0. clearing # 0 /\ clearing \in 0..5
  BY MapsFacts DEF CachedInv, CachedTypeOK, Clear
<1>1. clearing \in DOMAIN Maps /\ clearing \in 1..5 /\ c \in ToSet(Maps)
  BY <1>0, MapsFacts
<1>a. /\ cache[c] \in [seen : Nat \cup {NoAnswer}, straddled : BOOLEAN]
      /\ cache' = [cache EXCEPT ![c] = [cache[c] EXCEPT !.seen = NoAnswer]]
  BY <1>1 DEF CachedInv, CachedTypeOK, Clear
<1>b. [cache[c] EXCEPT !.seen = NoAnswer] = [seen |-> NoAnswer, straddled |-> cache[c].straddled]
  BY <1>a
<1>c. \A m \in ToSet(Maps) : cache'[m] = IF m = c THEN [seen |-> NoAnswer, straddled |-> cache[c].straddled] ELSE cache[m]
  BY <1>a, <1>b DEF CachedInv, CachedTypeOK
<1>2. \A i \in DOMAIN Maps : i <= clearing /\ cache'[Maps[i]].seen # NoAnswer => cache'[Maps[i]].straddled
  <2> SUFFICES ASSUME NEW i \in DOMAIN Maps, i <= clearing, cache'[Maps[i]].seen # NoAnswer PROVE cache'[Maps[i]].straddled
    OBVIOUS
  <2>1. Maps[i] \in ToSet(Maps) /\ i \in 1..5
    BY MapsFacts
  <2>2. Maps[i] # c
    BY <2>1, <1>c
  <2>3. i < clearing
    BY <2>1, <2>2, <1>1
  <2> QED BY <2>1, <2>2, <2>3, <1>c DEF CachedInv, Passed
<1>3. CachedTypeOK'
  <2>1. cache' \in [ToSet(Maps) -> [seen : Nat \cup {NoAnswer}, straddled : BOOLEAN]]
    BY <1>1, <1>a, <1>b DEF CachedInv, CachedTypeOK
  <2>2. changes' \in Nat /\ began' \in Nat /\ floor' \in Nat /\ clearing' \in 0..Len(Maps)
    BY <1>1, MapsFacts DEF CachedInv, CachedTypeOK, Clear
  <2> QED BY <2>1, <2>2 DEF CachedInv, CachedTypeOK, Clear
<1>4. InOrder' /\ OnTheWay'
  BY <1>1 DEF CachedInv, CachedTypeOK, InOrder, OnTheWay, Clear
<1>5. Passed'
  BY <1>1, <1>2, MapsFacts DEF CachedInv, CachedTypeOK, Passed, Clear
<1>6. Fresh'
  <2>1. CASE clearing < Len(Maps)
    BY <1>c, <2>1 DEF CachedInv, CachedTypeOK, Fresh, Clear
  <2>2. CASE clearing = Len(Maps)
    <3>1. \A m \in ToSet(Maps) : \E i \in DOMAIN Maps : i <= clearing /\ m = Maps[i]
      BY <2>2, MapsFacts
    <3>2. \A m \in ToSet(Maps) : cache'[m].seen # NoAnswer => cache'[m].straddled
      BY <1>2, <3>1
    <3> QED BY <3>2 DEF Fresh
  <2> QED BY <1>1, <2>1, <2>2, MapsFacts
<1> QED BY <1>3, <1>4, <1>5, <1>6 DEF CachedInv

\* IInv always holds of the cache.
THEOREM CacheInvariant == CachedAssumption => (CachedSpec => []CachedInv)
<1> SUFFICES ASSUME CachedAssumption PROVE CachedSpec => []CachedInv
  OBVIOUS
<1>1. CachedInv /\ [CachedNext]_cachedVars => CachedInv'
  <2> SUFFICES ASSUME CachedInv, [CachedNext]_cachedVars PROVE CachedInv'
    OBVIOUS
  <2>1. CASE UNCHANGED cachedVars
    BY <2>1 DEF cachedVars, CachedInv, CachedTypeOK, InOrder, OnTheWay, Passed, Fresh
  <2>2. CASE CachedNext
    BY <2>2, CacheWrite, CacheLoad, CacheAsk, CacheStore, CacheServed, CacheBeginClear, CacheClear DEF CachedNext
  <2> QED BY <2>1, <2>2
<1> QED BY <1>1, CacheInit, PTL DEF CachedSpec

\* An answer of before a ClearCache is in no map once the call has returned, but for one
\* whose question was on its way while the call was, whatever the goroutines ask in between.
THEOREM StaleStraddle == CachedAssumption => (CachedSpec => []OnlyStraddlersAreStale)
<1>1. CachedInv => OnlyStraddlersAreStale
  BY DEF CachedInv, CachedTypeOK, Fresh, OnlyStraddlersAreStale, NoAnswer
<1> QED BY <1>1, CacheInvariant, PTL
===============================================================================
