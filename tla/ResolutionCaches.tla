--------------------------- MODULE ResolutionCaches ---------------------------
(***************************************************************************)
(* The caches of the module resolver (internal/compiler/module), as the    *)
(* loader's goroutines use them for one non-relative module name: the      *)
(* result of a directory, and for the name the results that hold for a     *)
(* directory and its ancestors.  Each map is read under a read lock and    *)
(* created and written under a write lock taken later, so another          *)
(* goroutine may come between.                                             *)
(***************************************************************************)
EXTENDS Integers, FiniteSets, Sequences

CONSTANTS
  Goroutines,
  Dirs,          \* directories that may import the module, each the components of its path
  Cwd,           \* the current directory
  Unresolved,    \* the result of a lookup that finds nothing; the others are the directory
                 \* whose package was found
  Absent,        \* no entry in a map
  PackageKinds,  \* what node_modules of a directory may hold of the module: a subset of
                 \* {"none", "ts", "js"}
  MaxCalls       \* bound on the calls of one goroutine

\* A directory's path is its own and those of the directories above it.
Ancestors(d) == {SubSeq(d, 1, n) : n \in 0..Len(d)}

CachesAssumption ==
  /\ \A d \in Dirs : d \in Seq(STRING) /\ Ancestors(d) \subseteq Dirs
  /\ Cwd \in Dirs
  /\ Unresolved \notin Dirs /\ Absent \notin Dirs \cup {Unresolved}
  /\ IsFiniteSet(Goroutines)
  /\ PackageKinds \subseteq {"none", "ts", "js"}
  /\ MaxCalls \in Nat

VARIABLES
  package,        \* what is in each directory's node_modules
  directoryMap,   \* perDirectoryResolutionCache: the result for each directory, or Absent
  nameMap,        \* perNonRelativeNameCache: the same, of the current map object
  nameMapId,      \* identity of that object; 0 before there is one
  dirMapId,       \* identity of each directory's map
  pc, at, pass,   \* per goroutine: where it is, in which ancestor, in which of the two passes
  from,           \* the directory it resolves for
  found,          \* what the walk found
  fromCache,      \* r.resultFromCache
  held,           \* identity of the map it will write to
  calls           \* calls it has made

shared == <<directoryMap, nameMap, nameMapId, dirMapId>>
local == <<pc, at, pass, from, found, fromCache, held, calls>>
vars == <<package, shared, local>>

Results == Dirs \cup {Unresolved}

IsRoot(d) == d = <<>>
Parent(d) == SubSeq(d, 1, Len(d) - 1)

\* The nearest directory above d, or d, that is in S.
Nearest(d, S) == CHOOSE a \in Ancestors(d) \cap S : \A b \in Ancestors(d) \cap S : Len(b) <= Len(a)
Holding(kind) == {d \in Dirs : package[d] = kind}

\* The resolution without caches: two passes over the ancestors, TypeScript first.
Uncached(d) ==
  IF Ancestors(d) \cap Holding("ts") # {} THEN Nearest(d, Holding("ts"))
  ELSE IF Ancestors(d) \cap Holding("js") # {} THEN Nearest(d, Holding("js")) ELSE Unresolved

Init ==
  /\ package \in [Dirs -> PackageKinds]
  /\ directoryMap = [d \in Dirs |-> Absent] /\ nameMap = [d \in Dirs |-> Absent]
  /\ nameMapId = 0 /\ dirMapId = [d \in Dirs |-> 0]
  /\ pc = [g \in Goroutines |-> "idle"]
  /\ at \in [Goroutines -> {Cwd}] /\ from = at
  /\ pass = [g \in Goroutines |-> "ts"]
  /\ found = [g \in Goroutines |-> Unresolved]
  /\ fromCache = [g \in Goroutines |-> Absent]
  /\ held = [g \in Goroutines |-> 0]
  /\ calls = [g \in Goroutines |-> 0]

-----------------------------------------------------------------------------
Go(g, p) == pc' = [pc EXCEPT ![g] = p]
Answer(g, r) == found' = [found EXCEPT ![g] = r]

\* ResolveModuleName: a result of the directory itself is the answer.
ResolveModuleName(g) ==
  /\ pc[g] = "idle" /\ calls[g] < MaxCalls
  /\ \E d \in Dirs :
       /\ from' = [from EXCEPT ![g] = d] /\ at' = [at EXCEPT ![g] = d]
       /\ IF directoryMap[d] # Absent THEN Answer(g, directoryMap[d]) /\ Go(g, "answered")
          ELSE Go(g, "walk") /\ UNCHANGED found
  /\ pass' = [pass EXCEPT ![g] = "ts"]
  /\ fromCache' = [fromCache EXCEPT ![g] = Absent]
  /\ calls' = [calls EXCEPT ![g] = @ + 1]
  /\ UNCHANGED <<package, shared, held>>

\* The walk is over with r; what the cache said replaces it (createResolvedModule).
EndWalk(g, r, cached) ==
  /\ Answer(g, IF cached = Absent THEN r ELSE cached)
  /\ Go(g, "getDirectory")
  /\ at' = [at EXCEPT ![g] = Cwd]
  /\ pass' = [pass EXCEPT ![g] = "ts"]

\* The next ancestor, the other pass, or nothing.
Continue(g) ==
  IF ~IsRoot(at[g]) THEN at' = [at EXCEPT ![g] = Parent(@)] /\ UNCHANGED <<pc, pass, found>>
  ELSE IF pass[g] = "ts" THEN /\ at' = [at EXCEPT ![g] = from[g]] /\ pass' = [pass EXCEPT ![g] = "js"]
                              /\ UNCHANGED <<pc, found>>
       ELSE EndWalk(g, Unresolved, fromCache'[g])

\* One ancestor: the cache's result ends the walk if there is none to be found or it is of
\* this pass's kind; else the directory's node_modules are searched.
Step(g) ==
  LET cached == nameMap[at[g]]
      ends == cached = Unresolved \/ (cached # Absent /\ package[cached] = pass[g])
  IN  /\ pc[g] = "walk"
      /\ fromCache' = [fromCache EXCEPT ![g] = IF cached # Absent THEN cached ELSE @]
      /\ IF ends THEN EndWalk(g, cached, cached)
         ELSE IF package[at[g]] = pass[g] THEN EndWalk(g, at[g], fromCache'[g])
              ELSE Continue(g)
      /\ UNCHANGED <<package, shared, from, held, calls>>

\* getOrCreateCacheForDirectory, first half; an existing map is written next.
GetDirectory(g) ==
  /\ pc[g] = "getDirectory"
  /\ held' = [held EXCEPT ![g] = dirMapId[from[g]]]
  /\ Go(g, IF dirMapId[from[g]] = 0 THEN "createDirectory" ELSE "setDirectory")
  /\ UNCHANGED <<package, shared, at, pass, from, found, fromCache, calls>>

\* The second half replaces whatever is there by now.
CreateDirectory(g) ==
  /\ pc[g] = "createDirectory"
  /\ dirMapId' = [dirMapId EXCEPT ![from[g]] = @ + 1]
  /\ directoryMap' = [directoryMap EXCEPT ![from[g]] = Absent]
  /\ held' = [held EXCEPT ![g] = dirMapId[from[g]] + 1]
  /\ Go(g, "setDirectory")
  /\ UNCHANGED <<package, nameMap, nameMapId, at, pass, from, found, fromCache, calls>>

\* A write to a map that was replaced is lost.
SetDirectory(g) ==
  /\ pc[g] = "setDirectory"
  /\ directoryMap' = IF held[g] = dirMapId[from[g]] THEN [directoryMap EXCEPT ![from[g]] = found[g]]
                     ELSE directoryMap
  /\ Go(g, "getName")
  /\ UNCHANGED <<package, nameMap, nameMapId, dirMapId, at, pass, from, found, fromCache, held, calls>>

\* getOrCreateCacheForNonRelativeName, in the same two halves.
GetName(g) ==
  /\ pc[g] = "getName"
  /\ held' = [held EXCEPT ![g] = nameMapId]
  /\ Go(g, IF nameMapId = 0 THEN "createName" ELSE "setName")
  /\ UNCHANGED <<package, shared, at, pass, from, found, fromCache, calls>>

CreateName(g) ==
  /\ pc[g] = "createName"
  /\ nameMapId' = nameMapId + 1
  /\ nameMap' = [d \in Dirs |-> Absent]
  /\ held' = [held EXCEPT ![g] = nameMapId + 1]
  /\ Go(g, "setName")
  /\ UNCHANGED <<package, directoryMap, dirMapId, at, pass, from, found, fromCache, calls>>

\* Variant: every result is good up to the root.
CommonPrefixVariant(d, r) == <<>>

\* Where set stops: getCommonPrefix of the directory and that of the resolved file; the path
\* of a failed lookup is empty, which ToPath makes the current directory.
CommonPrefix(d, r) == Nearest(d, Ancestors(IF r = Unresolved THEN Parent(Cwd) ELSE r))

\* The directories set gives the result: d, and those above it up to the prefix or to the
\* first that has an entry.
Covered(d, r, map) ==
  {a \in Ancestors(d) : /\ Len(a) >= Len(CommonPrefix(d, r))
                        /\ \A b \in Ancestors(d) : Len(a) <= Len(b) /\ Len(b) < Len(d) => map[b] = Absent}

SetName(g) ==
  /\ pc[g] = "setName"
  /\ nameMap' = IF held[g] # nameMapId \/ nameMap[from[g]] # Absent THEN nameMap
                ELSE [d \in Dirs |-> IF d \in Covered(from[g], found[g], nameMap) THEN found[g] ELSE nameMap[d]]
  /\ Go(g, "answered")
  /\ UNCHANGED <<package, directoryMap, nameMapId, dirMapId, at, pass, from, found, fromCache, held, calls>>

\* What the call kept for itself is gone.
Return(g) ==
  /\ pc[g] = "answered" /\ Go(g, "idle") /\ Answer(g, Unresolved)
  /\ at' = [at EXCEPT ![g] = Cwd] /\ from' = [from EXCEPT ![g] = Cwd]
  /\ fromCache' = [fromCache EXCEPT ![g] = Absent]
  /\ held' = [held EXCEPT ![g] = 0]
  /\ UNCHANGED <<package, shared, pass, calls>>

Next == \E g \in Goroutines :
  \/ ResolveModuleName(g) \/ Step(g) \/ GetDirectory(g) \/ CreateDirectory(g) \/ SetDirectory(g)
  \/ GetName(g) \/ CreateName(g) \/ SetName(g) \/ Return(g)

Spec == Init /\ [][Next]_vars

-----------------------------------------------------------------------------
TypeOK ==
  /\ package \in [Dirs -> PackageKinds]
  /\ directoryMap \in [Dirs -> Results \cup {Absent}]
  /\ nameMap \in [Dirs -> Results \cup {Absent}]
  /\ pc \in [Goroutines -> {"idle", "walk", "getDirectory", "createDirectory", "setDirectory", "getName", "createName",
                            "setName", "answered"}]
  /\ pass \in [Goroutines -> {"ts", "js"}]
  /\ at \in [Goroutines -> Dirs] /\ from \in [Goroutines -> Dirs]
  /\ found \in [Goroutines -> Results]
  /\ fromCache \in [Goroutines -> Results \cup {Absent}]
  \* Map objects are created only by goroutines that met none.
  /\ nameMapId \in 0..Cardinality(Goroutines)
  /\ dirMapId \in [Dirs -> 0..Cardinality(Goroutines)]

\* The caches are not seen in the answers: "Do (up to) two passes through node_modules"
\* (resolver.go), whoever asked before from where, and whichever entries were lost.
CacheIsTransparent ==
  \A g \in Goroutines : pc[g] = "answered" => found[g] = Uncached(from[g])

(***************************************************************************)
(* Why it holds where every package has its types: the inductive           *)
(* invariant.                                                              *)
(***************************************************************************)
\* Who found no map object and will create one.
Creators == {g \in Goroutines : pc[g] = "createName"}
DirectoryCreators(d) == {g \in Goroutines : pc[g] = "createDirectory" /\ from[g] = d}

FewObjects ==
  /\ nameMapId + Cardinality(Creators) <= Cardinality(Goroutines)
  /\ \A d \in Dirs : dirMapId[d] + Cardinality(DirectoryCreators(d)) <= Cardinality(Goroutines)

\* What a map says of a directory is true of it.
EntriesAreTrue ==
  \A d \in Dirs : directoryMap[d] \in {Absent, Uncached(d)} /\ nameMap[d] \in {Absent, Uncached(d)}

\* Where a walk is, what it looks for is still to be found; the second pass finds nothing,
\* and no entry that is of the other pass was met.
WalkIsOnItsWay ==
  \A g \in Goroutines : pc[g] = "walk" =>
    /\ fromCache[g] = Absent
    /\ Uncached(at[g]) = Uncached(from[g])
    /\ pass[g] = "js" => Uncached(from[g]) = Unresolved

ResultIsTrue ==
  \A g \in Goroutines : pc[g] \notin {"idle", "walk"} => found[g] = Uncached(from[g])

MapsInv == TypeOK /\ FewObjects
IInv == TypeOK /\ EntriesAreTrue /\ WalkIsOnItsWay /\ ResultIsTrue
==============================================================================
