------------------------ MODULE ResolutionCaches_proofs ------------------------
(***************************************************************************)
(* The caches of the module resolver, for any tree of directories, any     *)
(* goroutines and any number of calls: how many map objects are created,   *)
(* and that where packages have their types the caches are not seen in     *)
(* the answers.                                                            *)
(***************************************************************************)
EXTENDS ResolutionCaches, TLAPS, FiniteSetTheorems, WellFoundedInduction, SequenceTheorems

-----------------------------------------------------------------------------
(***************************************************************************)
(* Types and map objects.                                                  *)
(***************************************************************************)
\* The parent of a directory and those above it are directories.
LEMMA ParentIsADirectory ==
  ASSUME CachesAssumption, NEW d \in Dirs
  PROVE  /\ d \in Seq(STRING) /\ Len(d) \in Nat
         /\ ~IsRoot(d) => Parent(d) \in Dirs
<1>1. d \in Seq(STRING) /\ Len(d) \in Nat
  BY DEF CachesAssumption
<1>2. ASSUME ~IsRoot(d) PROVE Parent(d) \in Dirs
  <2>1. Len(d) - 1 \in 0..Len(d)
    BY <1>1, <1>2, EmptySeq DEF IsRoot
  <2> QED BY <2>1 DEF CachesAssumption, Ancestors, Parent
<1> QED BY <1>1, <1>2

\* A goroutine that neither stops nor starts to create a map changes no count.
LEMMA ObjectsKept ==
  ASSUME TypeOK, FewObjects, NEW g \in Goroutines, NEW p,
         pc' = [pc EXCEPT ![g] = p],
         pc[g] \notin {"createName", "createDirectory"}, p \notin {"createName", "createDirectory"},
         \A h \in Goroutines \ {g} : from'[h] = from[h],
         UNCHANGED <<nameMapId, dirMapId>>
  PROVE  FewObjects'
<1>1. Creators' = Creators
  BY DEF TypeOK, Creators
<1>2. \A d \in Dirs : DirectoryCreators(d)' = DirectoryCreators(d)
  BY DEF TypeOK, DirectoryCreators
<1> QED BY <1>1, <1>2 DEF FewObjects

\* A goroutine joins those that create, while no map object is there; or it has created one.
LEMMA Counted ==
  ASSUME IsFiniteSet(Goroutines), NEW S \in SUBSET Goroutines, NEW g \in Goroutines
  PROVE  /\ IsFiniteSet(S) /\ Cardinality(S) \in Nat /\ Cardinality(Goroutines) \in Nat
         /\ Cardinality(S) <= Cardinality(Goroutines)
         /\ g \in S => Cardinality(S \ {g}) = Cardinality(S) - 1
BY FS_Subset, FS_CardinalityType, FS_RemoveElement

\* Types and counts at the start.
LEMMA InitMapsInv == CachesAssumption /\ Init => MapsInv
<1> SUFFICES ASSUME CachesAssumption, Init PROVE MapsInv
  OBVIOUS
<1>1. Cardinality(Goroutines) \in Nat /\ Cardinality({}) = 0
  BY FS_CardinalityType, FS_EmptySet DEF CachesAssumption
<1>2. TypeOK
  BY <1>1 DEF Init, TypeOK, Results, CachesAssumption
<1>3. Creators = {} /\ \A d \in Dirs : DirectoryCreators(d) = {}
  BY DEF Init, Creators, DirectoryCreators
<1>4. FewObjects
  BY <1>1, <1>3 DEF Init, FewObjects
<1> QED BY <1>2, <1>4 DEF MapsInv

\* A call takes what the directory's own map says or starts to walk.
LEMMA CallMapsInv ==
  ASSUME CachesAssumption, MapsInv, NEW g \in Goroutines, ResolveModuleName(g)
  PROVE  MapsInv'
<1>1. PICK d \in Dirs :
        /\ from' = [from EXCEPT ![g] = d] /\ at' = [at EXCEPT ![g] = d]
        /\ IF directoryMap[d] # Absent THEN Answer(g, directoryMap[d]) /\ Go(g, "answered")
           ELSE Go(g, "walk") /\ UNCHANGED found
  BY DEF ResolveModuleName
<1>2. TypeOK'
  BY <1>1 DEF MapsInv, TypeOK, ResolveModuleName, Answer, Go, shared
<1>3. \E p \in {"answered", "walk"} : pc' = [pc EXCEPT ![g] = p]
  BY <1>1 DEF Go
<1>4. \A h \in Goroutines \ {g} : from'[h] = from[h]
  BY <1>1 DEF MapsInv, TypeOK
<1>5. FewObjects'
  BY <1>3, <1>4, ObjectsKept DEF MapsInv, ResolveModuleName, shared
<1> QED BY <1>2, <1>5 DEF MapsInv

\* What a step of the walk may do to what the goroutine holds.
LEMMA StepForms ==
  ASSUME CachesAssumption, MapsInv, NEW g \in Goroutines, Step(g)
  PROVE  /\ pc[g] = "walk"
         /\ UNCHANGED <<package, shared, from, held, calls>>
         /\ TypeOK'
         /\ pc' = [pc EXCEPT ![g] = "getDirectory"] \/ pc' = pc
<1>1. at[g] \in Dirs /\ nameMap[at[g]] \in Results \cup {Absent} /\ Cwd \in Dirs
  BY DEF MapsInv, TypeOK, CachesAssumption
<1>2. fromCache' \in [Goroutines -> Results \cup {Absent}] /\ fromCache'[g] \in Results \cup {Absent}
  BY <1>1 DEF MapsInv, TypeOK, Step
<1>3. ASSUME NEW r \in Results, NEW c \in Results \cup {Absent}, EndWalk(g, r, c)
      PROVE  /\ pc' = [pc EXCEPT ![g] = "getDirectory"]
             /\ found' \in [Goroutines -> Results] /\ at' \in [Goroutines -> Dirs]
             /\ pass' \in [Goroutines -> {"ts", "js"}]
  BY <1>1, <1>3 DEF MapsInv, TypeOK, EndWalk, Go, Answer
<1>4. ASSUME Continue(g)
      PROVE  /\ pc' = [pc EXCEPT ![g] = "getDirectory"] \/ pc' = pc
             /\ found' \in [Goroutines -> Results] /\ at' \in [Goroutines -> Dirs]
             /\ pass' \in [Goroutines -> {"ts", "js"}]
  <2>1. CASE ~IsRoot(at[g])
    BY <1>1, <1>4, <2>1, ParentIsADirectory DEF MapsInv, TypeOK, Continue
  <2>2. CASE IsRoot(at[g]) /\ pass[g] = "ts"
    BY <1>4, <2>2 DEF MapsInv, TypeOK, Continue
  <2>3. CASE IsRoot(at[g]) /\ pass[g] # "ts"
    <3>1. EndWalk(g, Unresolved, fromCache'[g])
      BY <1>4, <2>3 DEF Continue
    <3> QED BY <1>2, <1>3, <3>1 DEF Results
  <2> QED BY <2>1, <2>2, <2>3
<1>5. /\ pc' = [pc EXCEPT ![g] = "getDirectory"] \/ pc' = pc
      /\ found' \in [Goroutines -> Results] /\ at' \in [Goroutines -> Dirs]
      /\ pass' \in [Goroutines -> {"ts", "js"}]
  <2> DEFINE cached == nameMap[at[g]]
             ends == cached = Unresolved \/ (cached # Absent /\ package[cached] = pass[g])
  <2>1. CASE ends
    <3>1. EndWalk(g, cached, cached) /\ cached \in Results
      BY <1>1, <2>1 DEF Step, Results, CachesAssumption
    <3> QED BY <3>1, <1>3
  <2>2. CASE ~ends /\ package[at[g]] = pass[g]
    <3>1. EndWalk(g, at[g], fromCache'[g])
      BY <2>2 DEF Step
    <3> QED BY <1>1, <1>2, <1>3, <3>1 DEF Results
  <2>3. CASE ~ends /\ package[at[g]] # pass[g]
    <3>1. Continue(g)
      BY <2>3 DEF Step
    <3> QED BY <3>1, <1>4
  <2> QED BY <2>1, <2>2, <2>3
<1>6. UNCHANGED <<package, shared, from, held, calls>> /\ pc[g] = "walk"
  BY DEF Step
<1>7. TypeOK'
  BY <1>2, <1>5, <1>6 DEF MapsInv, TypeOK, shared
<1> QED BY <1>5, <1>6, <1>7

\* A step of the walk.
LEMMA StepMapsInv ==
  ASSUME CachesAssumption, MapsInv, NEW g \in Goroutines, Step(g)
  PROVE  MapsInv'
<1>1. CASE pc' = [pc EXCEPT ![g] = "getDirectory"]
  BY <1>1, StepForms, ObjectsKept DEF MapsInv, shared
<1>2. CASE pc' = pc
  BY <1>2, StepForms DEF MapsInv, FewObjects, Creators, DirectoryCreators, shared
<1> QED BY <1>1, <1>2, StepForms

\* A goroutine that finds no map of its directory is one more that will create it.
LEMMA GetDirectoryMapsInv ==
  ASSUME CachesAssumption, MapsInv, NEW g \in Goroutines, GetDirectory(g)
  PROVE  MapsInv'
<1>1. TypeOK'
  BY DEF MapsInv, TypeOK, GetDirectory, Go, shared
<1>2. CASE dirMapId[from[g]] # 0
  <2>1. pc[g] = "getDirectory" /\ pc' = [pc EXCEPT ![g] = "setDirectory"] /\ UNCHANGED <<from, nameMapId, dirMapId>>
    BY <1>2 DEF GetDirectory, Go, shared
  <2> QED BY <1>1, <2>1, ObjectsKept DEF MapsInv
<1>3. CASE dirMapId[from[g]] = 0
  <2>1. Creators' = Creators
    BY DEF MapsInv, TypeOK, GetDirectory, Go, Creators
  <2>2. ASSUME NEW d \in Dirs PROVE (dirMapId[d] + Cardinality(DirectoryCreators(d)) <= Cardinality(Goroutines))'
    <3>1. CASE d = from[g]
      <4>1. dirMapId'[d] = 0
        BY <1>3, <3>1 DEF GetDirectory, shared
      <4>2. DirectoryCreators(d)' \in SUBSET Goroutines
        BY DEF DirectoryCreators
      <4>3. Cardinality(DirectoryCreators(d)') \in Nat /\ Cardinality(DirectoryCreators(d)') <= Cardinality(Goroutines)
        BY <4>2, Counted DEF CachesAssumption
      <4> QED BY <4>1, <4>3
    <3>2. CASE d # from[g]
      <4>1. DirectoryCreators(d)' = DirectoryCreators(d) /\ dirMapId'[d] = dirMapId[d]
        BY <3>2 DEF MapsInv, TypeOK, GetDirectory, Go, DirectoryCreators, shared
      <4> QED BY <4>1 DEF MapsInv, FewObjects
    <3> QED BY <3>1, <3>2
  <2> QED BY <1>1, <2>1, <2>2 DEF MapsInv, FewObjects, GetDirectory, shared
<1> QED BY <1>1, <1>2, <1>3 DEF MapsInv

\* One object more, one goroutine less that will create one.
LEMMA CreateDirectoryMapsInv ==
  ASSUME CachesAssumption, MapsInv, NEW g \in Goroutines, CreateDirectory(g)
  PROVE  MapsInv'
<1>0. PICK f \in Dirs : f = from[g]
  BY DEF MapsInv, TypeOK
<1>1. f \in Dirs /\ g \in DirectoryCreators(f) /\ DirectoryCreators(f) \in SUBSET Goroutines
  BY <1>0 DEF MapsInv, TypeOK, CreateDirectory, DirectoryCreators
<1>2. DirectoryCreators(f)' = DirectoryCreators(f) \ {g}
  BY <1>0 DEF MapsInv, TypeOK, CreateDirectory, Go, DirectoryCreators
<1>3. \A d \in Dirs \ {f} : DirectoryCreators(d)' = DirectoryCreators(d) /\ dirMapId'[d] = dirMapId[d]
  BY <1>0 DEF MapsInv, TypeOK, CreateDirectory, Go, DirectoryCreators
<1>4. Creators' = Creators /\ nameMapId' = nameMapId
  BY DEF MapsInv, TypeOK, CreateDirectory, Go, Creators
<1>5. dirMapId'[f] = dirMapId[f] + 1 /\ dirMapId[f] \in Nat
  BY <1>0 DEF MapsInv, TypeOK, CreateDirectory
<1>6. FewObjects'
  <2>1. Cardinality(DirectoryCreators(f)') = Cardinality(DirectoryCreators(f)) - 1
    BY <1>1, <1>2, Counted DEF CachesAssumption
  <2>2. Cardinality(DirectoryCreators(f)) \in Nat /\ Cardinality(Goroutines) \in Nat
    BY <1>1, Counted DEF CachesAssumption
  <2>3. dirMapId[f] + Cardinality(DirectoryCreators(f)) <= Cardinality(Goroutines)
    BY <1>1 DEF MapsInv, FewObjects
  <2>4. dirMapId'[f] + Cardinality(DirectoryCreators(f)') <= Cardinality(Goroutines)
    BY <1>5, <2>1, <2>2, <2>3
  <2>5. \A d \in Dirs : dirMapId'[d] + Cardinality(DirectoryCreators(d)') <= Cardinality(Goroutines)
    <3> SUFFICES ASSUME NEW d \in Dirs
                 PROVE  dirMapId'[d] + Cardinality(DirectoryCreators(d)') <= Cardinality(Goroutines)
      OBVIOUS
    <3>1. CASE d # f
      BY <1>3, <3>1 DEF MapsInv, FewObjects
    <3>2. CASE d = f
      BY <2>4, <3>2
    <3> QED BY <3>1, <3>2
  <2> QED BY <1>4, <2>5 DEF MapsInv, FewObjects
<1>7. dirMapId[f] + 1 \in 0..Cardinality(Goroutines)
  <2>1. Cardinality(DirectoryCreators(f)) \in Nat \ {0} /\ Cardinality(Goroutines) \in Nat
    BY <1>1, Counted, FS_EmptySet DEF CachesAssumption
  <2> QED BY <1>1, <1>5, <2>1 DEF MapsInv, FewObjects
<1>8. dirMapId' \in [Dirs -> 0..Cardinality(Goroutines)]
  BY <1>0, <1>7 DEF MapsInv, TypeOK, CreateDirectory
<1>9. TypeOK'
  BY <1>8 DEF MapsInv, TypeOK, CreateDirectory, Go
<1> QED BY <1>6, <1>9 DEF MapsInv

\* The result is put into a map.
LEMMA SetDirectoryMapsInv ==
  ASSUME CachesAssumption, MapsInv, NEW g \in Goroutines, SetDirectory(g)
  PROVE  MapsInv'
<1>1. TypeOK'
  BY DEF MapsInv, TypeOK, SetDirectory, Go
<1> QED BY <1>1, ObjectsKept DEF MapsInv, SetDirectory, Go

\* A goroutine that finds no map of the name is one more that will create it.
LEMMA GetNameMapsInv ==
  ASSUME CachesAssumption, MapsInv, NEW g \in Goroutines, GetName(g)
  PROVE  MapsInv'
<1>1. TypeOK'
  BY DEF MapsInv, TypeOK, GetName, Go, shared
<1>2. CASE nameMapId # 0
  BY <1>1, <1>2, ObjectsKept DEF MapsInv, GetName, Go, shared
<1>3. CASE nameMapId = 0
  <2>1. \A d \in Dirs : DirectoryCreators(d)' = DirectoryCreators(d)
    BY DEF MapsInv, TypeOK, GetName, Go, DirectoryCreators
  <2>2. Creators' \in SUBSET Goroutines
    BY DEF Creators
  <2>3. Cardinality(Creators') \in Nat /\ Cardinality(Creators') <= Cardinality(Goroutines)
    BY <2>2, Counted DEF CachesAssumption
  <2>4. nameMapId' + Cardinality(Creators') <= Cardinality(Goroutines)
    BY <1>3, <2>3 DEF GetName, shared
  <2> QED BY <1>1, <2>1, <2>4 DEF MapsInv, FewObjects, GetName, shared
<1> QED BY <1>2, <1>3

\* One object more, one goroutine less that will create one.
LEMMA CreateNameMapsInv ==
  ASSUME CachesAssumption, MapsInv, NEW g \in Goroutines, CreateName(g)
  PROVE  MapsInv'
<1>1. g \in Creators /\ Creators \in SUBSET Goroutines
  BY DEF CreateName, Creators
<1>2. Creators' = Creators \ {g}
  BY DEF MapsInv, TypeOK, CreateName, Go, Creators
<1>3. \A d \in Dirs : DirectoryCreators(d)' = DirectoryCreators(d) /\ dirMapId'[d] = dirMapId[d]
  BY DEF MapsInv, TypeOK, CreateName, Go, DirectoryCreators
<1>4. Cardinality(Creators') = Cardinality(Creators) - 1 /\ Cardinality(Creators) \in Nat \ {0}
      /\ Cardinality(Goroutines) \in Nat
  BY <1>1, <1>2, Counted, FS_EmptySet DEF CachesAssumption
<1>5. FewObjects' /\ nameMapId' \in 0..Cardinality(Goroutines)
  BY <1>3, <1>4 DEF MapsInv, TypeOK, FewObjects, CreateName
<1>6. TypeOK'
  BY <1>5 DEF MapsInv, TypeOK, CreateName, Go
<1> QED BY <1>5, <1>6 DEF MapsInv

\* The result is put into the map of the name.
LEMMA SetNameMapsInv ==
  ASSUME CachesAssumption, MapsInv, NEW g \in Goroutines, SetName(g)
  PROVE  MapsInv'
<1>1. TypeOK'
  BY DEF MapsInv, TypeOK, SetName, Go
<1> QED BY <1>1, ObjectsKept DEF MapsInv, SetName, Go

\* The call is over.
LEMMA ReturnMapsInv ==
  ASSUME CachesAssumption, MapsInv, NEW g \in Goroutines, Return(g)
  PROVE  MapsInv'
<1>1. TypeOK'
  BY DEF MapsInv, TypeOK, Return, Go, Answer, Results, CachesAssumption, shared
<1>2. pc' = [pc EXCEPT ![g] = "idle"] /\ \A h \in Goroutines \ {g} : from'[h] = from[h]
  BY DEF MapsInv, TypeOK, Return, Go
<1> QED BY <1>1, <1>2, ObjectsKept DEF MapsInv, Return, shared

\* Types and counts are kept.
LEMMA NextMapsInv ==
  ASSUME CachesAssumption, MapsInv, [Next]_vars
  PROVE  MapsInv'
<1>1. CASE UNCHANGED vars
  BY <1>1 DEF vars, shared, local, MapsInv, TypeOK, FewObjects, Creators, DirectoryCreators
<1>2. CASE Next
  BY <1>2, CallMapsInv, StepMapsInv, GetDirectoryMapsInv, CreateDirectoryMapsInv, SetDirectoryMapsInv, GetNameMapsInv,
     CreateNameMapsInv, SetNameMapsInv, ReturnMapsInv DEF Next
<1> QED BY <1>1, <1>2

\* The caches' state is of its types, and no more objects of one map are created than there
\* are goroutines: each may find none, but none creates two.
THEOREM MapsInvariant == CachesAssumption => (Spec => []MapsInv)
<1> SUFFICES ASSUME CachesAssumption PROVE Spec => []MapsInv
  OBVIOUS
<1>1. Init => MapsInv
  BY InitMapsInv
<1>2. MapsInv /\ [Next]_vars => MapsInv'
  BY NextMapsInv
<1> QED BY <1>1, <1>2, PTL DEF Spec

-----------------------------------------------------------------------------
(***************************************************************************)
(* Directories: prefixes of a path, the nearest of a set above one.        *)
(***************************************************************************)
\* A prefix is told by its length, and a prefix of a prefix is one.
LEMMA Prefixes ==
  ASSUME CachesAssumption, NEW d \in Dirs, NEW n \in 0..Len(d)
  PROVE  /\ SubSeq(d, 1, n) \in Dirs /\ Len(SubSeq(d, 1, n)) = n
         /\ \A m \in 0..n : SubSeq(SubSeq(d, 1, n), 1, m) = SubSeq(d, 1, m)
<1>1. d \in Seq(STRING) /\ Len(d) \in Nat
  BY DEF CachesAssumption
<1>2. \A m \in 0..Len(d) : /\ SubSeq(d, 1, m) \in Seq(STRING) /\ Len(SubSeq(d, 1, m)) = m
                           /\ \A i \in 1..m : SubSeq(d, 1, m)[i] = d[i]
  <2> SUFFICES ASSUME NEW m \in 0..Len(d)
               PROVE  /\ SubSeq(d, 1, m) \in Seq(STRING) /\ Len(SubSeq(d, 1, m)) = m
                      /\ \A i \in 1..m : SubSeq(d, 1, m)[i] = d[i]
    OBVIOUS
  <2>1. \A i \in 1..m : d[i] \in STRING
    BY <1>1, ElementOfSeq
  <2> QED BY <1>1, <2>1, SubSeqProperties
<1>3. ASSUME NEW m \in 0..n PROVE SubSeq(SubSeq(d, 1, n), 1, m) = SubSeq(d, 1, m)
  <2> DEFINE p == SubSeq(d, 1, n)
  <2>1. p \in Seq(STRING) /\ \A i \in 1..n : p[i] = d[i] /\ p[i] \in STRING
    BY <1>1, <1>2, ElementOfSeq
  <2>2. /\ SubSeq(p, 1, m) \in Seq(STRING) /\ Len(SubSeq(p, 1, m)) = m
        /\ \A i \in 1..m : SubSeq(p, 1, m)[i] = p[i]
    <3> HIDE DEF p
    <3> QED BY <2>1, SubSeqProperties
  <2>3. /\ SubSeq(d, 1, m) \in Seq(STRING) /\ Len(SubSeq(d, 1, m)) = m
        /\ \A i \in 1..m : SubSeq(d, 1, m)[i] = d[i]
    BY <1>1, <1>2
  <2> HIDE DEF p
  <2>4. SubSeq(p, 1, m) = SubSeq(d, 1, m)
    BY <2>1, <2>2, <2>3, SeqEqual
  <2> QED BY <2>4 DEF p
<1> QED BY <1>1, <1>2, <1>3 DEF CachesAssumption, Ancestors

\* The directories above d, and d: one of each length.
LEMMA AncestorFacts ==
  ASSUME CachesAssumption, NEW d \in Dirs
  PROVE  /\ d \in Ancestors(d)
         /\ \A a \in Ancestors(d) : a \in Dirs /\ Len(a) \in 0..Len(d)
         /\ \A a, b \in Ancestors(d) : Len(a) = Len(b) => a = b
         /\ \A a, b \in Ancestors(d) : b \in Ancestors(a) <=> Len(b) <= Len(a)
         /\ \A a \in Ancestors(d) : Ancestors(a) \subseteq Ancestors(d)
<1>1. d \in Seq(STRING) /\ Len(d) \in Nat
  BY DEF CachesAssumption
<1>2. d \in Ancestors(d)
  BY <1>1, SubSeqFull DEF Ancestors
<1>3. \A a \in Ancestors(d) : a \in Dirs /\ Len(a) \in 0..Len(d) /\ a = SubSeq(d, 1, Len(a))
  BY <1>1, Prefixes DEF Ancestors
<1>4. ASSUME NEW a \in Ancestors(d), NEW b \in Ancestors(a) PROVE b \in Ancestors(d) /\ Len(b) <= Len(a)
  <2>1. PICK n \in 0..Len(d) : a = SubSeq(d, 1, n)
    BY DEF Ancestors
  <2>2. Len(a) = n
    BY <2>1, Prefixes
  <2>3. PICK m \in 0..n : b = SubSeq(a, 1, m)
    BY <2>2 DEF Ancestors
  <2>4. b = SubSeq(d, 1, m)
    BY <2>1, <2>3, Prefixes
  <2>5. m \in 0..Len(d)
    BY <1>1, <2>1
  <2>6. Len(b) = m
    BY <2>4, <2>5, Prefixes
  <2> QED BY <2>2, <2>4, <2>5, <2>6 DEF Ancestors
<1>5. ASSUME NEW a \in Ancestors(d), NEW b \in Ancestors(d), Len(b) <= Len(a) PROVE b \in Ancestors(a)
  <2>1. Len(a) \in 0..Len(d) /\ Len(b) \in 0..Len(a)
    BY <1>1, <1>3, <1>5
  <2>2. b = SubSeq(a, 1, Len(b))
    BY <1>3, <2>1, Prefixes
  <2> QED BY <2>1, <2>2 DEF Ancestors
<1> QED BY <1>2, <1>3, <1>4, <1>5

\* Of natural numbers below a bound one is the greatest.
LEMMA Greatest ==
  ASSUME NEW S \in SUBSET Nat, NEW N \in Nat, S # {}, \A x \in S : x <= N
  PROVE  \E m \in S : \A x \in S : x <= m
<1> DEFINE T == {x..N : x \in S}
<1>1. T \subseteq FiniteSubsetsOf(0..N) /\ T # {}
  <2>1. \A x \in S : x..N \in FiniteSubsetsOf(0..N)
    <3> SUFFICES ASSUME NEW x \in S PROVE x..N \in FiniteSubsetsOf(0..N)
      OBVIOUS
    <3>1. IsFiniteSet(x..N)
      BY FS_Interval
    <3>2. x..N \in SUBSET (0..N)
      OBVIOUS
    <3> QED BY <3>1, <3>2 DEF FiniteSubsetsOf
  <2> QED BY <2>1
<1>2. \E t \in T : \A u \in T : <<u, t>> \notin StrictSubsetOrdering(0..N)
  <2> HIDE DEF T
  <2> QED BY <1>1, FS_StrictSubsetOrderingWellFounded, WFMin
<1>3. PICK m \in S : \A u \in T : <<u, m..N>> \notin StrictSubsetOrdering(0..N)
  BY <1>2
<1>4. ASSUME NEW x \in S, ~(x <= m) PROVE FALSE
  <2>1. <<x..N, m..N>> \in (SUBSET (0..N)) \X (SUBSET (0..N))
    OBVIOUS
  <2>2. x..N \subseteq m..N
    BY <1>4
  <2>3. x..N # m..N
    BY <1>4
  <2>4. <<x..N, m..N>> \in StrictSubsetOrdering(0..N)
    BY <2>1, <2>2, <2>3, Zenon DEF StrictSubsetOrdering
  <2> QED BY <2>4, <1>3
<1> QED BY <1>3, <1>4

\* The nearest directory of a set is one of them, and none is nearer.
LEMMA NearestFacts ==
  ASSUME CachesAssumption, NEW d \in Dirs, NEW S, Ancestors(d) \cap S # {}
  PROVE  /\ Nearest(d, S) \in Ancestors(d) \cap S
         /\ \A b \in Ancestors(d) \cap S : Len(b) <= Len(Nearest(d, S))
<1> DEFINE lengths == {Len(a) : a \in Ancestors(d) \cap S}
<1>0. Len(d) \in Nat /\ \A a \in Ancestors(d) : Len(a) \in 0..Len(d)
  BY AncestorFacts DEF CachesAssumption
<1>1. /\ lengths \in SUBSET Nat /\ lengths # {}
      /\ \A x \in lengths : x <= Len(d)
  BY <1>0
<1>2. \E m \in lengths : \A x \in lengths : x <= m
  <2> HIDE DEF lengths
  <2> QED BY <1>0, <1>1, Greatest
<1>3. \E a \in Ancestors(d) \cap S : \A b \in Ancestors(d) \cap S : Len(b) <= Len(a)
  BY <1>2
<1> QED BY <1>3 DEF Nearest

\* It is the one that is.
LEMMA NearestIs ==
  ASSUME CachesAssumption, NEW d \in Dirs, NEW S, NEW a \in Ancestors(d) \cap S,
         \A b \in Ancestors(d) \cap S : Len(b) <= Len(a)
  PROVE  Nearest(d, S) = a
<1> DEFINE n == Nearest(d, S)
<1>1. n \in Ancestors(d) \cap S /\ \A b \in Ancestors(d) \cap S : Len(b) <= Len(n)
  BY NearestFacts
<1> HIDE DEF n
<1>2. Len(n) <= Len(a) /\ Len(a) <= Len(n) /\ Len(n) \in Nat /\ Len(a) \in Nat
  BY <1>1, AncestorFacts
<1>3. n = a
  BY <1>1, <1>2, AncestorFacts
<1> QED BY <1>3 DEF n

-----------------------------------------------------------------------------
(***************************************************************************)
(* What the resolution without caches says of directories above each other, *)
(* where every package has its types.                                      *)
(***************************************************************************)
\* One pass finds what there is to find.
LEMMA UncachedIs ==
  ASSUME CachesAssumption, "js" \notin PackageKinds, TypeOK, NEW d \in Dirs
  PROVE  /\ Uncached(d) = IF Ancestors(d) \cap Holding("ts") # {} THEN Nearest(d, Holding("ts")) ELSE Unresolved
         /\ Uncached(d) \in Results /\ Uncached(d) # Absent
         /\ Uncached(d) # Unresolved => package[Uncached(d)] = "ts"
<1> DEFINE H == Holding("ts")
<1>1. Holding("js") = {}
  BY DEF TypeOK, Holding
<1>2. Uncached(d) = IF Ancestors(d) \cap H # {} THEN Nearest(d, H) ELSE Unresolved
  BY <1>1 DEF Uncached
<1>3. Ancestors(d) \cap H # {} => Nearest(d, H) \in H
  BY NearestFacts
<1>4. H \subseteq Dirs /\ \A a \in H : package[a] = "ts"
  BY DEF Holding
<1> QED BY <1>2, <1>3, <1>4 DEF Results, CachesAssumption

\* A directory has the package, or it is for those above it to say.
LEMMA UncachedAbove ==
  ASSUME CachesAssumption, "js" \notin PackageKinds, TypeOK, NEW d \in Dirs
  PROVE  /\ package[d] = "ts" => Uncached(d) = d
         /\ package[d] # "ts" /\ IsRoot(d) => Uncached(d) = Unresolved
         /\ package[d] # "ts" /\ ~IsRoot(d) => Uncached(Parent(d)) = Uncached(d)
<1> DEFINE H == Holding("ts")
<1>1. Len(d) \in Nat /\ d \in Seq(STRING)
  BY DEF CachesAssumption
<1>2. ASSUME package[d] = "ts" PROVE Uncached(d) = d
  <2>1. d \in Ancestors(d) \cap H
    BY <1>2, AncestorFacts DEF Holding
  <2>2. \A b \in Ancestors(d) \cap H : Len(b) <= Len(d)
    BY <1>1, AncestorFacts
  <2>3. Nearest(d, H) = d
    <3> HIDE DEF H
    <3> QED BY <2>1, <2>2, NearestIs
  <2> QED BY <2>1, <2>3, UncachedIs
<1>3. ASSUME package[d] # "ts", IsRoot(d) PROVE Uncached(d) = Unresolved
  <2>1. Len(d) = 0
    BY <1>3 DEF IsRoot
  <2>2. \A a \in Ancestors(d) : Len(a) = 0
    BY <2>1, AncestorFacts
  <2>3. \A a \in Ancestors(d) : a = d
    BY <2>1, <2>2, AncestorFacts
  <2>4. Ancestors(d) \cap H = {}
    BY <1>3, <2>3 DEF Holding
  <2> QED BY <2>4, UncachedIs
<1>4. ASSUME package[d] # "ts", ~IsRoot(d) PROVE Uncached(Parent(d)) = Uncached(d)
  <2> DEFINE p == Parent(d)
  <2>1. Len(d) - 1 \in 0..Len(d)
    BY <1>1, <1>4, EmptySeq DEF IsRoot
  <2>2. p \in Dirs /\ p \in Ancestors(d) /\ Len(p) = Len(d) - 1
    BY <2>1, Prefixes DEF Parent, Ancestors
  <2> HIDE DEF p
  <2>3. \A a \in Ancestors(d) : a = d \/ a \in Ancestors(p)
    <3> SUFFICES ASSUME NEW a \in Ancestors(d), a # d PROVE a \in Ancestors(p)
      OBVIOUS
    <3>1. Len(a) \in 0..Len(d) /\ Len(a) # Len(d)
      BY AncestorFacts
    <3>2. Len(a) <= Len(p)
      BY <1>1, <2>2, <3>1
    <3> QED BY <2>2, <3>2, AncestorFacts
  <2>4. Ancestors(p) \subseteq Ancestors(d)
    BY <2>2, AncestorFacts
  <2>5. Ancestors(p) \cap H = Ancestors(d) \cap H
    BY <1>4, <2>3, <2>4 DEF Holding
  <2>6. CASE Ancestors(d) \cap H = {}
    BY <2>2, <2>5, <2>6, UncachedIs DEF p
  <2>7. CASE Ancestors(d) \cap H # {}
    <3> DEFINE n == Nearest(d, H)
    <3>1. n \in Ancestors(d) \cap H /\ \A b \in Ancestors(d) \cap H : Len(b) <= Len(n)
      <4> HIDE DEF H
      <4> QED BY <2>7, NearestFacts
    <3> HIDE DEF n
    <3>2. Nearest(p, H) = n
      <4> HIDE DEF H
      <4> QED BY <2>2, <2>5, <3>1, NearestIs
    <3> QED BY <2>2, <2>5, <2>7, <3>2, UncachedIs DEF n, p
  <2> QED BY <2>6, <2>7
<1> QED BY <1>2, <1>3, <1>4

\* The directories that set gives a true result have that result.
LEMMA UncachedCovered ==
  ASSUME CachesAssumption, "js" \notin PackageKinds, TypeOK, NEW d \in Dirs, NEW map,
         NEW a \in Covered(d, Uncached(d), map)
  PROVE  a \in Dirs /\ Uncached(a) = Uncached(d)
<1> DEFINE H == Holding("ts")
           r == Uncached(d)
<1>1. a \in Dirs /\ a \in Ancestors(d) /\ Ancestors(a) \subseteq Ancestors(d)
  BY AncestorFacts DEF Covered
<1>2. CASE Ancestors(d) \cap H = {}
  BY <1>1, <1>2, UncachedIs
<1>3. CASE Ancestors(d) \cap H # {}
  <2>1. r = Nearest(d, H)
    BY <1>3, UncachedIs
  <2>2. r \in Ancestors(d) \cap H /\ \A b \in Ancestors(d) \cap H : Len(b) <= Len(r)
    <3> HIDE DEF r, H
    <3> QED BY <1>3, <2>1, NearestFacts
  <2>3. r \in Dirs /\ r # Unresolved
    BY <2>2 DEF Holding, CachesAssumption
  <2>4. CommonPrefix(d, r) = r
    <3> HIDE DEF r
    <3>1. r \in Ancestors(d) \cap Ancestors(r) /\ \A b \in Ancestors(d) \cap Ancestors(r) : Len(b) <= Len(r)
      BY <2>2, <2>3, AncestorFacts DEF CachesAssumption
    <3>2. Nearest(d, Ancestors(r)) = r
      BY <3>1, NearestIs
    <3> QED BY <2>3, <3>2 DEF CommonPrefix
  <2>5. Len(r) <= Len(a)
    BY <2>4 DEF Covered
  <2>6. r \in Ancestors(a) \cap H
    <3> HIDE DEF r, H
    <3> QED BY <1>1, <2>2, <2>5, AncestorFacts
  <2>7. Nearest(a, H) = r
    <3> HIDE DEF r, H
    <3> QED BY <1>1, <2>2, <2>6, NearestIs
  <2> QED BY <1>1, <2>6, <2>7, UncachedIs
<1> QED BY <1>2, <1>3

-----------------------------------------------------------------------------
(***************************************************************************)
(* The entries, the walks and the answers are true.                        *)
(***************************************************************************)
\* What is to be found does not change.
LEMMA UncachedKept ==
  ASSUME package' = package
  PROVE  \A d : Uncached(d)' = Uncached(d)
BY DEF Uncached, Holding

\* At the start there is no entry and no walk.
LEMMA InitIInv == CachesAssumption /\ Init => IInv
<1> SUFFICES ASSUME CachesAssumption, Init PROVE IInv
  OBVIOUS
<1>1. TypeOK
  BY InitMapsInv DEF MapsInv
<1> QED BY <1>1 DEF Init, IInv, EntriesAreTrue, WalkIsOnItsWay, ResultIsTrue

\* A call's answer is an entry of its directory's map, or its walk begins at the directory.
LEMMA CallIInv ==
  ASSUME CachesAssumption, IInv, TypeOK', NEW g \in Goroutines, ResolveModuleName(g)
  PROVE  IInv'
<1>1. PICK d \in Dirs :
        /\ from' = [from EXCEPT ![g] = d] /\ at' = [at EXCEPT ![g] = d]
        /\ IF directoryMap[d] # Absent THEN Answer(g, directoryMap[d]) /\ Go(g, "answered")
           ELSE Go(g, "walk") /\ UNCHANGED found
  BY DEF ResolveModuleName
<1>2. \A e : Uncached(e)' = Uncached(e)
  BY UncachedKept DEF ResolveModuleName
<1>3. EntriesAreTrue'
  BY <1>2 DEF IInv, EntriesAreTrue, ResolveModuleName, shared
<1>4. WalkIsOnItsWay'
  BY <1>1, <1>2 DEF IInv, TypeOK, WalkIsOnItsWay, ResolveModuleName, Answer, Go
<1>5. ResultIsTrue'
  BY <1>1, <1>2 DEF IInv, TypeOK, EntriesAreTrue, ResultIsTrue, ResolveModuleName, Answer, Go
<1> QED BY <1>3, <1>4, <1>5 DEF IInv

\* A walk ends with what is to be found, or it goes on where that is still to be found.
LEMMA StepIInv ==
  ASSUME CachesAssumption, "js" \notin PackageKinds, IInv, TypeOK', NEW g \in Goroutines, Step(g)
  PROVE  IInv'
<1> DEFINE cached == nameMap[at[g]]
           ends == cached = Unresolved \/ (cached # Absent /\ package[cached] = pass[g])
<1>1. /\ pc[g] = "walk" /\ package' = package /\ from' = from
      /\ directoryMap' = directoryMap /\ nameMap' = nameMap
  BY DEF Step, shared
<1>2. \A e : Uncached(e)' = Uncached(e)
  BY <1>1, UncachedKept
<1>3. /\ at[g] \in Dirs /\ from[g] \in Dirs /\ pass[g] \in {"ts", "js"} /\ package[at[g]] \in PackageKinds
      /\ cached \in {Absent, Uncached(at[g])}
      /\ fromCache[g] = Absent /\ Uncached(at[g]) = Uncached(from[g])
      /\ pass[g] = "js" => Uncached(from[g]) = Unresolved
  BY <1>1 DEF IInv, TypeOK, EntriesAreTrue, WalkIsOnItsWay
<1>4. /\ Uncached(at[g]) # Absent /\ Unresolved # Absent /\ at[g] # Unresolved
      /\ Uncached(at[g]) # Unresolved => package[Uncached(at[g])] = "ts"
      /\ package[at[g]] = "ts" => Uncached(at[g]) = at[g]
      /\ package[at[g]] # "ts" /\ IsRoot(at[g]) => Uncached(at[g]) = Unresolved
      /\ package[at[g]] # "ts" /\ ~IsRoot(at[g]) => Uncached(Parent(at[g])) = Uncached(at[g])
  BY <1>3, UncachedIs, UncachedAbove DEF IInv, CachesAssumption
<1>5. EntriesAreTrue'
  BY <1>1, <1>2 DEF IInv, EntriesAreTrue
\* The walk ends.
<1>6. ASSUME NEW r, NEW c, EndWalk(g, r, c), Uncached(from[g]) = IF c = Absent THEN r ELSE c
      PROVE  WalkIsOnItsWay' /\ ResultIsTrue'
  <2>1. pc' = [pc EXCEPT ![g] = "getDirectory"] /\ found' = [found EXCEPT ![g] = Uncached(from[g])]
    BY <1>6 DEF EndWalk, Go, Answer
  <2>2. \A h \in Goroutines \ {g} : /\ pc'[h] = pc[h] /\ found'[h] = found[h] /\ from'[h] = from[h]
                                    /\ fromCache'[h] = fromCache[h] /\ at'[h] = at[h] /\ pass'[h] = pass[h]
    BY <1>1, <1>6, <2>1 DEF IInv, TypeOK, EndWalk, Step
  <2>3. pc'[g] = "getDirectory" /\ found'[g] = Uncached(from[g])
    BY <2>1 DEF IInv, TypeOK
  <2> QED BY <1>1, <1>2, <2>2, <2>3 DEF IInv, WalkIsOnItsWay, ResultIsTrue
\* The walk goes on.
<1>7. ASSUME pc' = pc, found' = found, fromCache'[g] = Absent,
             \A h \in Goroutines \ {g} : fromCache'[h] = fromCache[h] /\ at'[h] = at[h] /\ pass'[h] = pass[h],
             Uncached(at'[g]) = Uncached(from[g]),
             pass'[g] = "js" => Uncached(from[g]) = Unresolved
      PROVE  WalkIsOnItsWay' /\ ResultIsTrue'
  BY <1>1, <1>2, <1>7 DEF IInv, WalkIsOnItsWay, ResultIsTrue
<1> SUFFICES WalkIsOnItsWay' /\ ResultIsTrue'
  BY <1>5 DEF IInv
<1>8. CASE ends
  BY <1>3, <1>4, <1>6, <1>8 DEF Step
<1>9. CASE ~ends
  <2>1. cached = Absent
    BY <1>3, <1>4, <1>9
  <2>2. fromCache' = fromCache /\ fromCache'[g] = Absent
    BY <1>3, <2>1 DEF IInv, TypeOK, Step
  <2>3. CASE package[at[g]] = pass[g]
    BY <1>3, <1>4, <1>6, <1>9, <2>2, <2>3 DEF Step
  <2>4. CASE package[at[g]] # pass[g]
    <3>1. Continue(g) /\ package[at[g]] # "ts"
      BY <1>3, <1>4, <1>9, <2>4 DEF Step
    <3>2. CASE ~IsRoot(at[g])
      <4>1. at' = [at EXCEPT ![g] = Parent(at[g])] /\ UNCHANGED <<pc, pass, found>>
        BY <3>1, <3>2 DEF Continue
      <4>2. at'[g] = Parent(at[g]) /\ \A h \in Goroutines \ {g} : at'[h] = at[h]
        BY <4>1 DEF IInv, TypeOK
      <4> QED BY <1>3, <1>4, <1>7, <2>2, <3>1, <3>2, <4>1, <4>2
    <3>3. CASE IsRoot(at[g]) /\ pass[g] = "ts"
      <4>1. at' = [at EXCEPT ![g] = from[g]] /\ pass' = [pass EXCEPT ![g] = "js"] /\ UNCHANGED <<pc, found>>
        BY <3>1, <3>3 DEF Continue
      <4>2. at'[g] = from[g] /\ \A h \in Goroutines \ {g} : at'[h] = at[h] /\ pass'[h] = pass[h]
        BY <4>1 DEF IInv, TypeOK
      <4> QED BY <1>3, <1>4, <1>7, <2>2, <3>1, <3>3, <4>1, <4>2
    <3>4. CASE IsRoot(at[g]) /\ pass[g] # "ts"
      <4>1. EndWalk(g, Unresolved, fromCache'[g])
        BY <3>1, <3>4 DEF Continue
      <4> QED BY <1>3, <1>6, <2>2, <3>4, <4>1
    <3> QED BY <3>2, <3>3, <3>4
  <2> QED BY <2>3, <2>4
<1> QED BY <1>8, <1>9

\* A goroutine that has its result asks for a map, creates one, or writes to its directory's:
\* no entry, or its result.
LEMMA HoldIInv ==
  ASSUME CachesAssumption, IInv, TypeOK', NEW g \in Goroutines,
         GetDirectory(g) \/ CreateDirectory(g) \/ SetDirectory(g) \/ GetName(g) \/ CreateName(g)
  PROVE  IInv'
<1>1. /\ package' = package /\ UNCHANGED <<at, pass, from, found, fromCache>>
      /\ pc[g] \notin {"idle", "walk"} /\ \E p : p \notin {"idle", "walk"} /\ pc' = [pc EXCEPT ![g] = p]
  BY DEF GetDirectory, CreateDirectory, SetDirectory, GetName, CreateName, Go
<1>2. \A e : Uncached(e)' = Uncached(e)
  BY <1>1, UncachedKept
<1>3. from[g] \in Dirs /\ found[g] = Uncached(from[g])
  BY <1>1 DEF IInv, TypeOK, ResultIsTrue
<1>4. WalkIsOnItsWay' /\ ResultIsTrue'
  BY <1>1, <1>2 DEF IInv, TypeOK, WalkIsOnItsWay, ResultIsTrue
<1>5. /\ \A d \in Dirs : directoryMap'[d] \in {Absent, directoryMap[d]} \/ (d = from[g] /\ directoryMap'[d] = found[g])
      /\ \A d \in Dirs : nameMap'[d] \in {Absent, nameMap[d]}
  BY DEF IInv, TypeOK, GetDirectory, CreateDirectory, SetDirectory, GetName, CreateName, shared
<1>6. EntriesAreTrue'
  BY <1>2, <1>3, <1>5 DEF IInv, EntriesAreTrue
<1> QED BY <1>4, <1>6 DEF IInv

\* The result is put into the name's map for the directories for which it is true.
LEMMA SetNameIInv ==
  ASSUME CachesAssumption, "js" \notin PackageKinds, IInv, TypeOK', NEW g \in Goroutines, SetName(g)
  PROVE  IInv'
<1>1. /\ package' = package /\ UNCHANGED <<at, pass, from, found, fromCache, directoryMap>>
      /\ pc[g] = "setName" /\ pc' = [pc EXCEPT ![g] = "answered"]
  BY DEF SetName, Go
<1>2. \A e : Uncached(e)' = Uncached(e)
  BY <1>1, UncachedKept
<1>3. from[g] \in Dirs /\ found[g] = Uncached(from[g])
  BY <1>1 DEF IInv, TypeOK, ResultIsTrue
<1>4. WalkIsOnItsWay' /\ ResultIsTrue'
  BY <1>1, <1>2 DEF IInv, TypeOK, WalkIsOnItsWay, ResultIsTrue
<1>5. ASSUME NEW d \in Dirs PROVE nameMap'[d] \in {Absent, Uncached(d)}
  <2>1. nameMap'[d] = nameMap[d] \/ (d \in Covered(from[g], found[g], nameMap) /\ nameMap'[d] = found[g])
    BY DEF SetName
  <2>2. d \in Covered(from[g], found[g], nameMap) => Uncached(d) = found[g]
    BY <1>3, UncachedCovered DEF IInv
  <2> QED BY <2>1, <2>2 DEF IInv, EntriesAreTrue
<1>6. EntriesAreTrue'
  BY <1>1, <1>2, <1>5 DEF IInv, EntriesAreTrue
<1> QED BY <1>4, <1>6 DEF IInv

\* A call that is over has nothing left to be true.
LEMMA ReturnIInv ==
  ASSUME CachesAssumption, IInv, TypeOK', NEW g \in Goroutines, Return(g)
  PROVE  IInv'
<1>1. /\ package' = package /\ UNCHANGED <<pass, directoryMap, nameMap>> /\ pc' = [pc EXCEPT ![g] = "idle"]
      /\ \A h \in Goroutines \ {g} : /\ found'[h] = found[h] /\ from'[h] = from[h] /\ at'[h] = at[h]
                                     /\ fromCache'[h] = fromCache[h]
  BY DEF IInv, TypeOK, Return, Go, Answer, shared
<1>2. \A e : Uncached(e)' = Uncached(e)
  BY <1>1, UncachedKept
<1>3. WalkIsOnItsWay' /\ ResultIsTrue' /\ EntriesAreTrue'
  BY <1>1, <1>2 DEF IInv, TypeOK, EntriesAreTrue, WalkIsOnItsWay, ResultIsTrue
<1> QED BY <1>3 DEF IInv

\* Where every package has its types, the entries, walks and answers are always true.
THEOREM EntriesInvariant == CachesAssumption /\ "js" \notin PackageKinds => (Spec => []IInv)
<1> SUFFICES ASSUME CachesAssumption, "js" \notin PackageKinds PROVE Spec => []IInv
  OBVIOUS
<1>1. Init => IInv
  BY InitIInv
<1>2. MapsInv /\ MapsInv' /\ IInv /\ [Next]_vars => IInv'
  <2> SUFFICES ASSUME TypeOK', IInv, [Next]_vars PROVE IInv'
    BY DEF MapsInv
  <2>1. CASE UNCHANGED vars
    <3>1. \A e : Uncached(e)' = Uncached(e)
      BY <2>1, UncachedKept DEF vars
    <3> QED BY <2>1, <3>1 DEF vars, shared, local, IInv, EntriesAreTrue, WalkIsOnItsWay, ResultIsTrue
  <2>2. CASE Next
    BY <2>2, CallIInv, StepIInv, HoldIInv, SetNameIInv, ReturnIInv DEF Next
  <2> QED BY <2>1, <2>2
<1>3. Spec => []MapsInv
  BY MapsInvariant
<1> QED BY <1>1, <1>2, <1>3, PTL DEF Spec

\* "Do (up to) two passes through node_modules": where every package has its types, whichever
\* goroutines asked before, from where, and whichever of their entries were lost, the answer is
\* that of a resolution without caches.
THEOREM CachesAreTransparent == CachesAssumption /\ "js" \notin PackageKinds => (Spec => []CacheIsTransparent)
<1>1. IInv => CacheIsTransparent
  BY DEF IInv, ResultIsTrue, CacheIsTransparent
<1> QED BY <1>1, EntriesInvariant, PTL
================================================================================
