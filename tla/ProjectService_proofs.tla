------------------------ MODULE ProjectService_proofs ------------------------
(***************************************************************************)
(* The invariant of the project service, for every set of files, configs,  *)
(* texts and imports.  A handler is a chain of operators on the service's  *)
(* state, so the proof has one lemma for each operator, in the order of    *)
(* ProjectService.tla, of the form: from a sound state to a sound state,   *)
(* and in a relation to it that says what the operator leaves alone:       *)
(*                                                                         *)
(*   Grows     projects and infos stay, open files keep what they show,    *)
(*             and what was fresh is fresh                                 *)
(*   Keeps     ... and the inferred project gets no root                   *)
(*   Calm      ... and no program or document changes                      *)
(*                                                                         *)
(* A loop is FoldLeft of its body, and needs induction over its rounds:    *)
(* FoldInduction.tla, with one INSTANCE for each loop.                     *)
(*                                                                         *)
(* While a project is built its program and its documents disagree:        *)
(* Counting says by how much, and updateGraph ends with them agreeing.     *)
(***************************************************************************)
EXTENDS ProjectService, FiniteSetTheorems, WellFoundedInduction, TLAPS

-----------------------------------------------------------------------------
\* A set of numbers that is not empty has a least one ...
LEMMA Least ==
  ASSUME NEW X \in SUBSET Nat, X # {}
  PROVE  \E m \in X : \A x \in X : m <= x
<1>1. PICK N \in X : TRUE
  OBVIOUS
<1> DEFINE T == {0..x : x \in X \cap 0..N}
<1>2. T \subseteq FiniteSubsetsOf(0..N) /\ T # {}
  <2>1. ASSUME NEW x \in X \cap 0..N PROVE 0..x \in FiniteSubsetsOf(0..N)
    <3>1. IsFiniteSet(0..x)
      BY FS_Interval
    <3>2. 0..x \in SUBSET (0..N)
      OBVIOUS
    <3> QED BY <3>1, <3>2 DEF FiniteSubsetsOf
  <2> QED BY <1>1, <2>1
<1>3. PICK t \in T : \A u \in T : <<u, t>> \notin StrictSubsetOrdering(0..N)
  <2> HIDE DEF T
  <2> QED BY <1>2, FS_StrictSubsetOrderingWellFounded, WFMin
<1>4. PICK m \in X \cap 0..N : t = 0..m
  BY <1>3
<1>5. ASSUME NEW x \in X, x < m PROVE FALSE
  <2>1. <<0..x, 0..m>> \in (SUBSET (0..N)) \X (SUBSET (0..N)) /\ 0..x \in T
    BY <1>4, <1>5
  <2>2. 0..x \subseteq 0..m /\ 0..x # 0..m
    BY <1>4, <1>5
  <2>3. <<0..x, 0..m>> \in StrictSubsetOrdering(0..N)
    BY <2>1, <2>2, Zenon DEF StrictSubsetOrdering
  <2> QED BY <1>3, <1>4, <2>1, <2>3
<1> QED BY <1>4, <1>5

\* ... so that a set that has 0, and each successor of a number it has, has them all.
LEMMA NaturalInduction == \A X : 0 \in X /\ (\A k \in Nat : k \in X => k + 1 \in X) => Nat \subseteq X
<1> SUFFICES ASSUME NEW X, 0 \in X, \A k \in Nat : k \in X => k + 1 \in X, Nat \ X # {} PROVE FALSE
  OBVIOUS
<1>1. PICK m \in Nat \ X : \A x \in Nat \ X : m <= x
  BY Least
<1>2. m - 1 \in Nat /\ m - 1 \in X
  BY <1>1
<1> QED BY <1>1, <1>2

-----------------------------------------------------------------------------
\* A file that is not just being closed stays in the inferred project and stays a root of it.
Firm(S, T) ==
  \A f \in Files : S.infos[f] # Nil /\ (f \in S.openFiles => S.infos[f].open) =>
     /\ Inferred \in ToSet(S.infos[f].containing) => Inferred \in ToSet(T.infos[f].containing)
     /\ f \in InferredRoots(S) => f \in InferredRoots(T)

\* What every step of a handler keeps, except the opening, the change and the closing of a file.
Grows(S, T) ==
  /\ T.openFiles = S.openFiles /\ (Panicked(S) => Panicked(T)) /\ Firm(S, T)
  /\ \A p \in Projects : S.projects[p] # Nil => T.projects[p] # Nil
  /\ \A f \in Files : IF S.infos[f] = Nil THEN T.infos[f] # Nil => ~T.infos[f].open
                      ELSE T.infos[f] # Nil /\ T.infos[f].open = S.infos[f].open /\ T.infos[f].text = S.infos[f].text
  /\ Fresh(S) => Fresh(T)

\* ... and gives the inferred project no root
Keeps(S, T) == Grows(S, T) /\ InferredRoots(T) \subseteq InferredRoots(S)

\* The documents and who holds them are as they were.
SameDocs(S, T) == T.docs = S.docs /\ \A p \in Projects : Held(T, p) = Held(S, p)

Calm(S, T) == Keeps(S, T) /\ SameDocs(S, T)

\* Nothing done is calm.
LEMMA CalmReflexive == \A S : Calm(S, S) 
<1> SUFFICES ASSUME NEW S PROVE Calm(S, S)
  OBVIOUS
<1>1. \A f \in Files : S.infos[f] = Nil => (S.infos[f] # Nil => ~S.infos[f].open)
  OBVIOUS
<1>2. Firm(S, S)
  BY DEF Firm
<1> QED BY <1>1, <1>2 DEF Calm, Keeps, Grows, SameDocs

\* The infos are as they were and the inferred project has its roots.
LEMMA FirmAlike ==
  ASSUME NEW S, NEW T, T.infos = S.infos, InferredRoots(S) \subseteq InferredRoots(T)
  PROVE  Firm(S, T)
BY DEF Firm

\* What two steps keep, the two together keep.
LEMMA GrowsTransitive == ASSUME NEW S, NEW T, NEW U, Grows(S, T), Grows(T, U) PROVE Grows(S, U)
<1>1. U.openFiles = S.openFiles /\ (Fresh(S) => Fresh(U)) /\ (Panicked(S) => Panicked(U))
      /\ \A p \in Projects : S.projects[p] # Nil => U.projects[p] # Nil
  BY DEF Grows
<1>2. ASSUME NEW f \in Files 
      PROVE  IF S.infos[f] = Nil THEN U.infos[f] # Nil => ~U.infos[f].open
             ELSE U.infos[f] # Nil /\ U.infos[f].open = S.infos[f].open /\ U.infos[f].text = S.infos[f].text
  BY Zenon DEF Grows
<1>3. Firm(S, U)
  <2> SUFFICES ASSUME NEW f \in Files, S.infos[f] # Nil, f \in S.openFiles => S.infos[f].open
               PROVE  /\ Inferred \in ToSet(S.infos[f].containing) => Inferred \in ToSet(U.infos[f].containing)
                      /\ f \in InferredRoots(S) => f \in InferredRoots(U)
    BY DEF Firm
  <2>1. T.infos[f] # Nil /\ (f \in T.openFiles => T.infos[f].open)
    BY DEF Grows
  <2>2. Firm(S, T) /\ Firm(T, U)
    BY DEF Grows
  <2> QED BY <2>1, <2>2 DEF Firm
<1> QED BY <1>1, <1>2, <1>3 DEF Grows

\* ... and the same with the roots of the inferred project
LEMMA KeepsTransitive == ASSUME NEW S, NEW T, NEW U, Keeps(S, T), Keeps(T, U) PROVE Keeps(S, U)
BY GrowsTransitive DEF Keeps

\* ... and with the programs and documents
LEMMA CalmTransitive == ASSUME NEW S, NEW T, NEW U, Calm(S, T), Calm(T, U) PROVE Calm(S, U)
BY KeepsTransitive DEF Calm, SameDocs

\* The count of the references depends on the programs and documents alone.
LEMMA CalmCounted == ASSUME NEW S, NEW T, SameDocs(S, T), Counted(S) PROVE Counted(T)
<1>1. \A f \in Files : Refs(T, f) = Refs(S, f)
  BY DEF SameDocs, Refs
<1>2. \A f \in Files : ProgramsWith(T, f) = ProgramsWith(S, f)
  BY DEF SameDocs, ProgramsWith
<1> QED BY <1>1, <1>2 DEF Counted

-----------------------------------------------------------------------------
\* Freshness, of a state in which one thing is exchanged.

\* What it says of a document and of the programs, for one file.
VersionedAt(S, f) ==
  /\ S.docs[f] # Nil =>
        /\ S.docs[f].source.version <= Version(S, f)
        /\ S.infos[f] # Nil /\ S.docs[f].source.version = S.infos[f].version => S.docs[f].source.text = S.infos[f].text
  /\ \A p \in Projects : f \in Held(S, p) => S.projects[p].program[f].version <= Version(S, f)

\* Freshness, file by file and project by project.
LEMMA FreshParts ==
  ASSUME NEW S
  PROVE  Fresh(S) <=> (\A f \in Files : VersionedAt(S, f)) /\ (\A p \in Projects : Current(S, p))
BY DEF Fresh, Versioned, VersionedAt

\* What the state says of files is about files.
LEMMA OfFiles ==
  ASSUME NEW S, Sound(S), NEW p \in Projects
  PROVE  Held(S, p) \subseteq Files /\ (S.projects[p] # Nil => ToSet(S.projects[p].roots) \subseteq Files)
<1>1. S.projects[p] \in ProjectRecords \cup {Nil}
  BY DEF Sound, States
<1>2. S.projects[p] # Nil => S.projects[p].roots \in Seq(Files) /\ S.projects[p].program \in Programs \cup {Nil}
  BY <1>1 DEF ProjectRecords
<1> QED BY <1>2 DEF Held, ToSet, Programs

\* Versions are numbers.
LEMMA VersionTypes ==
  ASSUME NEW S, Sound(S), NEW f \in Files
  PROVE  /\ Version(S, f) \in Int
         /\ S.docs[f] # Nil => S.docs[f].source.version \in Nat
         /\ \A p \in Projects : f \in Held(S, p) => S.projects[p].program[f].version \in Nat
<1>1. S \in States
  BY DEF Sound
<1>2. Version(S, f) \in Int
  <2>1. S.lastVersions[f] \in Nat \cup {Nil} /\ S.infos[f] \in InfoRecords \cup {Nil}
    BY <1>1 DEF States
  <2> QED BY <2>1 DEF Version, InfoRecords
<1>3. S.docs[f] # Nil => S.docs[f].source.version \in Nat
  <2>1. S.docs[f] \in DocumentRecords \cup {Nil}
    BY <1>1 DEF States
  <2>2. S.docs[f] # Nil => S.docs[f].source \in Documents
    BY <2>1 DEF DocumentRecords
  <2> QED BY <2>2 DEF Documents
<1>4. ASSUME NEW p \in Projects, f \in Held(S, p) PROVE S.projects[p].program[f].version \in Nat
  <2>1. S.projects[p] \in ProjectRecords /\ S.projects[p].program # Nil /\ f \in DOMAIN S.projects[p].program
    BY <1>1, <1>4 DEF States, Held
  <2>2. S.projects[p].program \in Programs
    BY <2>1 DEF ProjectRecords
  <2>3. S.projects[p].program[f] \in Documents
    BY <2>1, <2>2 DEF Programs
  <2> QED BY <2>3 DEF Documents
<1> QED BY <1>2, <1>3, <1>4

\* Nothing that it speaks of changes.
LEMMA FreshAlike ==
  ASSUME NEW S, Fresh(S), NEW T, T.infos = S.infos, T.docs = S.docs, T.projects = S.projects,
         \A f \in Files : Version(T, f) = Version(S, f)
  PROVE  Fresh(T)
<1>1. \A p \in Projects : Held(T, p) = Held(S, p)
  BY DEF Held
<1>2. ASSUME NEW f \in Files PROVE VersionedAt(T, f)
  <2>1. VersionedAt(S, f)
    BY FreshParts
  <2> QED BY <1>1, <2>1 DEF VersionedAt
<1>3. ASSUME NEW p \in Projects PROVE Current(T, p)
  <2>1. Current(S, p)
    BY FreshParts
  <2> QED BY <1>1, <2>1 DEF Current, UpToDate
<1> QED BY <1>2, <1>3, FreshParts

\* A project's record is exchanged for another with the same program, that is dirty or as clean as
\* the one there was.
LEMMA FreshProject ==
  ASSUME NEW S, Sound(S), Fresh(S), NEW p \in Projects, NEW q \in ProjectRecords,
         IF S.projects[p] = Nil THEN q.program = Nil ELSE q.program = S.projects[p].program,
         NEW T, T = [S EXCEPT !.projects = [S.projects EXCEPT ![p] = q]],
         \/ q.dirty
         \/ /\ S.projects[p] # Nil /\ q.dirty = S.projects[p].dirty
            /\ ToSet(q.roots) \subseteq ToSet(S.projects[p].roots)
         \/ Current(T, p)
  PROVE  Fresh(T)
<1>1. S \in States /\ S.projects \in [Projects -> ProjectRecords \cup {Nil}]
  BY DEF Sound, States
<1>2. T.infos = S.infos /\ T.docs = S.docs /\ T.lastVersions = S.lastVersions
      /\ \A r \in Projects : T.projects[r] = IF r = p THEN q ELSE S.projects[r]
  BY <1>1 DEF States
<1>3. q # Nil
  BY ServiceAssumption
<1>4. \A r \in Projects : Held(T, r) = Held(S, r)
  BY <1>2, <1>3, ServiceAssumption DEF Held
<1>5. \A f \in Files : Version(T, f) = Version(S, f)
  BY <1>2 DEF Version
<1>6. \A r \in Projects : \A f \in Held(S, r) : T.projects[r].program = S.projects[r].program
  BY <1>2 DEF Held
<1>7. ASSUME NEW f \in Files PROVE VersionedAt(T, f)
  <2>1. VersionedAt(S, f)
    BY FreshParts
  <2> QED BY <1>2, <1>4, <1>5, <1>6, <2>1 DEF VersionedAt
<1>8. ASSUME NEW r \in Projects PROVE Current(T, r)
  <2>1. Current(S, r)
    BY FreshParts
  <2>2. CASE r # p
    <3>1. T.projects[r] = S.projects[r] /\ T.infos = S.infos /\ Held(T, r) = Held(S, r)
      BY <1>2, <1>4, <2>2
    <3> QED BY <2>1, <3>1 DEF Current, UpToDate
  <2>3. CASE r = p /\ S.projects[p] # Nil /\ q.dirty = S.projects[p].dirty
             /\ ToSet(q.roots) \subseteq ToSet(S.projects[p].roots)
    <3>1. T.projects[r] = q /\ T.infos = S.infos /\ Held(T, r) = Held(S, r) /\ q.program = S.projects[r].program
      BY <1>2, <1>4, <2>3
    <3> QED BY <2>1, <2>3, <3>1 DEF Current, UpToDate
  <2>4. CASE r = p /\ q.dirty
    BY <1>2, <2>4 DEF Current, UpToDate
  <2> QED BY <2>2, <2>3, <2>4
<1> QED BY <1>7, <1>8, FreshParts

\* An info is exchanged for another of the same text and version, that belongs to the same projects
\* but for some that are dirty, or that it is no root of and joins.
LEMMA FreshInfo ==
  ASSUME NEW S, Sound(S), Fresh(S), NEW f \in Files, S.infos[f] # Nil, NEW i \in InfoRecords,
         i.text = S.infos[f].text, i.version = S.infos[f].version,
         \A p \in Projects :
            \/ p \in ToSet(i.containing) <=> p \in ToSet(S.infos[f].containing)
            \/ S.projects[p] # Nil /\ S.projects[p].dirty
            \/ p \in ToSet(i.containing) /\ S.projects[p] # Nil /\ ~IsRoot(S, p, f),
         NEW T, T = [S EXCEPT !.infos = [S.infos EXCEPT ![f] = i]]
  PROVE  Fresh(T)
<1>1. S \in States
  BY DEF Sound
<1>2. T.projects = S.projects /\ T.docs = S.docs /\ T.lastVersions = S.lastVersions
      /\ \A g \in Files : T.infos[g] = IF g = f THEN i ELSE S.infos[g]
  BY <1>1 DEF States
<1>3. i # Nil
  BY ServiceAssumption
<1>4. \A r \in Projects : Held(T, r) = Held(S, r)
  BY <1>2 DEF Held
<1>5. \A g \in Files : Version(T, g) = Version(S, g)
  BY <1>2, <1>3 DEF Version
<1>6. ASSUME NEW g \in Files PROVE VersionedAt(T, g)
  <2>1. VersionedAt(S, g)
    BY FreshParts
  <2> QED BY <1>2, <1>3, <1>4, <1>5, <2>1 DEF VersionedAt
<1>7. ASSUME NEW p \in Projects PROVE Current(T, p)
  <2> SUFFICES ASSUME S.projects[p] # Nil, ~S.projects[p].dirty
               PROVE  /\ \A g \in ToSet(S.projects[p].roots) :
                            T.infos[g] # Nil /\ p \in ToSet(T.infos[g].containing) => g \in Held(S, p)
                      /\ \A g \in Held(S, p) :
                            /\ T.infos[g] # Nil /\ p \in ToSet(T.infos[g].containing)
                            /\ S.projects[p].program[g] = [text |-> T.infos[g].text, version |-> T.infos[g].version]
    BY <1>2, <1>4 DEF Current, UpToDate
  <2>1. Current(S, p)
    BY FreshParts
  <2>2. Held(S, p) \subseteq Files /\ ToSet(S.projects[p].roots) \subseteq Files
    BY OfFiles
  <2>3. ASSUME NEW g \in ToSet(S.projects[p].roots), T.infos[g] # Nil, p \in ToSet(T.infos[g].containing)
        PROVE  g \in Held(S, p)
    <3>1. CASE g # f
      BY <1>2, <2>1, <2>2, <2>3, <3>1 DEF Current, UpToDate
    <3>2. CASE g = f
      <4>1. p \in ToSet(S.infos[f].containing)
        BY <1>2, <2>3, <3>2 DEF IsRoot
      <4> QED BY <2>1, <2>3, <3>2, <4>1 DEF Current, UpToDate
    <3> QED BY <3>1, <3>2
  <2>4. ASSUME NEW g \in Held(S, p)
        PROVE  /\ T.infos[g] # Nil /\ p \in ToSet(T.infos[g].containing)
               /\ S.projects[p].program[g] = [text |-> T.infos[g].text, version |-> T.infos[g].version]
    <3>1. /\ S.infos[g] # Nil /\ p \in ToSet(S.infos[g].containing)
          /\ S.projects[p].program[g] = [text |-> S.infos[g].text, version |-> S.infos[g].version]
      BY <2>1 DEF Current, UpToDate
    <3>2. CASE g # f
      BY <1>2, <2>2, <3>1, <3>2
    <3>3. CASE g = f
      BY <1>2, <1>3, <3>1, <3>3
    <3> QED BY <3>2, <3>3
  <2> QED BY <2>3, <2>4
<1> QED BY <1>6, <1>7, FreshParts

\* An info is made for a file that has none, with a version that no document has.
LEMMA FreshNew ==
  ASSUME NEW S, Sound(S), Fresh(S), NEW f \in Files, S.infos[f] = Nil, NEW i \in InfoRecords,
         ToSet(i.containing) = {}, Version(S, f) < i.version,
         NEW T, T = [S EXCEPT !.infos = [S.infos EXCEPT ![f] = i]]
  PROVE  Fresh(T)
<1>1. S \in States
  BY DEF Sound
<1>2. T.projects = S.projects /\ T.docs = S.docs /\ T.lastVersions = S.lastVersions
      /\ \A g \in Files : T.infos[g] = IF g = f THEN i ELSE S.infos[g]
  BY <1>1 DEF States
<1>3. i # Nil
  BY ServiceAssumption
<1>4. \A r \in Projects : Held(T, r) = Held(S, r)
  BY <1>2 DEF Held
<1>5. ASSUME NEW g \in Files PROVE VersionedAt(T, g)
  <2>1. VersionedAt(S, g)
    BY FreshParts
  <2>2. CASE g # f
    <3>1. Version(T, g) = Version(S, g) /\ T.infos[g] = S.infos[g]
      BY <1>2, <2>2 DEF Version
    <3> QED BY <1>2, <1>4, <2>1, <3>1 DEF VersionedAt
  <2>3. CASE g = f
    <3>1. Version(T, f) = i.version /\ i.version \in Nat
      BY <1>2, <1>3 DEF Version, InfoRecords
    <3>2. Version(S, f) \in Int
      BY VersionTypes
    <3>3. S.docs[f] # Nil => S.docs[f].source.version \in Nat
      BY VersionTypes
    <3>4. \A p \in Projects : f \in Held(S, p) => S.projects[p].program[f].version \in Nat
      BY VersionTypes
    <3>5. S.docs[f] # Nil => S.docs[f].source.version <= i.version /\ S.docs[f].source.version # i.version
      BY <2>1, <2>3, <3>1, <3>2, <3>3 DEF VersionedAt
    <3>6. \A p \in Projects : f \in Held(S, p) => S.projects[p].program[f].version <= i.version
      BY <2>1, <2>3, <3>1, <3>2, <3>4 DEF VersionedAt
    <3> QED BY <1>2, <1>4, <2>3, <3>1, <3>5, <3>6 DEF VersionedAt
  <2> QED BY <2>2, <2>3
<1>6. ASSUME NEW p \in Projects PROVE Current(T, p)
  <2> SUFFICES ASSUME S.projects[p] # Nil, ~S.projects[p].dirty
               PROVE  /\ \A g \in ToSet(S.projects[p].roots) :
                            T.infos[g] # Nil /\ p \in ToSet(T.infos[g].containing) => g \in Held(S, p)
                      /\ \A g \in Held(S, p) :
                            /\ T.infos[g] # Nil /\ p \in ToSet(T.infos[g].containing)
                            /\ S.projects[p].program[g] = [text |-> T.infos[g].text, version |-> T.infos[g].version]
    BY <1>2, <1>4 DEF Current, UpToDate
  <2>1. Current(S, p)
    BY FreshParts
  <2>2. Held(S, p) \subseteq Files /\ ToSet(S.projects[p].roots) \subseteq Files
    BY OfFiles
  <2>3. ASSUME NEW g \in ToSet(S.projects[p].roots), T.infos[g] # Nil, p \in ToSet(T.infos[g].containing)
        PROVE  g \in Held(S, p)
    BY <1>2, <2>1, <2>2, <2>3 DEF Current, UpToDate
  <2>4. ASSUME NEW g \in Held(S, p)
        PROVE  /\ T.infos[g] # Nil /\ p \in ToSet(T.infos[g].containing)
               /\ S.projects[p].program[g] = [text |-> T.infos[g].text, version |-> T.infos[g].version]
    <3>1. /\ S.infos[g] # Nil /\ p \in ToSet(S.infos[g].containing)
          /\ S.projects[p].program[g] = [text |-> S.infos[g].text, version |-> S.infos[g].version]
      BY <2>1 DEF Current, UpToDate
    <3> QED BY <1>2, <2>2, <3>1
  <2> QED BY <2>3, <2>4
<1> QED BY <1>5, <1>6, FreshParts

\* A document is exchanged for another of the same source, or one parsed from the info, or dropped.
LEMMA FreshDoc ==
  ASSUME NEW S, Sound(S), Fresh(S), NEW f \in Files, NEW d,
         \/ d = Nil
         \/ S.docs[f] # Nil /\ d.source = S.docs[f].source
         \/ S.infos[f] # Nil /\ d.source = [text |-> S.infos[f].text, version |-> S.infos[f].version],
         NEW T, T = [S EXCEPT !.docs = [S.docs EXCEPT ![f] = d]]
  PROVE  Fresh(T)
<1>1. S \in States
  BY DEF Sound
<1>2. T.projects = S.projects /\ T.infos = S.infos /\ T.lastVersions = S.lastVersions
      /\ \A g \in Files : T.docs[g] = IF g = f THEN d ELSE S.docs[g]
  BY <1>1 DEF States
<1>3. \A r \in Projects : Held(T, r) = Held(S, r)
  BY <1>2 DEF Held
<1>4. \A g \in Files : Version(T, g) = Version(S, g)
  BY <1>2 DEF Version
<1>5. ASSUME NEW g \in Files PROVE VersionedAt(T, g)
  <2>1. VersionedAt(S, g)
    BY FreshParts
  <2>2. CASE g # f \/ (S.docs[f] # Nil /\ d.source = S.docs[f].source)
    BY <1>2, <1>3, <1>4, <2>1, <2>2 DEF VersionedAt
  <2>3. CASE g = f /\ S.infos[f] # Nil /\ d.source = [text |-> S.infos[f].text, version |-> S.infos[f].version]
    <3>1. Version(S, f) = S.infos[f].version /\ Version(S, f) \in Int
      BY <2>3, VersionTypes DEF Version
    <3>2. d.source.version = S.infos[f].version /\ d.source.text = S.infos[f].text
      BY <2>3
    <3> QED BY <1>2, <1>3, <1>4, <2>1, <2>3, <3>1, <3>2 DEF VersionedAt
  <2>4. CASE g = f /\ d = Nil
    BY <1>2, <1>3, <1>4, <2>1, <2>4 DEF VersionedAt
  <2> QED BY <2>2, <2>3, <2>4
<1>6. ASSUME NEW p \in Projects PROVE Current(T, p)
  <2>1. Current(S, p)
    BY FreshParts
  <2> QED BY <1>2, <1>3, <2>1 DEF Current, UpToDate
<1> QED BY <1>5, <1>6, FreshParts

\* A dirty project gets a program of versions there have been.
LEMMA FreshProgram ==
  ASSUME NEW S, Sound(S), Fresh(S), NEW p \in Projects, NEW q \in ProjectRecords, q.dirty, q.program # Nil,
         \A f \in DOMAIN q.program : f \in Files => q.program[f].version <= Version(S, f),
         NEW T, T = [S EXCEPT !.projects = [S.projects EXCEPT ![p] = q]]
  PROVE  Fresh(T)
<1>1. S \in States
  BY DEF Sound
<1>2. T.infos = S.infos /\ T.docs = S.docs /\ T.lastVersions = S.lastVersions
      /\ \A r \in Projects : T.projects[r] = IF r = p THEN q ELSE S.projects[r]
  BY <1>1 DEF States
<1>3. q # Nil
  BY ServiceAssumption
<1>4. Held(T, p) = DOMAIN q.program /\ \A r \in Projects : r # p => Held(T, r) = Held(S, r)
  BY <1>2, <1>3 DEF Held
<1>5. \A f \in Files : Version(T, f) = Version(S, f)
  BY <1>2 DEF Version
<1>6. ASSUME NEW f \in Files PROVE VersionedAt(T, f)
  <2>1. VersionedAt(S, f)
    BY FreshParts
  <2>2. ASSUME NEW r \in Projects, f \in Held(T, r) PROVE T.projects[r].program[f].version <= Version(S, f)
    BY <1>2, <1>4, <2>1, <2>2 DEF VersionedAt
  <2> QED BY <1>2, <1>5, <2>1, <2>2 DEF VersionedAt
<1>7. ASSUME NEW r \in Projects PROVE Current(T, r)
  <2>1. Current(S, r)
    BY FreshParts
  <2>2. CASE r = p
    BY <1>2, <2>2 DEF Current, UpToDate
  <2>3. CASE r # p
    <3>1. T.projects[r] = S.projects[r] /\ Held(T, r) = Held(S, r)
      BY <1>2, <1>4, <2>3
    <3> QED BY <1>2, <2>1, <3>1 DEF Current, UpToDate
  <2> QED BY <2>2, <2>3
<1> QED BY <1>6, <1>7, FreshParts

\* Projects are marked dirty, and nothing else.
Marks(S, T) ==
  /\ T.infos = S.infos /\ T.docs = S.docs /\ T.lastVersions = S.lastVersions
  /\ \A p \in Projects :
        /\ T.projects[p] = Nil <=> S.projects[p] = Nil
        /\ S.projects[p] # Nil =>
              /\ T.projects[p].program = S.projects[p].program
              /\ T.projects[p].roots = S.projects[p].roots
              /\ S.projects[p].dirty => T.projects[p].dirty

\* The text of an info changes, with its version, and its projects are marked.
LEMMA FreshChange ==
  ASSUME NEW S, Sound(S), Fresh(S), NEW f \in Files, S.infos[f] # Nil, NEW i \in InfoRecords,
         i.version = S.infos[f].version + 1, i.containing = S.infos[f].containing,
         NEW U, U = [S EXCEPT !.infos = [S.infos EXCEPT ![f] = i]], NEW T, Marks(U, T),
         \A p \in ToSet(i.containing) : T.projects[p].dirty
  PROVE  Fresh(T)
<1>1. S \in States /\ i # Nil
  BY ServiceAssumption DEF Sound
<1>2. U.projects = S.projects /\ T.docs = S.docs /\ T.lastVersions = S.lastVersions
      /\ \A g \in Files : T.infos[g] = IF g = f THEN i ELSE S.infos[g]
  BY <1>1 DEF States, Marks
<1>3. \A p \in Projects :
        /\ T.projects[p] = Nil <=> S.projects[p] = Nil
        /\ S.projects[p] # Nil =>
              /\ T.projects[p].program = S.projects[p].program
              /\ T.projects[p].roots = S.projects[p].roots
              /\ S.projects[p].dirty => T.projects[p].dirty
  BY <1>2 DEF Marks
<1>4. \A p \in Projects : Held(T, p) = Held(S, p) /\ \A g \in Held(S, p) : T.projects[p].program = S.projects[p].program
  <2> SUFFICES ASSUME NEW p \in Projects
               PROVE  Held(T, p) = Held(S, p) /\ \A g \in Held(S, p) : T.projects[p].program = S.projects[p].program
    OBVIOUS
  <2>1. CASE S.projects[p] = Nil
    BY <1>3, <2>1 DEF Held
  <2>2. CASE S.projects[p] # Nil
    BY <1>3, <2>2 DEF Held
  <2> QED BY <2>1, <2>2
<1>5. ASSUME NEW g \in Files PROVE VersionedAt(T, g)
  <2>1. VersionedAt(S, g)
    BY FreshParts
  <2>2. CASE g # f
    <3>1. Version(T, g) = Version(S, g) /\ T.infos[g] = S.infos[g]
      BY <1>2, <2>2 DEF Version
    <3> QED BY <1>2, <1>4, <2>1, <3>1 DEF VersionedAt
  <2>3. CASE g = f
    <3>1. Version(T, f) = i.version /\ Version(S, f) = S.infos[f].version /\ S.infos[f].version \in Nat
      <4>1. S.infos[f] \in InfoRecords
        BY <1>1 DEF States
      <4> QED BY <1>1, <1>2, <4>1 DEF Version, InfoRecords
    <3>2. S.docs[f] # Nil => S.docs[f].source.version \in Nat
      BY VersionTypes
    <3>3. \A p \in Projects : f \in Held(S, p) => S.projects[p].program[f].version \in Nat
      BY VersionTypes
    <3>4. S.docs[f] # Nil => S.docs[f].source.version <= i.version /\ S.docs[f].source.version # i.version
      BY <2>1, <2>3, <3>1, <3>2 DEF VersionedAt
    <3>5. \A p \in Projects : f \in Held(S, p) => S.projects[p].program[f].version <= i.version
      BY <2>1, <2>3, <3>1, <3>3 DEF VersionedAt
    <3> QED BY <1>2, <1>4, <2>3, <3>1, <3>4, <3>5 DEF VersionedAt
  <2> QED BY <2>2, <2>3
<1>6. ASSUME NEW p \in Projects PROVE Current(T, p)
  <2> SUFFICES ASSUME S.projects[p] # Nil, ~T.projects[p].dirty
               PROVE  /\ \A g \in ToSet(S.projects[p].roots) :
                            T.infos[g] # Nil /\ p \in ToSet(T.infos[g].containing) => g \in Held(S, p)
                      /\ \A g \in Held(S, p) :
                            /\ T.infos[g] # Nil /\ p \in ToSet(T.infos[g].containing)
                            /\ S.projects[p].program[g] = [text |-> T.infos[g].text, version |-> T.infos[g].version]
    <3>1. CASE T.projects[p] = Nil \/ T.projects[p].dirty
      BY <3>1 DEF Current, UpToDate
    <3>2. CASE T.projects[p] # Nil /\ ~T.projects[p].dirty
      <4>1. S.projects[p] # Nil /\ T.projects[p].roots = S.projects[p].roots /\ Held(T, p) = Held(S, p)
            /\ \A g \in Held(S, p) : T.projects[p].program[g] = S.projects[p].program[g]
        BY <1>3, <1>4, <3>2
      <4> QED BY <3>2, <4>1 DEF Current, UpToDate
    <3> QED BY <3>1, <3>2
  <2>1. Current(S, p) /\ ~S.projects[p].dirty /\ p \notin ToSet(S.infos[f].containing)
    <3>1. p \notin ToSet(i.containing)
      OBVIOUS
    <3>2. ~S.projects[p].dirty
      BY <1>3
    <3> QED BY <3>1, <3>2, FreshParts
  <2>2. Held(S, p) \subseteq Files /\ ToSet(S.projects[p].roots) \subseteq Files
    BY OfFiles
  <2>3. ASSUME NEW g \in ToSet(S.projects[p].roots), T.infos[g] # Nil, p \in ToSet(T.infos[g].containing)
        PROVE  g \in Held(S, p)
    BY <1>2, <2>1, <2>2, <2>3 DEF Current, UpToDate
  <2>4. ASSUME NEW g \in Held(S, p)
        PROVE  /\ T.infos[g] # Nil /\ p \in ToSet(T.infos[g].containing)
               /\ S.projects[p].program[g] = [text |-> T.infos[g].text, version |-> T.infos[g].version]
    <3>1. /\ S.infos[g] # Nil /\ p \in ToSet(S.infos[g].containing)
          /\ S.projects[p].program[g] = [text |-> S.infos[g].text, version |-> S.infos[g].version]
      BY <2>1 DEF Current, UpToDate
    <3> QED BY <1>2, <2>1, <2>2, <3>1
  <2> QED BY <2>3, <2>4
<1> QED BY <1>5, <1>6, FreshParts

\* The info of a file all of whose projects are dirty is dropped, and its version remembered.
LEMMA FreshDrop ==
  ASSUME NEW S, Sound(S), Fresh(S), NEW f \in Files, S.infos[f] # Nil, S.lastVersions[f] = S.infos[f].version,
         \A p \in ToSet(S.infos[f].containing) : S.projects[p].dirty,
         NEW T, T = [S EXCEPT !.infos = [S.infos EXCEPT ![f] = Nil]]
  PROVE  Fresh(T)
<1>1. S \in States
  BY DEF Sound
<1>2. T.projects = S.projects /\ T.docs = S.docs /\ T.lastVersions = S.lastVersions
      /\ \A g \in Files : T.infos[g] = IF g = f THEN Nil ELSE S.infos[g]
  BY <1>1 DEF States
<1>3. \A r \in Projects : Held(T, r) = Held(S, r)
  BY <1>2 DEF Held
<1>4. ASSUME NEW g \in Files PROVE VersionedAt(T, g)
  <2>1. VersionedAt(S, g)
    BY FreshParts
  <2>2. Version(T, g) = Version(S, g)
    <3>1. S.infos[f].version # Nil
      <4>1. S.infos[f].version \in Nat
        BY <1>1 DEF States, InfoRecords
      <4> QED BY <4>1, ServiceAssumption
    <3> QED BY <1>2, <3>1 DEF Version
  <2>3. T.infos[g] # Nil => T.infos[g] = S.infos[g]
    BY <1>2
  <2> QED BY <1>2, <1>3, <2>1, <2>2, <2>3 DEF VersionedAt
<1>5. ASSUME NEW p \in Projects PROVE Current(T, p)
  <2> SUFFICES ASSUME S.projects[p] # Nil, ~S.projects[p].dirty
               PROVE  /\ \A g \in ToSet(S.projects[p].roots) :
                            T.infos[g] # Nil /\ p \in ToSet(T.infos[g].containing) => g \in Held(S, p)
                      /\ \A g \in Held(S, p) :
                            /\ T.infos[g] # Nil /\ p \in ToSet(T.infos[g].containing)
                            /\ S.projects[p].program[g] = [text |-> T.infos[g].text, version |-> T.infos[g].version]
    BY <1>2, <1>3 DEF Current, UpToDate
  <2>1. Current(S, p) /\ p \notin ToSet(S.infos[f].containing)
    BY FreshParts
  <2>2. Held(S, p) \subseteq Files /\ ToSet(S.projects[p].roots) \subseteq Files
    BY OfFiles
  <2>3. ASSUME NEW g \in ToSet(S.projects[p].roots), T.infos[g] # Nil, p \in ToSet(T.infos[g].containing)
        PROVE  g \in Held(S, p)
    BY <1>2, <2>1, <2>2, <2>3 DEF Current, UpToDate
  <2>4. ASSUME NEW g \in Held(S, p)
        PROVE  /\ T.infos[g] # Nil /\ p \in ToSet(T.infos[g].containing)
               /\ S.projects[p].program[g] = [text |-> T.infos[g].text, version |-> T.infos[g].version]
    <3>1. /\ S.infos[g] # Nil /\ p \in ToSet(S.infos[g].containing)
          /\ S.projects[p].program[g] = [text |-> S.infos[g].text, version |-> S.infos[g].version]
      BY <2>1 DEF Current, UpToDate
    <3> QED BY <1>2, <2>1, <2>2, <3>1
  <2> QED BY <2>3, <2>4
<1> QED BY <1>4, <1>5, FreshParts

-----------------------------------------------------------------------------
\* A project's record is exchanged for another, q, that is as fresh.
Renews(S, p, q, T) ==
  \/ q.dirty
  \/ /\ S.projects[p] # Nil /\ q.dirty = S.projects[p].dirty
     /\ ToSet(q.roots) \subseteq ToSet(S.projects[p].roots)
  \/ Fresh(S) => Current(T, p)

\* ... with the same program
LEMMA SetProject ==
  ASSUME NEW S, Sound(S), NEW p \in Projects, NEW q \in ProjectRecords,
         IF S.projects[p] = Nil THEN q.program = Nil ELSE q.program = S.projects[p].program,
         p = Inferred => \A f \in ToSet(q.roots) :
           f \in S.openFiles /\ S.infos[f] # Nil /\ Inferred \in ToSet(S.infos[f].containing),
         p = Inferred => \A f \in InferredRoots(S) : f \in ToSet(q.roots) \/ ~S.infos[f].open,
         NEW T, T = [S EXCEPT !.projects = [S.projects EXCEPT ![p] = q]], Renews(S, p, q, T)
  PROVE  /\ Sound(T) /\ Grows(S, T) /\ SameDocs(S, T)
         /\ ((p = Inferred => ToSet(q.roots) \subseteq InferredRoots(S)) => Calm(S, T))
<1>1. S \in States /\ S.projects \in [Projects -> ProjectRecords \cup {Nil}]
  BY DEF Sound, States
<1>2. T \in States /\ T.infos = S.infos /\ T.openFiles = S.openFiles /\ T.docs = S.docs /\ T.panic = S.panic
  BY <1>1 DEF States
<1>3. T.projects = [S.projects EXCEPT ![p] = q]
  BY <1>1 DEF States
<1>4. q # Nil
  BY ServiceAssumption
<1>5. \A r \in Projects : (S.projects[r] # Nil => T.projects[r] # Nil) /\ Held(T, r) = Held(S, r)
  BY <1>1, <1>3, <1>4, ServiceAssumption DEF Held
<1>6. InferredRoots(T) = IF p = Inferred THEN ToSet(q.roots) ELSE InferredRoots(S)
  BY <1>1, <1>3, <1>4 DEF InferredRoots, Projects
<1>7. Sound(T)
  <2>1. \A f \in Files : S.infos[f] # Nil => S.infos[f].containing \in Seq(Projects)
    BY <1>1 DEF States, InfoRecords
  <2>2. \A f \in Files : S.infos[f] # Nil => \A r \in ToSet(S.infos[f].containing) : r \in Projects
    BY <2>1 DEF ToSet
  <2>3. \A f \in InferredRoots(T) :
          f \in T.openFiles /\ T.infos[f] # Nil /\ Inferred \in ToSet(T.infos[f].containing)
    BY <1>2, <1>6 DEF Sound
  <2> QED BY <1>2, <1>5, <2>2, <2>3 DEF Sound
<1>8. Grows(S, T) /\ SameDocs(S, T)
  <2>1. Fresh(S) => Fresh(T)
    BY FreshProject DEF Renews
  <2>2. Firm(S, T)
    <3>1. \A f \in InferredRoots(S) : f \in S.openFiles
      BY DEF Sound
    <3> QED BY <1>2, <1>6, <3>1 DEF Firm
  <2> QED BY <1>2, <1>5, <2>1, <2>2 DEF Grows, SameDocs, Panicked
<1> QED BY <1>1, <1>3, <1>6, <1>7, <1>8 DEF Calm, Keeps

\* The info of a file is exchanged for another of the same text, of projects that exist.
LEMMA SetInfo ==
  ASSUME NEW S, Sound(S), NEW f \in Files, NEW i \in InfoRecords,
         \A p \in ToSet(i.containing) : S.projects[p] # Nil,
         f \in InferredRoots(S) => Inferred \in ToSet(i.containing),
         NEW T, T = [S EXCEPT !.infos = [S.infos EXCEPT ![f] = i]]
  PROVE  /\ Sound(T) /\ SameDocs(S, T) /\ InferredRoots(T) = InferredRoots(S)
         /\ /\ S.infos[f] # Nil /\ i.open = S.infos[f].open /\ i.text = S.infos[f].text /\ (Fresh(S) => Fresh(T))
            /\ \/ Inferred \in ToSet(S.infos[f].containing) => Inferred \in ToSet(i.containing)
               \/ f \in S.openFiles /\ ~i.open
            => Calm(S, T)
         /\ (S.infos[f] = Nil /\ ~i.open /\ (Fresh(S) => Fresh(T)) => Calm(S, T))
<1>1. S \in States /\ S.infos \in [Files -> InfoRecords \cup {Nil}]
  BY DEF Sound, States
<1>2. T \in States /\ T.projects = S.projects /\ T.openFiles = S.openFiles /\ T.docs = S.docs /\ T.panic = S.panic
  BY <1>1 DEF States
<1>3. T.infos = [S.infos EXCEPT ![f] = i]
  BY <1>1 DEF States
<1>4. i # Nil
  BY ServiceAssumption
<1>5. SameDocs(S, T) /\ InferredRoots(T) = InferredRoots(S)
  BY <1>2 DEF SameDocs, InferredRoots, Held
<1>6. Sound(T)
  <2>1. \A g \in Files : T.infos[g] = IF g = f THEN i ELSE S.infos[g]
    BY <1>1, <1>3
  <2>2. \A g \in Files : T.infos[g] # Nil => \A p \in ToSet(T.infos[g].containing) : T.projects[p] # Nil
    BY <1>2, <2>1, Zenon DEF Sound
  <2>3. ASSUME NEW g \in InferredRoots(T)
        PROVE  g \in T.openFiles /\ T.infos[g] # Nil /\ Inferred \in ToSet(T.infos[g].containing)
    <3>1. g \in S.openFiles /\ S.infos[g] # Nil /\ Inferred \in ToSet(S.infos[g].containing) /\ g \in InferredRoots(S)
      BY <1>5, <2>3 DEF Sound
    <3>2. g \in Files
      BY <1>1, <3>1 DEF States
    <3> QED BY <1>2, <1>4, <2>1, <3>1, <3>2
  <2> QED BY <1>2, <2>2, <2>3 DEF Sound
<1>7. ASSUME \/ /\ S.infos[f] # Nil /\ i.open = S.infos[f].open /\ i.text = S.infos[f].text
                /\ \/ Inferred \in ToSet(S.infos[f].containing) => Inferred \in ToSet(i.containing)
                   \/ f \in S.openFiles /\ ~i.open
             \/ S.infos[f] = Nil /\ ~i.open,
             Fresh(S) => Fresh(T)
      PROVE  Calm(S, T)
  <2>1. Firm(S, T)
    <3>1. \A g \in Files : T.infos[g] = IF g = f THEN i ELSE S.infos[g]
      BY <1>1, <1>3
    <3> QED BY <1>5, <1>7, <3>1 DEF Firm
  <2> QED BY <1>1, <1>2, <1>3, <1>4, <1>5, <1>7, <2>1 DEF Calm, Keeps, Grows, Panicked
<1> QED BY <1>5, <1>6, <1>7

-----------------------------------------------------------------------------
\* An element is put at the end of a sequence.
LEMMA AppendFacts ==
  ASSUME NEW X, NEW s \in Seq(X), NEW x
  PROVE  /\ Append(s, x) \in Seq(X \cup {x}) /\ ToSet(Append(s, x)) = ToSet(s) \cup {x}
         /\ Len(Append(s, x)) = Len(s) + 1 /\ Append(s, x)[Len(s) + 1] = x
         /\ \A i \in 1..Len(s) : Append(s, x)[i] = s[i]
<1> DEFINE u == Append(s, x)
<1>1. s \in Seq(X \cup {x}) /\ u \in Seq(X \cup {x}) /\ Len(s) \in Nat /\ Len(u) = Len(s) + 1
  OBVIOUS
<1>2. u[Len(s) + 1] = x /\ \A i \in 1..Len(s) : u[i] = s[i]
  BY <1>1
<1>3. DOMAIN u = 1..(Len(s) + 1) /\ DOMAIN s = 1..Len(s)
  BY <1>1
<1> HIDE DEF u
<1>4. ToSet(u) = ToSet(s) \cup {x}
  <2>1. ASSUME NEW y \in ToSet(u) PROVE y \in ToSet(s) \cup {x}
    <3>1. PICK i \in 1..(Len(s) + 1) : y = u[i]
      BY <1>3, <2>1 DEF ToSet
    <3> QED BY <1>1, <1>2, <1>3, <3>1 DEF ToSet
  <2>2. ASSUME NEW y \in ToSet(s) \cup {x} PROVE y \in ToSet(u)
    BY <1>1, <1>2, <1>3, <2>2 DEF ToSet
  <2> QED BY <2>1, <2>2
<1> QED BY <1>1, <1>2, <1>4 DEF u

\* The elements of a sequence that are in a set, in order: what Select has chosen after k elements.
Choose1(S, chosen, x) == IF x \in S THEN Append(chosen, x) ELSE chosen

Chosen(c, k, chosen) ==
  /\ chosen \in Seq(c.S \cap ToSet(c.seq))
  /\ ToSet(chosen) = {c.seq[i] : i \in {j \in 1..k : c.seq[j] \in c.S}}
  /\ c.once => \A i, j \in 1..Len(chosen) : chosen[i] = chosen[j] => i = j

Choosing == INSTANCE FoldInduction WITH step <- Choose1, Inv <- Chosen

\* Select keeps the elements of S, in order and without doubling any.
LEMMA SelectFacts ==
  ASSUME NEW X, NEW seq \in Seq(X), NEW S
  PROVE  /\ Select(seq, S) \in Seq(S \cap ToSet(seq)) /\ ToSet(Select(seq, S)) = S \cap ToSet(seq)
         /\ (\A i, j \in DOMAIN seq : seq[i] = seq[j] => i = j)
               => \A i, j \in DOMAIN Select(seq, S) : Select(seq, S)[i] = Select(seq, S)[j] => i = j
<1> DEFINE once == \A i, j \in DOMAIN seq : seq[i] = seq[j] => i = j
           c == [seq |-> seq, S |-> S, once |-> once]
<1>1. Chosen(c, 0, <<>>)
  BY DEF Chosen, ToSet
<1>2. \A k \in 0..(Len(seq) - 1) : \A T : Chosen(c, k, T) => Chosen(c, k + 1, Choose1(S, T, seq[k + 1]))
  <2> SUFFICES ASSUME NEW k \in 0..(Len(seq) - 1), NEW T, Chosen(c, k, T)
               PROVE  Chosen(c, k + 1, Choose1(S, T, seq[k + 1]))
    OBVIOUS
  <2>1. k + 1 \in DOMAIN seq /\ DOMAIN seq = 1..Len(seq) /\ seq[k + 1] \in ToSet(seq)
    BY DEF ToSet
  <2>2. CASE seq[k + 1] \in S
    <3> DEFINE U == Append(T, seq[k + 1])
    <3>1. T \in Seq(S \cap ToSet(seq)) /\ ToSet(T) = {seq[i] : i \in {j \in 1..k : seq[j] \in S}}
      BY DEF Chosen
    <3>2. U \in Seq(S \cap ToSet(seq)) /\ ToSet(U) = ToSet(T) \cup {seq[k + 1]}
      <4>1. seq[k + 1] \in S \cap ToSet(seq)
        BY <2>1, <2>2
      <4>2. (S \cap ToSet(seq)) \cup {seq[k + 1]} = S \cap ToSet(seq)
        BY <4>1
      <4> QED BY <3>1, <4>2, AppendFacts
    <3>3. ToSet(U) = {seq[i] : i \in {j \in 1..(k + 1) : seq[j] \in S}}
      BY <2>1, <2>2, <3>1, <3>2
    <3>4. ASSUME once, NEW i \in 1..Len(U), NEW j \in 1..Len(U), U[i] = U[j] PROVE i = j
      <4>1. seq[k + 1] \notin ToSet(T)
        BY <2>1, <3>1, <3>4
      <4>2. \A m \in 1..Len(T) : T[m] \in ToSet(T)
        BY <3>1 DEF ToSet
      <4>3. \A m, n \in 1..Len(T) : T[m] = T[n] => m = n
        BY <3>4 DEF Chosen
      <4>4. Len(U) = Len(T) + 1 /\ U[Len(T) + 1] = seq[k + 1] /\ \A m \in 1..Len(T) : U[m] = T[m]
        BY <3>1, AppendFacts
      <4>5. Len(T) \in Nat
        BY <3>1
      <4> HIDE DEF U
      <4>6. CASE i \in 1..Len(T) /\ j \in 1..Len(T)
        BY <3>4, <4>3, <4>4, <4>6
      <4>7. CASE i \notin 1..Len(T) /\ j \notin 1..Len(T)
        BY <4>4, <4>5, <4>7
      <4>8. CASE i \in 1..Len(T) /\ j \notin 1..Len(T)
        <5>1. j = Len(T) + 1
          <6>1. j \in 1..(Len(T) + 1)
            BY <4>4
          <6> QED BY <4>5, <4>8, <6>1
        <5> QED BY <3>4, <4>1, <4>2, <4>4, <4>8, <5>1
      <4>9. CASE i \notin 1..Len(T) /\ j \in 1..Len(T)
        <5>1. i = Len(T) + 1
          <6>1. i \in 1..(Len(T) + 1)
            BY <4>4
          <6> QED BY <4>5, <4>9, <6>1
        <5> QED BY <3>4, <4>1, <4>2, <4>4, <4>9, <5>1
      <4> QED BY <4>6, <4>7, <4>8, <4>9
    <3> HIDE DEF U
    <3>5. Chosen(c, k + 1, U)
      <4>1. once => \A i, j \in 1..Len(U) : U[i] = U[j] => i = j
        BY <3>4
      <4> HIDE DEF once
      <4>2. U \in Seq(c.S \cap ToSet(c.seq))
        BY <3>2
      <4>3. ToSet(U) = {c.seq[i] : i \in {j \in 1..(k + 1) : c.seq[j] \in c.S}}
        BY <3>3
      <4>4. c.once => \A i, j \in 1..Len(U) : U[i] = U[j] => i = j
        BY <4>1
      <4> HIDE DEF c, U
      <4> QED BY <4>2, <4>3, <4>4, Zenon DEF Chosen
    <3> QED BY <2>2, <3>5 DEF Choose1, U
  <2>3. CASE seq[k + 1] \notin S
    <3>1. Choose1(S, T, seq[k + 1]) = T
      BY <2>3 DEF Choose1
    <3>2. {j \in 1..(k + 1) : seq[j] \in S} = {j \in 1..k : seq[j] \in S}
      BY <2>3
    <3> QED BY <3>1, <3>2 DEF Chosen
  <2> QED BY <2>2, <2>3
<1> HIDE DEF c
<1>3. Chosen(c, Len(seq), Choosing!Over(S, <<>>, seq))
  BY <1>1, <1>2, NaturalInduction, Choosing!LoopReaches DEF Choosing!Induction
<1>4. Select(seq, S) = Choosing!Over(S, <<>>, seq)
  BY DEF Select, Choose1, FoldLeft, MapThenFoldSet, Max, Choosing!Over, Choosing!IsRun, Choosing!Last
<1>5. {seq[i] : i \in {j \in 1..Len(seq) : seq[j] \in S}} = S \cap ToSet(seq)
  BY DEF ToSet
<1> HIDE DEF once
<1>6. c = [seq |-> seq, S |-> S, once |-> once]
  BY DEF c
<1> QED 
  <2>1. Chosen(c, Len(seq), Select(seq, S))
    BY <1>3, <1>4
  <2>2. DOMAIN Select(seq, S) = 1..Len(Select(seq, S))
    BY <1>6, <2>1 DEF Chosen
  <2> QED BY <1>5, <1>6, <2>1, <2>2 DEF Chosen, once

\* A project's record is exchanged for another with the same program and no new root.
LEMMA SetProjectCalmly ==
  ASSUME NEW S, Sound(S), NEW p \in Projects, S.projects[p] # Nil, NEW q \in ProjectRecords,
         q.program = S.projects[p].program,
         p = Inferred => ToSet(q.roots) \subseteq ToSet(S.projects[p].roots),
         p = Inferred => \A f \in ToSet(S.projects[p].roots) : f \in ToSet(q.roots) \/ ~S.infos[f].open,
         NEW T, T = [S EXCEPT !.projects = [S.projects EXCEPT ![p] = q]], Renews(S, p, q, T)
  PROVE  Sound(T) /\ Calm(S, T)
<1>1. p = Inferred => ToSet(q.roots) \subseteq InferredRoots(S)
  BY DEF InferredRoots
<1>2. p = Inferred => \A f \in ToSet(q.roots) :
        f \in S.openFiles /\ S.infos[f] # Nil /\ Inferred \in ToSet(S.infos[f].containing)
  BY <1>1 DEF Sound
<1>3. IF S.projects[p] = Nil THEN q.program = Nil ELSE q.program = S.projects[p].program
  OBVIOUS
<1>6. p = Inferred => \A f \in InferredRoots(S) : f \in ToSet(q.roots) \/ ~S.infos[f].open
  BY DEF InferredRoots
<1>4. Sound(T)
  BY <1>2, <1>3, <1>6, SetProject
<1>5. Calm(S, T)
  BY <1>1, <1>2, <1>3, <1>6, SetProject
<1> QED BY <1>4, <1>5

\* What is known of a project and of an info there is.
LEMMA ProjectFacts ==
  ASSUME NEW S, Sound(S), NEW p \in Projects, S.projects[p] # Nil
  PROVE  /\ S.projects[p] \in ProjectRecords /\ S.projects[p].roots \in Seq(Files)
         /\ ToSet(S.projects[p].roots) \subseteq Files
<1>1. S.projects[p] \in ProjectRecords
  BY DEF Sound, States
<1>2. S.projects[p].roots \in Seq(Files)
  BY <1>1 DEF ProjectRecords
<1> QED BY <1>1, <1>2 DEF ToSet

\* ... and the record of an info that there is
LEMMA InfoFacts ==
  ASSUME NEW S, Sound(S), NEW f \in Files, S.infos[f] # Nil
  PROVE  /\ S.infos[f] \in InfoRecords /\ S.infos[f].containing \in Seq(Projects)
         /\ ToSet(S.infos[f].containing) \subseteq Projects
         /\ \A p \in ToSet(S.infos[f].containing) : S.projects[p] # Nil
<1>1. S.infos[f] \in InfoRecords
  BY DEF Sound, States
<1>2. S.infos[f].containing \in Seq(Projects)
  BY <1>1 DEF InfoRecords
<1>3. ToSet(S.infos[f].containing) \subseteq Projects
  BY <1>2 DEF ToSet
<1>4. \A p \in ToSet(S.infos[f].containing) : S.projects[p] # Nil
  BY DEF Sound
<1> QED BY <1>1, <1>2, <1>3, <1>4

\* A panic other than the two that are excluded.
LEMMA PanicFacts ==
  ASSUME NEW S, Sound(S), NEW why \in {"nil pointer", "no config file", "not attached", "file not found"}
  PROVE  Sound(Panic(S, why)) /\ Calm(S, Panic(S, why)) /\ Panicked(Panic(S, why))
<1> DEFINE T == Panic(S, why)
<1>1. S \in States
  BY DEF Sound
<1>2. T \in States /\ T.infos = S.infos /\ T.openFiles = S.openFiles /\ T.docs = S.docs /\ T.projects = S.projects
      /\ T.panic = why
  BY <1>1 DEF States, Panic, Panics
<1>3. InferredRoots(T) = InferredRoots(S) /\ \A p \in Projects : Held(T, p) = Held(S, p)
  BY <1>2 DEF InferredRoots, Held
<1> HIDE DEF T
<1>4. Sound(T)
  BY <1>2, <1>3 DEF Sound
<1>5. Calm(S, T)
  <2>1. \A f \in Files : Version(T, f) = Version(S, f)
    BY <1>1, <1>2 DEF Version, T, Panic, States
  <2>2. Fresh(S) => Fresh(T)
    BY <1>2, <2>1, FreshAlike
  <2>3. Firm(S, T) /\ Panicked(T)
    BY <1>2, <1>3, FirmAlike DEF Panicked
  <2> QED BY <1>2, <1>3, <2>2, <2>3 DEF Calm, Keeps, Grows, SameDocs
<1> QED BY <1>2, <1>4, <1>5 DEF T, Panicked

\* A project is marked dirty.
LEMMA MarkDirtyFacts ==
  ASSUME NEW S, Sound(S), NEW p \in Projects, S.projects[p] # Nil
  PROVE  LET T == MarkDirty(S, p)
         IN  Sound(T) /\ Calm(S, T) /\ Marks(S, T) /\ T.projects[p].dirty
<1> DEFINE q == [S.projects[p] EXCEPT !.dirty = TRUE]
           T == MarkDirty(S, p)
<1>1. /\ q \in ProjectRecords /\ q.program = S.projects[p].program /\ q.roots = S.projects[p].roots
      /\ q.dirty /\ q # Nil
  <2>1. q \in ProjectRecords /\ q.program = S.projects[p].program /\ q.roots = S.projects[p].roots /\ q.dirty
    BY ProjectFacts DEF ProjectRecords
  <2> QED BY <2>1, ServiceAssumption
<1>2. T = [S EXCEPT !.projects = [S.projects EXCEPT ![p] = q]]
  BY DEF MarkDirty
<1> HIDE DEF q, T
<1>3. Sound(T) /\ Calm(S, T)
  BY <1>1, <1>2, SetProjectCalmly DEF Renews
<1>4. /\ T.infos = S.infos /\ T.docs = S.docs /\ T.lastVersions = S.lastVersions
      /\ \A r \in Projects : T.projects[r] = IF r = p THEN q ELSE S.projects[r]
  BY <1>2 DEF Sound, States
<1>5. Marks(S, T)
  BY <1>1, <1>4 DEF Marks
<1> QED BY <1>1, <1>3, <1>4, <1>5 DEF T

\* What most loops keep, of the state S they begin in.
Goes(S, k, T) == Sound(T) /\ Calm(S, T)

\* A calm step after calm steps.
LEMMA GoesOn ==
  ASSUME NEW S, NEW k, NEW T, NEW U, Goes(S, k, T), Sound(U), Calm(T, U)
  PROVE  Goes(S, k + 1, U)
BY CalmTransitive DEF Goes

\* A loop begins where it begins.
LEMMA GoesBegin == ASSUME NEW S, Sound(S) PROVE Goes(S, 0, S)
BY CalmReflexive DEF Goes

\* ... by which a project or an info that there was is still there
LEMMA StillThere ==
  ASSUME NEW S, NEW T, Grows(S, T)
  PROVE  /\ T.openFiles = S.openFiles
         /\ \A p \in Projects : S.projects[p] # Nil => T.projects[p] # Nil
         /\ \A f \in Files : S.infos[f] # Nil => T.infos[f] # Nil
BY DEF Grows

\* The two halves of Calm.
LEMMA CalmGrows == ASSUME NEW S, NEW T, Calm(S, T) PROVE Grows(S, T) /\ SameDocs(S, T)
BY DEF Calm, Keeps

\* The first elements of a sequence, one by one.
First(seq, k) == {seq[i] : i \in 1..k}

\* They are all of them in the end.
LEMMA FirstFacts ==
  ASSUME NEW X, NEW seq \in Seq(X)
  PROVE  /\ First(seq, 0) = {} /\ First(seq, Len(seq)) = ToSet(seq)
         /\ \A k \in 0..(Len(seq) - 1) : First(seq, k + 1) = First(seq, k) \cup {seq[k + 1]}
BY DEF First, ToSet

Mark(c, S, p) == MarkDirty(S, p)

Marked(c, k, T) ==
  /\ Sound(T) /\ Calm(c.from, T) /\ Marks(c.from, T)
  /\ \A p \in First(c.seq, k) : T.projects[p].dirty

Marking == INSTANCE FoldInduction WITH step <- Mark, Inv <- Marked

\* Marks that follow marks.
LEMMA MarksTransitive == ASSUME NEW S, NEW T, NEW U, Marks(S, T), Marks(T, U) PROVE Marks(S, U)
BY DEF Marks

\* Nothing done marks nothing.
LEMMA MarksReflexive == \A S : Marks(S, S)
BY DEF Marks

\* markContainingProjectsAsDirty
LEMMA MarkContainingDirtyFacts ==
  ASSUME NEW S, Sound(S), NEW f \in Files, S.infos[f] # Nil
  PROVE  LET T == MarkContainingDirty(S, f)
         IN  /\ Sound(T) /\ Calm(S, T) /\ Marks(S, T)
             /\ \A p \in ToSet(S.infos[f].containing) : T.projects[p].dirty
<1> DEFINE seq == S.infos[f].containing
           c == [from |-> S, seq |-> seq]
           T == MarkContainingDirty(S, f)
<1>1. seq \in Seq(Projects) /\ \A p \in ToSet(seq) : p \in Projects /\ S.projects[p] # Nil
  BY InfoFacts
<1>2. T = Marking!Over(0, S, seq)
  BY DEF MarkContainingDirty, Mark, FoldLeft, MapThenFoldSet, Max, Marking!Over, Marking!IsRun, Marking!Last
<1> HIDE DEF T, seq
<1>3. First(seq, 0) = {} /\ First(seq, Len(seq)) = ToSet(seq)
      /\ \A k \in 0..(Len(seq) - 1) : First(seq, k + 1) = First(seq, k) \cup {seq[k + 1]}
  BY <1>1, FirstFacts
<1>4. Marked(c, 0, S)
  BY <1>3, CalmReflexive, MarksReflexive DEF Marked
<1>5. \A k \in 0..(Len(seq) - 1) : \A U : Marked(c, k, U) => Marked(c, k + 1, Mark(0, U, seq[k + 1]))
  <2> SUFFICES ASSUME NEW k \in 0..(Len(seq) - 1), NEW U, Marked(c, k, U)
               PROVE  Marked(c, k + 1, MarkDirty(U, seq[k + 1]))
    BY DEF Mark
  <2> DEFINE p == seq[k + 1]
             V == MarkDirty(U, p)
  <2>1. Sound(U) /\ Calm(S, U) /\ Marks(S, U) /\ \A r \in First(seq, k) : U.projects[r].dirty
    BY DEF Marked
  <2>2. p \in Projects /\ p \in ToSet(seq)
    BY <1>1 DEF ToSet
  <2> HIDE DEF p
  <2>3. U.projects[p] # Nil
    BY <1>1, <2>1, <2>2, CalmGrows, StillThere
  <2>4. Sound(V) /\ Calm(U, V) /\ Marks(U, V) /\ V.projects[p].dirty
    BY <2>1, <2>2, <2>3, MarkDirtyFacts
  <2> HIDE DEF V
  <2>5. \A r \in First(seq, k) : r \in Projects /\ U.projects[r] # Nil
    <3> SUFFICES ASSUME NEW i \in 1..k PROVE seq[i] \in Projects /\ U.projects[seq[i]] # Nil
      BY DEF First
    <3>1. seq[i] \in ToSet(seq) /\ seq[i] \in Projects
      BY <1>1 DEF ToSet
    <3> QED BY <1>1, <2>1, <3>1, CalmGrows, StillThere
  <2>6. \A r \in First(seq, k) : V.projects[r].dirty
    BY <2>1, <2>4, <2>5 DEF Marks
  <2>7. \A r \in First(seq, k + 1) : V.projects[r].dirty
    BY <1>3, <2>4, <2>6 DEF p
  <2>8. Sound(V) /\ Calm(S, V) /\ Marks(S, V)
    BY <2>1, <2>4, CalmTransitive, MarksTransitive
  <2>9. Marked(c, k + 1, V)
    BY <2>7, <2>8 DEF Marked
  <2> QED BY <2>9 DEF V, p
<1> HIDE DEF c
<1>6. Marked(c, Len(seq), T)
  BY <1>1, <1>2, <1>4, <1>5, NaturalInduction, Marking!LoopReaches DEF Marking!Induction
<1> QED BY <1>3, <1>6 DEF Marked, c, T, seq

-----------------------------------------------------------------------------
\* A file is attached to a project, that is dirty if the file is a root of it.
LEMMA AttachFacts ==
  ASSUME NEW S, Sound(S), NEW f \in Files, S.infos[f] # Nil, NEW p \in Projects, S.projects[p] # Nil,
         S.projects[p].dirty \/ ~IsRoot(S, p, f)
  PROVE  LET T == Attach(S, f, p)
         IN  /\ Sound(T) /\ Calm(S, T) /\ T.projects = S.projects /\ T.docs = S.docs
             /\ T.infos[f] # Nil /\ p \in ToSet(T.infos[f].containing)
             /\ \A g \in Files \ {f} : T.infos[g] = S.infos[g]
<1>1. CASE p \in ToSet(S.infos[f].containing)
  BY <1>1, CalmReflexive DEF Attach
<1>2. CASE p \notin ToSet(S.infos[f].containing)
  <2> DEFINE i == [S.infos[f] EXCEPT !.containing = Append(S.infos[f].containing, p)]
  <2>1. S.infos[f] \in InfoRecords /\ S.infos[f].containing \in Seq(Projects)
    BY InfoFacts
  <2>2. i.containing \in Seq(Projects \cup {p}) /\ ToSet(i.containing) = ToSet(S.infos[f].containing) \cup {p}
    <3>1. i.containing = Append(S.infos[f].containing, p)
      BY <2>1 DEF InfoRecords
    <3> HIDE DEF i
    <3> QED BY <2>1, <3>1, AppendFacts
  <2>3. Projects \cup {p} = Projects
    OBVIOUS
  <2>4. i \in InfoRecords /\ i.open = S.infos[f].open /\ i.text = S.infos[f].text /\ i.version = S.infos[f].version
    BY <2>1, <2>2, <2>3 DEF InfoRecords
  <2>5. Attach(S, f, p) = [S EXCEPT !.infos = [S.infos EXCEPT ![f] = i]]
    BY <1>2 DEF Attach
  <2>6. f \in InferredRoots(S) => Inferred \in ToSet(S.infos[f].containing)
    BY DEF Sound
  <2> DEFINE T == Attach(S, f, p)
  <2> HIDE DEF i, T
  <2>10. T = [S EXCEPT !.infos = [S.infos EXCEPT ![f] = i]]
    BY <2>5 DEF T
  <2>11. Fresh(S) => Fresh(T)
    <3>1. \A r \in Projects :
             \/ r \in ToSet(i.containing) <=> r \in ToSet(S.infos[f].containing)
             \/ S.projects[r] # Nil /\ S.projects[r].dirty
             \/ r \in ToSet(i.containing) /\ S.projects[r] # Nil /\ ~IsRoot(S, r, f)
      <4> SUFFICES ASSUME NEW r \in Projects
                   PROVE  \/ r \in ToSet(i.containing) <=> r \in ToSet(S.infos[f].containing)
                          \/ S.projects[r] # Nil /\ S.projects[r].dirty
                          \/ r \in ToSet(i.containing) /\ S.projects[r] # Nil /\ ~IsRoot(S, r, f)
        OBVIOUS
      <4>1. CASE r = p
        BY <2>2, <4>1
      <4>2. CASE r # p
        BY <2>2, <4>2
      <4> QED BY <4>1, <4>2
    <3> QED BY <2>4, <2>10, <3>1, FreshInfo
  <2>12. \A r \in ToSet(i.containing) : S.projects[r] # Nil
    BY <2>2, InfoFacts
  <2>13. f \in InferredRoots(S) => Inferred \in ToSet(i.containing)
    BY <2>2, <2>6
  <2>15. Inferred \in ToSet(S.infos[f].containing) => Inferred \in ToSet(i.containing)
    BY <2>2
  <2>7. Sound(T) /\ Calm(S, T)
    BY <2>4, <2>10, <2>11, <2>12, <2>13, <2>15, SetInfo
  <2>8. S \in [infos : [Files -> InfoRecords \cup {Nil}], lastVersions : [Files -> Nat \cup {Nil}],
           openFiles : SUBSET Files, projects : [Projects -> ProjectRecords \cup {Nil}],
           docs : [Files -> DocumentRecords \cup {Nil}], panic : Panics \cup {"none"}]
    BY DEF Sound, States
  <2>9. T.projects = S.projects /\ T.docs = S.docs /\ T.infos[f] = i /\ \A g \in Files \ {f} : T.infos[g] = S.infos[g]
    BY <2>8, <2>10
  <2>14. i # Nil
    BY <2>4, ServiceAssumption
  <2> QED BY <2>2, <2>7, <2>9, <2>14 DEF T
<1> QED BY <1>1, <1>2

\* A file is detached from a dirty project; from the inferred one while it is being closed and when
\* it is no root of it any more.
LEMMA DetachFacts ==
  ASSUME NEW S, Sound(S), NEW f \in Files, S.infos[f] # Nil, NEW p \in Projects,
         S.projects[p] # Nil, S.projects[p].dirty,
         p = Inferred => f \notin InferredRoots(S) /\ f \in S.openFiles /\ ~S.infos[f].open
  PROVE  LET T == Detach(S, f, p) IN Sound(T) /\ Calm(S, T) /\ T.projects = S.projects
<1> DEFINE left == Select(S.infos[f].containing, Projects \ {p})
           i == [S.infos[f] EXCEPT !.containing = left]
<1>1. S.infos[f] \in InfoRecords /\ S.infos[f].containing \in Seq(Projects)
      /\ ToSet(S.infos[f].containing) \subseteq Projects
  BY InfoFacts
<1>2. left \in Seq((Projects \ {p}) \cap ToSet(S.infos[f].containing))
      /\ ToSet(left) = (Projects \ {p}) \cap ToSet(S.infos[f].containing)
  BY <1>1, SelectFacts
<1>3. left \in Seq(Projects)
  <2> HIDE DEF left
  <2> QED BY <1>2
<1> HIDE DEF left
<1>4. /\ i \in InfoRecords /\ i.open = S.infos[f].open /\ i.text = S.infos[f].text /\ i.version = S.infos[f].version
      /\ i.containing = left
  BY <1>1, <1>3 DEF InfoRecords
<1>5. Detach(S, f, p) = [S EXCEPT !.infos = [S.infos EXCEPT ![f] = i]]
  BY DEF Detach, left
<1> HIDE DEF i
<1>6. f \in InferredRoots(S) => Inferred \in ToSet(i.containing)
  <2>1. f \in InferredRoots(S) => Inferred \in ToSet(S.infos[f].containing)
    BY DEF Sound
  <2> QED BY <1>2, <1>4, <2>1 DEF Projects
<1>7. \A r \in ToSet(i.containing) : S.projects[r] # Nil
  BY <1>2, <1>4, InfoFacts
<1> DEFINE T == Detach(S, f, p)
<1> HIDE DEF T
<1>8. T = [S EXCEPT !.infos = [S.infos EXCEPT ![f] = i]]
  BY <1>5 DEF T
<1>9. Fresh(S) => Fresh(T)
  <2>1. \A r \in Projects :
           \/ r \in ToSet(i.containing) <=> r \in ToSet(S.infos[f].containing)
           \/ S.projects[r] # Nil /\ S.projects[r].dirty
           \/ r \in ToSet(i.containing) /\ S.projects[r] # Nil /\ ~IsRoot(S, r, f)
    <3> SUFFICES ASSUME NEW r \in Projects, r # p
                 PROVE  r \in ToSet(i.containing) <=> r \in ToSet(S.infos[f].containing)
      OBVIOUS
    <3> QED BY <1>2, <1>4
  <2> QED BY <1>4, <1>8, <2>1, FreshInfo
<1>12. \/ Inferred \in ToSet(S.infos[f].containing) => Inferred \in ToSet(i.containing)
       \/ f \in S.openFiles /\ ~i.open
  BY <1>2, <1>4 DEF Projects
<1>10. Sound(T) /\ Calm(S, T)
  BY <1>4, <1>6, <1>7, <1>8, <1>9, <1>12, SetInfo
<1>11. T.projects = S.projects
  BY <1>8 DEF Sound, States
<1> QED BY <1>10, <1>11 DEF T

\* The version that the file of an info had is remembered, or no longer.
LEMMA SetVersion ==
  ASSUME NEW S, Sound(S), NEW f \in Files, S.infos[f] # Nil, NEW v \in Nat \cup {Nil},
         NEW T, T = [S EXCEPT !.lastVersions = [S.lastVersions EXCEPT ![f] = v]]
  PROVE  Sound(T) /\ Calm(S, T) /\ T.infos = S.infos /\ T.projects = S.projects
<1>1. S \in States /\ S.lastVersions \in [Files -> Nat \cup {Nil}]
  BY DEF Sound, States
<1>2. T \in States /\ T.infos = S.infos /\ T.openFiles = S.openFiles /\ T.docs = S.docs /\ T.projects = S.projects
      /\ T.panic = S.panic
  BY <1>1 DEF States
<1>3. InferredRoots(T) = InferredRoots(S) /\ \A p \in Projects : Held(T, p) = Held(S, p)
  BY <1>2 DEF InferredRoots, Held
<1>4. Sound(T)
  BY <1>2, <1>3 DEF Sound
<1>5. Calm(S, T)
  <2>1. \A g \in Files : T.lastVersions[g] = IF g = f THEN v ELSE S.lastVersions[g]
    BY <1>1 DEF States
  <2>2. \A g \in Files : Version(T, g) = Version(S, g)
    BY <1>2, <2>1 DEF Version
  <2>3. Fresh(S) => Fresh(T)
    BY <1>2, <2>2, FreshAlike
  <2>4. Firm(S, T)
    BY <1>2, <1>3, FirmAlike
  <2> QED BY <1>2, <1>3, <2>3, <2>4 DEF Calm, Keeps, Grows, SameDocs, Panicked
<1> QED BY <1>2, <1>4, <1>5

\* An info is made for a file that has none.
LEMMA CreateFacts ==
  ASSUME NEW S, Sound(S), NEW f \in Files, S.infos[f] = Nil, NEW text \in Texts \cup {Blank}
  PROVE  LET T == Create(S, f, text)
         IN  /\ Sound(T) /\ Calm(S, T) /\ T.projects = S.projects
             /\ T.infos[f] = NewInfo(S, f, text) /\ T.infos[f] # Nil
             /\ \A g \in Files \ {f} : T.infos[g] = S.infos[g]
<1> DEFINE i == NewInfo(S, f, text)
           R == [S EXCEPT !.infos = [S.infos EXCEPT ![f] = i]]
           T == [R EXCEPT !.lastVersions = [R.lastVersions EXCEPT ![f] = Nil]]
<1>1. S \in States /\ S.lastVersions[f] \in Nat \cup {Nil} /\ S.infos \in [Files -> InfoRecords \cup {Nil}]
  BY DEF Sound, States
<1>2. i.version \in Nat /\ Version(S, f) < i.version
  <2>1. CASE S.lastVersions[f] = Nil
    BY <2>1 DEF NewInfo, Version
  <2>2. CASE S.lastVersions[f] # Nil
    BY <1>1, <2>2 DEF NewInfo, Version
  <2> QED BY <2>1, <2>2
<1>3. i \in InfoRecords /\ ~i.open /\ ToSet(i.containing) = {}
  <2>1. <<>> \in Seq(Projects) /\ ToSet(<<>>) = {}
    BY DEF ToSet
  <2> QED BY <1>2, <2>1 DEF NewInfo, InfoRecords
<1>4. i # Nil
  BY <1>3, ServiceAssumption
<1>5. f \notin InferredRoots(S)
  BY DEF Sound
<1> HIDE DEF i
<1>6. /\ R.infos[f] = i /\ R.projects = S.projects /\ R.lastVersions = S.lastVersions
      /\ \A g \in Files \ {f} : R.infos[g] = S.infos[g]
  BY <1>1 DEF States
<1>7. Create(S, f, text) = T
  <2>1. Create(S, f, text) = [S EXCEPT !.infos[f] = i, !.lastVersions[f] = Nil]
    BY DEF Create, i
  <2> QED BY <1>1, <2>1 DEF States
<1> HIDE DEF R
<1>8. Sound(R) /\ Calm(S, R)
  <2>1. R = [S EXCEPT !.infos = [S.infos EXCEPT ![f] = i]]
    BY DEF R
  <2>2. Fresh(S) => Fresh(R)
    BY <1>2, <1>3, <2>1, FreshNew
  <2> QED BY <1>3, <1>5, <2>1, <2>2, SetInfo
<1>9. Sound(T) /\ Calm(R, T) /\ T.infos = R.infos /\ T.projects = R.projects
  BY <1>4, <1>6, <1>8, SetVersion
<1> HIDE DEF T
<1> QED BY <1>4, <1>6, <1>7, <1>8, <1>9, CalmTransitive DEF i

\* ... or, as far as the file exists, from the disk.
LEMMA GetOrCreateInfoFacts ==
  ASSUME NEW S, Sound(S), NEW f \in Files, disk \in [Files -> Texts \cup {Nil}]
  PROVE  LET T == GetOrCreateInfo(S, f)
         IN  /\ Sound(T) /\ Calm(S, T) /\ T.projects = S.projects
             /\ S.infos[f] # Nil \/ disk[f] # Nil => T.infos[f] # Nil
             /\ \A g \in Files \ {f} : T.infos[g] = S.infos[g]
<1>1. CASE S.infos[f] # Nil \/ disk[f] = Nil
  BY <1>1, CalmReflexive DEF GetOrCreateInfo
<1>2. CASE S.infos[f] = Nil /\ disk[f] # Nil
  <2>1. disk[f] \in Texts \cup {Blank}
    BY <1>2
  <2>2. GetOrCreateInfo(S, f) = Create(S, f, disk[f])
    BY <1>2 DEF GetOrCreateInfo
  <2> QED BY <1>2, <2>1, <2>2, CreateFacts
<1> QED BY <1>1, <1>2

-----------------------------------------------------------------------------
\* A file becomes a root of a project; of the inferred one only when it is open.
LEMMA AddRootFacts ==
  ASSUME NEW S, Sound(S), NEW p \in Projects, S.projects[p] # Nil, NEW f \in Files, S.infos[f] # Nil,
         ~IsRoot(S, p, f), p = Inferred => f \in S.openFiles
  PROVE  LET T == AddRoot(S, p, f)
         IN  /\ Sound(T) /\ Grows(S, T) /\ SameDocs(S, T) /\ (p # Inferred => Calm(S, T)) /\ T.projects[p].dirty
             /\ IsRoot(T, p, f)
<1> DEFINE R == [S EXCEPT !.projects[p].roots = Append(S.projects[p].roots, f)]
           A == Attach(S, f, p)
           q == [S.projects[p] EXCEPT !.roots = Append(S.projects[p].roots, f), !.dirty = TRUE]
           B == [A EXCEPT !.projects = [A.projects EXCEPT ![p] = q]]
<1>1. Sound(A) /\ Calm(S, A) /\ A.projects = S.projects /\ p \in ToSet(A.infos[f].containing)
  BY AttachFacts
<1>2. A.openFiles = S.openFiles /\ A.infos[f] # Nil
  BY <1>1, CalmGrows, StillThere
<1>3. S.projects[p] \in ProjectRecords /\ S.projects[p].roots \in Seq(Files) /\ ToSet(S.projects[p].roots) \subseteq Files
  BY ProjectFacts
<1>4. Append(S.projects[p].roots, f) \in Seq(Files)
      /\ ToSet(Append(S.projects[p].roots, f)) = ToSet(S.projects[p].roots) \cup {f}
  <2>1. Files \cup {f} = Files
    OBVIOUS
  <2> QED BY <1>3, <2>1, AppendFacts
<1>5. q \in ProjectRecords /\ q.roots = Append(S.projects[p].roots, f) /\ q.program = S.projects[p].program /\ q.dirty
  BY <1>3, <1>4 DEF ProjectRecords
<1>6. AddRoot(S, p, f) = B
  <2>1. S \in States
    BY DEF Sound
  <2>2. R.infos = S.infos
    BY <2>1 DEF States
  <2> DEFINE r == [S.projects[p] EXCEPT !.roots = Append(S.projects[p].roots, f)]
             C == [A EXCEPT !.projects = [A.projects EXCEPT ![p] = r]]
  <2>3. R = [S EXCEPT !.projects = [S.projects EXCEPT ![p] = r]]
    BY <2>1 DEF States
  <2>4. q = [r EXCEPT !.dirty = TRUE]
    BY <1>3 DEF ProjectRecords
  <2> HIDE DEF R, q, r
  <2>5. Attach(R, f, p) = C
    <3>1. CASE p \in ToSet(S.infos[f].containing)
      BY <2>2, <2>3, <3>1 DEF Attach
    <3>2. CASE p \notin ToSet(S.infos[f].containing)
      BY <2>1, <2>2, <2>3, <3>2 DEF Attach, States
    <3> QED BY <3>1, <3>2
  <2>6. MarkDirty(C, p) = B
    <3>1. A \in States
      BY <1>1 DEF Sound
    <3> HIDE DEF A
    <3> QED BY <2>4, <3>1 DEF MarkDirty, States
  <2>7. AddRoot(S, p, f) = MarkDirty(Attach(R, f, p), p)
    BY DEF AddRoot, R
  <2> QED BY <2>5, <2>6, <2>7
<1> HIDE DEF A, q
<1>7. p = Inferred => \A g \in ToSet(q.roots) :
        g \in A.openFiles /\ A.infos[g] # Nil /\ Inferred \in ToSet(A.infos[g].containing)
  <2> SUFFICES ASSUME p = Inferred, NEW g \in ToSet(q.roots)
               PROVE  g \in A.openFiles /\ A.infos[g] # Nil /\ Inferred \in ToSet(A.infos[g].containing)
    OBVIOUS
  <2>1. CASE g = f
    BY <1>1, <1>2, <2>1
  <2>2. CASE g # f
    <3>1. g \in InferredRoots(A)
      BY <1>1, <1>4, <1>5, <2>2 DEF InferredRoots
    <3> QED BY <1>1, <3>1 DEF Sound
  <2> QED BY <2>1, <2>2
<1>8. p \in Projects /\ A.projects[p] # Nil /\ q \in ProjectRecords /\ q.program = A.projects[p].program
  BY <1>1, <1>5
<1>14. p = Inferred => \A g \in InferredRoots(A) : g \in ToSet(q.roots)
  BY <1>1, <1>4, <1>5 DEF InferredRoots
<1>9. Sound(B) /\ Grows(A, B) /\ SameDocs(A, B) /\ (p # Inferred => Calm(A, B))
  BY <1>1, <1>5, <1>7, <1>8, <1>14, SetProject DEF Renews
<1>10. B.projects[p].dirty /\ IsRoot(B, p, f)
  <2>1. B.projects[p] = q
    BY <1>1 DEF Sound, States
  <2> QED BY <1>4, <1>5, <2>1 DEF IsRoot
<1> HIDE DEF B
<1>11. Grows(S, B)
  BY <1>1, <1>9, CalmGrows, GrowsTransitive
<1>12. SameDocs(S, B)
  BY <1>1, <1>9, CalmGrows DEF SameDocs
<1>13. p # Inferred => Calm(S, B)
  BY <1>1, <1>9, CalmTransitive
<1> QED BY <1>6, <1>9, <1>10, <1>11, <1>12, <1>13

\* The inferred project gives a root up that is being closed.
LEMMA UnrootFacts ==
  ASSUME NEW S, Sound(S), NEW p \in Projects, S.projects[p] # Nil, NEW f \in Files,
         p = Inferred /\ f \in InferredRoots(S) => ~S.infos[f].open
  PROVE  LET T == Unroot(S, p, f)
         IN  /\ Sound(T) /\ Calm(S, T) /\ T.infos = S.infos
             /\ \A r \in Projects \ {p} : T.projects[r] = S.projects[r]
             /\ p = Inferred => f \notin InferredRoots(T)
<1>1. S.projects[p] \in ProjectRecords /\ S.projects[p].roots \in Seq(Files) /\ ToSet(S.projects[p].roots) \subseteq Files
  BY ProjectFacts
<1>2. CASE ~IsRoot(S, p, f)
  BY <1>2, CalmReflexive DEF Unroot, IsRoot, InferredRoots
<1>3. CASE IsRoot(S, p, f) /\ p # Inferred
  <2> DEFINE q == [S.projects[p] EXCEPT !.reloadConfig = TRUE]
  <2>1. /\ q \in ProjectRecords /\ q.program = S.projects[p].program
        /\ q.roots = S.projects[p].roots /\ q.dirty = S.projects[p].dirty
    BY <1>1 DEF ProjectRecords
  <2>2. Unroot(S, p, f) = [S EXCEPT !.projects = [S.projects EXCEPT ![p] = q]]
    BY <1>3 DEF Unroot
  <2> DEFINE T == Unroot(S, p, f)
  <2> HIDE DEF q, T
  <2>3. T = [S EXCEPT !.projects = [S.projects EXCEPT ![p] = q]]
    BY <2>2 DEF T
  <2>4. Sound(T) /\ Calm(S, T)
    BY <1>3, <2>1, <2>3, SetProjectCalmly DEF Renews
  <2>5. T.infos = S.infos /\ \A r \in Projects \ {p} : T.projects[r] = S.projects[r]
    BY <2>3 DEF Sound, States
  <2> QED BY <1>3, <2>4, <2>5 DEF T
<1>4. CASE IsRoot(S, p, f) /\ p = Inferred
  <2> DEFINE left == Select(S.projects[p].roots, Files \ {f})
             q == [S.projects[p] EXCEPT !.roots = left]
  <2>1. left \in Seq((Files \ {f}) \cap ToSet(S.projects[p].roots))
        /\ ToSet(left) = (Files \ {f}) \cap ToSet(S.projects[p].roots)
    BY <1>1, SelectFacts
  <2> HIDE DEF left
  <2>2. left \in Seq(Files)
    BY <2>1
  <2>3. q \in ProjectRecords /\ q.program = S.projects[p].program /\ q.roots = left /\ q.dirty = S.projects[p].dirty
    BY <1>1, <2>2 DEF ProjectRecords
  <2>4. Unroot(S, p, f) = [S EXCEPT !.projects = [S.projects EXCEPT ![p] = q]]
    BY <1>4 DEF Unroot, left
  <2> HIDE DEF q
  <2> DEFINE T == Unroot(S, p, f)
  <2> HIDE DEF T
  <2>5. ToSet(q.roots) \subseteq ToSet(S.projects[p].roots)
    BY <2>1, <2>3
  <2>6. T = [S EXCEPT !.projects = [S.projects EXCEPT ![p] = q]]
    BY <2>4 DEF T
  <2>10. \A g \in ToSet(S.projects[p].roots) : g \in ToSet(q.roots) \/ ~S.infos[g].open
    BY <1>1, <1>4, <2>1, <2>3 DEF InferredRoots
  <2>7. Sound(T) /\ Calm(S, T)
    BY <2>3, <2>5, <2>6, <2>10, SetProjectCalmly DEF Renews
  <2>8. T.projects[p] = q /\ T.infos = S.infos /\ \A r \in Projects \ {p} : T.projects[r] = S.projects[r]
    BY <2>6 DEF Sound, States
  <2>9. f \notin InferredRoots(T)
    BY <1>4, <2>1, <2>3, <2>8 DEF InferredRoots
  <2> QED BY <2>7, <2>8, <2>9 DEF T
<1> QED BY <1>2, <1>3, <1>4

\* A file is removed from a project.
LEMMA RemoveFileFacts ==
  ASSUME NEW S, Sound(S), NEW p \in Projects, S.projects[p] # Nil, NEW f \in Files, NEW detach \in BOOLEAN,
         p = Inferred /\ f \in InferredRoots(S) => ~S.infos[f].open,
         detach => S.infos[f] # Nil /\ (p = Inferred => f \in S.openFiles /\ ~S.infos[f].open)
  PROVE  LET T == RemoveFile(S, p, f, detach)
         IN  /\ Sound(T) /\ Calm(S, T)
             /\ p = Inferred => f \notin InferredRoots(T)
             /\ T.projects[p].dirty
             /\ \A r \in Projects : S.projects[r] # Nil /\ S.projects[r].dirty => T.projects[r].dirty
             /\ ~detach => T.infos = S.infos
<1> DEFINE U == Unroot(S, p, f)
           M == MarkDirty(U, p)
           D == IF detach THEN Detach(M, f, p) ELSE M
<1>1. /\ Sound(U) /\ Calm(S, U) /\ (p = Inferred => f \notin InferredRoots(U))
      /\ U.infos = S.infos /\ \A r \in Projects \ {p} : U.projects[r] = S.projects[r]
  BY UnrootFacts
<1>2. U.projects[p] # Nil
  BY <1>1, CalmGrows, StillThere
<1>3. RemoveFile(S, p, f, detach) = D
  <2>1. U \in States
    BY <1>1 DEF Sound
  <2>2. RemoveFile(S, p, f, detach) = MarkDirty(IF detach THEN Detach(U, f, p) ELSE U, p)
    BY DEF RemoveFile
  <2> HIDE DEF U
  <2>3. MarkDirty(Detach(U, f, p), p) = Detach(MarkDirty(U, p), f, p)
    BY <2>1 DEF MarkDirty, Detach, States
  <2> QED BY <2>2, <2>3
<1> HIDE DEF U
<1>4. Sound(M) /\ Calm(U, M) /\ Marks(U, M) /\ M.projects[p].dirty
  BY <1>1, <1>2, MarkDirtyFacts
<1>5. M.projects[p] # Nil /\ M.infos = S.infos /\ InferredRoots(M) \subseteq InferredRoots(U)
  BY <1>1, <1>2, <1>4 DEF Marks, Calm, Keeps
<1> HIDE DEF M
<1>10. M.openFiles = S.openFiles
  BY <1>1, <1>4, CalmGrows, StillThere
<1>6. Sound(D) /\ Calm(M, D) /\ D.projects = M.projects /\ (~detach => D.infos = M.infos)
  BY <1>1, <1>4, <1>5, <1>10, DetachFacts, CalmReflexive
<1> HIDE DEF D
<1>7. Calm(S, D)
  BY <1>1, <1>4, <1>6, CalmTransitive
<1>8. InferredRoots(D) = InferredRoots(M)
  BY <1>6 DEF InferredRoots
<1>9. ASSUME NEW r \in Projects, S.projects[r] # Nil /\ S.projects[r].dirty PROVE M.projects[r].dirty
  BY <1>1, <1>4, <1>9 DEF Marks
<1> QED BY <1>1, <1>3, <1>4, <1>5, <1>6, <1>7, <1>8, <1>9

-----------------------------------------------------------------------------
\* A file of a config is made a root of its project.
LEMMA AddListedFacts ==
  ASSUME NEW S, Sound(S), NEW c \in Configs, S.projects[c] # Nil, NEW f \in Files,
         disk \in [Files -> Texts \cup {Nil}]
  PROVE  Sound(AddListed(S, c, f)) /\ Calm(S, AddListed(S, c, f))
<1> DEFINE T == GetOrCreateInfo(S, f)
           U == IF T.infos[f] = Nil THEN Panic(T, "nil pointer")
                ELSE IF IsRoot(T, c, f) THEN T ELSE AddRoot(T, c, f)
<1>1. AddListed(S, c, f) = IF Panicked(T) THEN T ELSE U
  BY DEF AddListed, Then
<1>2. Sound(T) /\ Calm(S, T)
  BY GetOrCreateInfoFacts
<1>3. c \in Projects /\ c # Inferred /\ T.projects[c] # Nil
  BY <1>2, CalmGrows, StillThere, ServiceAssumption DEF Projects
<1> HIDE DEF T
<1>4. Sound(U) /\ Calm(T, U)
  <2>1. CASE T.infos[f] = Nil
    BY <1>2, <2>1, PanicFacts
  <2>2. CASE T.infos[f] # Nil /\ IsRoot(T, c, f)
    BY <1>2, <2>2, CalmReflexive
  <2>3. CASE T.infos[f] # Nil /\ ~IsRoot(T, c, f)
    BY <1>2, <1>3, <2>3, AddRootFacts
  <2> QED BY <2>1, <2>2, <2>3
<1> HIDE DEF U
<1> QED BY <1>1, <1>2, <1>4, CalmTransitive

Listing(c, S, f) == AddListed(S, c, f)
Listings == INSTANCE FoldInduction WITH step <- Listing, Inv <- Goes

\* The first loop of setRootFiles, over the names of the config.
LEMMA AllListedFacts ==
  ASSUME NEW S, Sound(S), NEW c \in Configs, S.projects[c] # Nil, NEW names \in Seq(Files),
         disk \in [Files -> Texts \cup {Nil}]
  PROVE  LET T == FoldLeft(LAMBDA U, f : AddListed(U, c, f), S, names)
         IN  Sound(T) /\ Calm(S, T)
<1>1. \A k \in Nat : \A T : \A f \in Files : Goes(S, k, T) => Goes(S, k + 1, Listing(c, T, f))
  <2> SUFFICES ASSUME NEW k \in Nat, NEW T, NEW f \in Files, Goes(S, k, T)
               PROVE  Goes(S, k + 1, AddListed(T, c, f))
    BY DEF Listing
  <2>1. Sound(T) /\ T.projects[c] # Nil
    BY CalmGrows, StillThere DEF Goes, Projects
  <2> QED BY <2>1, AddListedFacts, GoesOn
<1>2. Goes(S, Len(names), Listings!Over(c, S, names))
  BY <1>1, GoesBegin, NaturalInduction, Listings!LoopKeeps DEF Listings!Induction
<1>3. FoldLeft(LAMBDA U, f : AddListed(U, c, f), S, names) = Listings!Over(c, S, names)
  BY DEF Listing, FoldLeft, MapThenFoldSet, Max, Listings!Over, Listings!IsRun, Listings!Last
<1> QED BY <1>2, <1>3 DEF Goes

\* Two sequences are joined.
LEMMA ConcatFacts ==
  ASSUME NEW X, NEW l \in Seq(X), NEW r \in Seq(X)
  PROVE  /\ Len(l \o r) = Len(l) + Len(r)
         /\ \A j \in 1..Len(l \o r) : (l \o r)[j] = IF j <= Len(l) THEN l[j] ELSE r[j - Len(l)]
OBVIOUS

\* A place of a sequence is taken out.
LEMMA RemoveAtFacts ==
  ASSUME NEW X, NEW s \in Seq(X), NEW i \in 1..Len(s)
  PROVE  RemoveAt(s, i) \in Seq(X) /\ ToSet(RemoveAt(s, i)) \subseteq ToSet(s)
<1> DEFINE u == RemoveAt(s, i)
<1>1. u \in Seq(X)
  BY DEF RemoveAt
<1>2. Len(u) = Len(s) - 1 /\ \A j \in 1..Len(u) : u[j] = IF j < i THEN s[j] ELSE s[j + 1]
  <2> DEFINE l == SubSeq(s, 1, i - 1)
             r == SubSeq(s, i + 1, Len(s))
  <2>1. l \in Seq(X) /\ Len(l) = i - 1 /\ \A j \in 1..(i - 1) : l[j] = s[j]
    OBVIOUS
  <2>2. r \in Seq(X) /\ Len(r) = Len(s) - i /\ \A j \in 1..(Len(s) - i) : r[j] = s[i + j]
    OBVIOUS
  <2>3. u = l \o r
    BY DEF RemoveAt
  <2>4. i \in Nat \ {0} /\ Len(s) \in Nat /\ i <= Len(s)
    OBVIOUS
  <2> HIDE DEF l, r, u
  <2>5. Len(u) = Len(l) + Len(r) /\ \A j \in 1..Len(u) : u[j] = IF j <= Len(l) THEN l[j] ELSE r[j - Len(l)]
    BY <2>1, <2>2, <2>3, ConcatFacts
  <2>6. Len(u) = Len(s) - 1
    BY <2>1, <2>2, <2>4, <2>5
  <2>7. ASSUME NEW j \in 1..Len(u) PROVE u[j] = IF j < i THEN s[j] ELSE s[j + 1]
    <3>1. CASE j < i
      BY <2>1, <2>4, <2>5, <2>6, <2>7, <3>1
    <3>2. CASE ~(j < i)
      <4>1. j - (i - 1) \in 1..(Len(s) - i) /\ i + (j - (i - 1)) = j + 1 /\ ~(j <= i - 1)
        BY <2>4, <2>6, <2>7, <3>2
      <4> QED BY <2>1, <2>2, <2>5, <2>7, <3>2, <4>1
    <3> QED BY <3>1, <3>2
  <2> QED BY <2>6, <2>7
<1> HIDE DEF u
<1>3. ASSUME NEW y \in ToSet(u) PROVE y \in ToSet(s)
  <2>1. PICK j \in 1..Len(u) : y = u[j]
    BY <1>1, <1>3 DEF ToSet
  <2>2. PICK k \in 1..Len(s) : y = s[k]
    <3>1. Len(s) \in Nat
      OBVIOUS
    <3>2. CASE j < i
      BY <1>2, <2>1, <3>1, <3>2
    <3>3. CASE ~(j < i)
      BY <1>2, <2>1, <3>1, <3>3
    <3> QED BY <3>2, <3>3
  <2> QED BY <2>2 DEF ToSet
<1> QED BY <1>1, <1>3 DEF u

\* Places are numbers.
LEMMA PlacesFacts ==
  ASSUME NEW X, NEW s \in Seq(X)
  PROVE  /\ Places(s) \in Seq(Nat \ {0}) /\ Len(Places(s)) = Len(s)
         /\ \A i \in 1..Len(s) : Places(s)[i] = i
BY DEF Places

\* A root that the config does not name any more is given up.
LEMMA PruneAtFacts ==
  ASSUME NEW S, Sound(S), NEW c \in Configs, S.projects[c] # Nil, NEW names, NEW i \in Nat \ {0}
  PROVE  Sound(PruneAt(S, c, names, i)) /\ Calm(S, PruneAt(S, c, names, i))
<1> DEFINE roots == S.projects[c].roots
<1>1. c \in Projects /\ c # Inferred
  BY ServiceAssumption DEF Projects
<1>2. S.projects[c] \in ProjectRecords /\ roots \in Seq(Files)
  BY <1>1, ProjectFacts
<1>3. CASE i > Len(roots) \/ roots[i] \in ToSet(names)
  BY <1>3, CalmReflexive DEF PruneAt
<1>4. CASE i <= Len(roots) /\ roots[i] \notin ToSet(names) /\ S.infos[roots[i]] # Nil
  <2>1. roots[i] \in Files
    BY <1>2, <1>4
  <2>2. PruneAt(S, c, names, i) = RemoveFile(S, c, roots[i], TRUE)
    <3>1. ~(i > Len(roots))
      BY <1>2, <1>4
    <3> QED BY <1>4, <3>1 DEF PruneAt
  <2> HIDE DEF roots
  <2> QED BY <1>1, <1>4, <2>1, <2>2, RemoveFileFacts
<1>5. CASE i <= Len(roots) /\ roots[i] \notin ToSet(names) /\ S.infos[roots[i]] = Nil
  <2> DEFINE q == [S.projects[c] EXCEPT !.roots = RemoveAt(roots, i)]
  <2>1. i \in 1..Len(roots) /\ ~(i > Len(roots))
    BY <1>2, <1>5
  <2>2. RemoveAt(roots, i) \in Seq(Files) /\ ToSet(RemoveAt(roots, i)) \subseteq ToSet(roots)
    <3> HIDE DEF roots
    <3> QED BY <1>2, <2>1, RemoveAtFacts
  <2>3. /\ q \in ProjectRecords /\ q.program = S.projects[c].program
        /\ q.dirty = S.projects[c].dirty /\ q.roots = RemoveAt(roots, i)
    BY <1>2, <2>2 DEF ProjectRecords
  <2>4. PruneAt(S, c, names, i) = [S EXCEPT !.projects = [S.projects EXCEPT ![c] = q]]
    BY <1>5, <2>1 DEF PruneAt
  <2> DEFINE T == PruneAt(S, c, names, i)
  <2> HIDE DEF q, T
  <2>5. T = [S EXCEPT !.projects = [S.projects EXCEPT ![c] = q]]
    BY <2>4 DEF T
  <2>6. Renews(S, c, q, T)
    BY <2>2, <2>3 DEF Renews
  <2> QED BY <1>1, <2>3, <2>5, <2>6, SetProjectCalmly DEF T
<1> QED BY <1>2, <1>3, <1>4, <1>5

Pruning(c, S, i) == PruneAt(S, c.project, c.names, i)
Prunings == INSTANCE FoldInduction WITH step <- Pruning, Inv <- Goes

\* The second loop of setRootFiles, over the places of the roots.
LEMMA PruneFacts ==
  ASSUME NEW S, Sound(S), NEW c \in Configs, S.projects[c] # Nil, NEW names
  PROVE  Sound(Prune(S, c, names)) /\ Calm(S, Prune(S, c, names))
<1>1. CASE Len(S.projects[c].roots) <= Len(names)
  BY <1>1, CalmReflexive DEF Prune
<1>2. CASE ~(Len(S.projects[c].roots) <= Len(names))
  <2> DEFINE places == Places(S.projects[c].roots)
             ctx == [project |-> c, names |-> names]
  <2>1. places \in Seq(Nat \ {0})
    BY ProjectFacts, PlacesFacts DEF Projects
  <2>2. \A k \in Nat : \A T : \A i \in Nat \ {0} : Goes(S, k, T) => Goes(S, k + 1, Pruning(ctx, T, i))
    <3> SUFFICES ASSUME NEW k \in Nat, NEW T, NEW i \in Nat \ {0}, Goes(S, k, T)
                 PROVE  Goes(S, k + 1, PruneAt(T, c, names, i))
      BY DEF Pruning
    <3>1. Sound(T) /\ T.projects[c] # Nil
      BY CalmGrows, StillThere DEF Goes, Projects
    <3> QED BY <3>1, PruneAtFacts, GoesOn
  <2> HIDE DEF places
  <2>3. Goes(S, Len(places), Prunings!Over(ctx, S, places))
    <3> HIDE DEF ctx
    <3> QED BY <2>1, <2>2, GoesBegin, NaturalInduction, Prunings!LoopKeeps DEF Prunings!Induction
  <2>4. Prune(S, c, names) = FoldLeft(LAMBDA T, i : PruneAt(T, c, names, i), S, places)
    BY <1>2 DEF Prune, places
  <2>5. Prune(S, c, names) = Prunings!Over(ctx, S, places)
    BY <2>4 DEF Pruning, FoldLeft, MapThenFoldSet, Max, Prunings!Over, Prunings!IsRun, Prunings!Last
  <2> QED BY <2>3, <2>5 DEF Goes
<1> QED BY <1>1, <1>2

\* A config that exists is read.
LEMMA LoadConfigFacts ==
  ASSUME NEW S, Sound(S), NEW c \in Configs, S.projects[c] # Nil, disk \in [Files -> Texts \cup {Nil}]
  PROVE  LET T == LoadConfig(S, c)
         IN  Sound(T) /\ Calm(S, T) /\ (S.projects[c].dirty => T.projects[c].dirty)
<1> DEFINE names == ConfigFileNames(c)
           T == FoldLeft(LAMBDA U, f : AddListed(U, c, f), S, names)
           V == IF Panicked(T) THEN T ELSE Prune(T, c, names)
<1>1. names \in Seq(Files)
  <2> DEFINE X == config[c].files \cup {f \in config[c].include : disk[f] # Nil}
  <2>1. Select(FileOrder, X) \in Seq(X \cap ToSet(FileOrder))
    BY ServiceAssumption, SelectFacts
  <2> HIDE DEF X
  <2>2. Select(FileOrder, X) \in Seq(Files)
    BY <2>1 DEF Files
  <2> QED BY <2>2 DEF X, ConfigFileNames
<1>2. Sound(T) /\ Calm(S, T)
  <2> HIDE DEF names
  <2> QED BY <1>1, AllListedFacts
<1>3. SetRootFiles(S, c, names) = V
  BY DEF SetRootFiles, Then
<1> HIDE DEF T, names
<1>4. c \in Projects /\ T.projects[c] # Nil
  BY <1>2, CalmGrows, StillThere DEF Projects
<1>5. Sound(V) /\ Calm(S, V)
  <2>1. CASE Panicked(T)
    BY <1>2, <2>1
  <2>2. CASE ~Panicked(T)
    BY <1>2, <1>4, <2>2, PruneFacts, CalmTransitive
  <2> QED BY <2>1, <2>2
<1> HIDE DEF V
<1>6. V.projects[c] # Nil
  BY <1>4, <1>5, CalmGrows, StillThere
<1>7. Sound(MarkDirty(V, c)) /\ Calm(S, MarkDirty(V, c)) /\ MarkDirty(V, c).projects[c].dirty
  BY <1>4, <1>5, <1>6, MarkDirtyFacts, CalmTransitive
<1>8. CASE config[c] = Nil
  <2>1. LoadConfig(S, c) = Panic(S, "no config file")
    BY <1>8 DEF LoadConfig
  <2>2. Panic(S, "no config file").projects = S.projects
    BY DEF Panic, Sound, States
  <2> QED BY <2>1, <2>2, PanicFacts
<1>9. CASE config[c] # Nil
  <2>1. LoadConfig(S, c) = MarkDirty(V, c)
    BY <1>3, <1>9 DEF LoadConfig, names
  <2> QED BY <1>7, <2>1
<1> QED BY <1>8, <1>9

\* ... again, when a root was removed from its project
LEMMA ReloadConfigFacts ==
  ASSUME NEW S, Sound(S), NEW p \in Projects, S.projects[p] # Nil, disk \in [Files -> Texts \cup {Nil}]
  PROVE  LET T == ReloadConfig(S, p)
         IN  Sound(T) /\ Calm(S, T) /\ (S.projects[p].dirty => T.projects[p].dirty)
<1>1. CASE ~(p \in Configs /\ S.projects[p].reloadConfig)
  BY <1>1, CalmReflexive DEF ReloadConfig
<1>2. CASE p \in Configs /\ S.projects[p].reloadConfig
  <2> DEFINE T == LoadConfig(S, p)
             q == [T.projects[p] EXCEPT !.reloadConfig = FALSE]
  <2>1. Sound(T) /\ Calm(S, T) /\ (S.projects[p].dirty => T.projects[p].dirty)
    BY <1>2, LoadConfigFacts
  <2>2. ReloadConfig(S, p) = [T EXCEPT !.projects = [T.projects EXCEPT ![p] = q]]
    BY <1>2 DEF ReloadConfig
  <2> HIDE DEF T
  <2>3. T.projects[p] # Nil
    BY <2>1, CalmGrows, StillThere
  <2>4. /\ q \in ProjectRecords /\ q.program = T.projects[p].program
        /\ q.roots = T.projects[p].roots /\ q.dirty = T.projects[p].dirty
    BY <2>1, <2>3, ProjectFacts DEF ProjectRecords
  <2> DEFINE U == ReloadConfig(S, p)
  <2> HIDE DEF q, U
  <2>5. U = [T EXCEPT !.projects = [T.projects EXCEPT ![p] = q]]
    BY <2>2 DEF U
  <2>6. Renews(T, p, q, U)
    BY <2>3, <2>4 DEF Renews
  <2>7. Sound(U) /\ Calm(T, U)
    BY <2>1, <2>3, <2>4, <2>5, <2>6, SetProjectCalmly
  <2>8. U.projects[p] = q
    BY <2>1, <2>5 DEF Sound, States
  <2> QED BY <2>1, <2>4, <2>7, <2>8, CalmTransitive DEF U
<1> QED BY <1>1, <1>2

-----------------------------------------------------------------------------
\* A function from a finite set has finitely many values.
LEMMA FiniteValues ==
  ASSUME NEW S, IsFiniteSet(S), NEW T, NEW F \in [S -> T], T = {F[x] : x \in S}
  PROVE  IsFiniteSet(T)
<1>1. F \in Surjection(S, T)
  BY DEF Surjection
<1> QED BY <1>1, FS_Surjection

\* There are finitely many files and projects.
LEMMA FiniteProjects == IsFiniteSet(Projects)
<1>1. IsFiniteSet(1..Len(FileOrder)) /\ DOMAIN FileOrder = 1..Len(FileOrder)
  BY FS_Interval, ServiceAssumption
<1>2. FileOrder \in [1..Len(FileOrder) -> Files] /\ Files = {FileOrder[i] : i \in 1..Len(FileOrder)}
  BY <1>1, ServiceAssumption DEF Files, ToSet
<1>3. IsFiniteSet(Files)
  BY <1>1, <1>2, FiniteValues
<1>4. IsFiniteSet({ConfigOf[f] : f \in Files})
  <2> DEFINE T == {ConfigOf[f] : f \in Files}
             F == [f \in Files |-> ConfigOf[f]]
  <2>1. F \in [Files -> T] /\ T = {F[x] : x \in Files}
    OBVIOUS
  <2> HIDE DEF F
  <2> QED BY <1>3, <2>1, FiniteValues
<1>5. IsFiniteSet(Configs)
  BY <1>4, FS_Difference DEF Configs
<1> QED BY <1>5, FS_AddElement DEF Projects

\* While project p is built, a document has a reference for each other program of state S that has
\* the file and one if the file is in M.
Counting(S, p, T, M) ==
  \A f \in Files : Refs(T, f) = Cardinality(ProgramsWith(S, f) \ {p}) + (IF f \in M THEN 1 ELSE 0)

\* Before p is built, M is what its program has.
LEMMA Counts ==
  ASSUME NEW S, NEW p \in Projects
  PROVE  Counted(S) <=> Counting(S, p, S, Held(S, p))
<1> SUFFICES ASSUME NEW f \in Files
             PROVE  Cardinality(ProgramsWith(S, f))
                      = Cardinality(ProgramsWith(S, f) \ {p}) + (IF f \in Held(S, p) THEN 1 ELSE 0)
  BY DEF Counted, Counting
<1> DEFINE H == ProgramsWith(S, f)
<1>1. IsFiniteSet(H) /\ (p \in H <=> f \in Held(S, p))
  <2>1. H \subseteq Projects
    BY DEF ProgramsWith
  <2> QED BY <2>1, FiniteProjects, FS_Subset DEF ProgramsWith
<1> HIDE DEF H
<1>2. CASE p \in H
  <2>1. Cardinality(H \ {p}) = Cardinality(H) - 1 /\ Cardinality(H) \in Nat
    BY <1>1, <1>2, FS_RemoveElement, FS_CardinalityType
  <2> QED BY <1>1, <1>2, <2>1 DEF H
<1>3. CASE p \notin H
  <2>1. H \ {p} = H /\ Cardinality(H) \in Nat
    BY <1>1, <1>3, FS_CardinalityType
  <2> QED BY <1>1, <1>3, <2>1 DEF H
<1> QED BY <1>2, <1>3

\* The other holders of a file are finitely many.
LEMMA OthersAreCounted ==
  ASSUME NEW S, NEW p, NEW f
  PROVE  Cardinality(ProgramsWith(S, f) \ {p}) \in Nat
<1>1. ProgramsWith(S, f) \ {p} \subseteq Projects
  BY DEF ProgramsWith
<1> QED BY <1>1, FiniteProjects, FS_Subset, FS_CardinalityType

\* The document of a file is exchanged.
LEMMA SetDoc ==
  ASSUME NEW S, Sound(S), NEW f \in Files, NEW d \in DocumentRecords \cup {Nil},
         \/ d = Nil
         \/ S.docs[f] # Nil /\ d.source = S.docs[f].source
         \/ S.infos[f] # Nil /\ d.source = [text |-> S.infos[f].text, version |-> S.infos[f].version],
         NEW T, T = [S EXCEPT !.docs = [S.docs EXCEPT ![f] = d]]
  PROVE  /\ Sound(T) /\ Keeps(S, T) /\ T.projects = S.projects /\ T.infos = S.infos
         /\ \A g \in Files : T.docs[g] = IF g = f THEN d ELSE S.docs[g]
<1>1. S \in States /\ S.docs \in [Files -> DocumentRecords \cup {Nil}]
  BY DEF Sound, States
<1>2. T \in States /\ T.infos = S.infos /\ T.openFiles = S.openFiles /\ T.projects = S.projects
      /\ T.panic = S.panic
  BY <1>1 DEF States
<1>3. \A g \in Files : T.docs[g] = IF g = f THEN d ELSE S.docs[g]
  BY <1>1 DEF States
<1>4. InferredRoots(T) = InferredRoots(S)
  BY <1>2 DEF InferredRoots
<1>5. Sound(T)
  BY <1>2, <1>4 DEF Sound
<1>6. Keeps(S, T)
  <2>1. Fresh(S) => Fresh(T)
    BY FreshDoc
  <2>2. Firm(S, T)
    BY <1>2, <1>4, FirmAlike
  <2> QED BY <1>2, <1>4, <2>1, <2>2 DEF Keeps, Grows, Panicked
<1> QED BY <1>2, <1>3, <1>5, <1>6

\* File f belongs to project p and has a document of what its info says.
Parsed(S, p, f) ==
  /\ S.infos[f] # Nil /\ p \in ToSet(S.infos[f].containing)
  /\ S.docs[f] # Nil /\ S.docs[f].source = [text |-> S.infos[f].text, version |-> S.infos[f].version]

\* AcquireDocument takes one reference, or exchanges the one of the project's old program for it; the
\* document is what the info says, also when it is one that there was.
LEMMA AcquireFacts ==
  ASSUME NEW S, Sound(S), Fresh(S), NEW f \in Files, S.infos[f] # Nil, NEW p \in Projects, S.projects[p] # Nil,
         NEW S0, NEW M, Counting(S0, p, S, M), f \in M <=> f \in Held(S, p)
  PROVE  LET T == Acquire(S, p, f)
         IN  /\ Sound(T) /\ Keeps(S, T) /\ T.projects = S.projects /\ Counting(S0, p, T, M \cup {f})
             /\ T.infos = S.infos /\ T.docs[f] # Nil
             /\ T.docs[f].source = [text |-> S.infos[f].text, version |-> S.infos[f].version]
             /\ \A g \in Files \ {f} : T.docs[g] = S.docs[g]
<1> DEFINE info == S.infos[f]
           doc == S.docs[f]
           parsed == [text |-> info.text, version |-> info.version]
           source == IF doc # Nil /\ doc.source.version = info.version THEN doc.source ELSE parsed
           others == Cardinality(ProgramsWith(S0, f) \ {p})
           d == [source |-> source, refs |-> others + 1]
<1>1. info \in InfoRecords /\ doc \in DocumentRecords \cup {Nil} /\ S.projects[p] \in ProjectRecords
  BY InfoFacts, ProjectFacts DEF Sound, States
<1>2. source \in Documents /\ source = parsed
  <2>1. parsed \in Documents
    BY <1>1 DEF InfoRecords, Documents
  <2>2. doc # Nil => doc.source \in Documents
    BY <1>1 DEF DocumentRecords
  <2>3. CASE doc # Nil /\ doc.source.version = info.version
    <3>1. doc.source.text = info.text
      BY <2>3 DEF Fresh, Versioned
    <3>2. doc.source = [text |-> doc.source.text, version |-> doc.source.version]
      BY <2>2, <2>3 DEF Documents
    <3> QED BY <2>1, <2>3, <3>1, <3>2
  <2>4. CASE ~(doc # Nil /\ doc.source.version = info.version)
    BY <2>1, <2>4
  <2> QED BY <2>3, <2>4
<1>3. others \in Nat
  BY OthersAreCounted
<1>4. Refs(S, f) = others + (IF f \in Held(S, p) THEN 1 ELSE 0)
  BY DEF Counting
<1>5. d \in DocumentRecords
  <2> HIDE DEF source, others
  <2> QED BY <1>2, <1>3 DEF DocumentRecords
<1>6. Acquire(S, p, f) = [S EXCEPT !.docs = [S.docs EXCEPT ![f] = d]]
  <2> DEFINE old == S.projects[p].program
             refs == (IF doc = Nil THEN 0 ELSE doc.refs) + 1 - (IF old # Nil /\ f \in DOMAIN old THEN 1 ELSE 0)
  <2>1. (old # Nil /\ f \in DOMAIN old) <=> f \in Held(S, p)
    BY DEF Held
  <2>2. refs = Refs(S, f) + 1 - (IF f \in Held(S, p) THEN 1 ELSE 0)
    BY <2>1 DEF Refs
  <2> HIDE DEF old, others
  <2>3. refs = others + 1 /\ refs # 0
    <3> HIDE DEF refs
    <3> QED BY <1>3, <1>4, <2>2
  <2>4. Acquire(S, p, f) = [S EXCEPT !.docs[f] = IF refs = 0 THEN Nil ELSE [source |-> source, refs |-> refs]]
    BY DEF Acquire, old
  <2> HIDE DEF refs, source
  <2> QED BY <2>3, <2>4
<1>9. d.source = [text |-> S.infos[f].text, version |-> S.infos[f].version]
  BY <1>2
<1> HIDE DEF d
<1> DEFINE T == Acquire(S, p, f)
<1> HIDE DEF T
<1>7. Sound(T) /\ Keeps(S, T) /\ T.projects = S.projects /\ T.infos = S.infos
      /\ \A g \in Files : T.docs[g] = IF g = f THEN d ELSE S.docs[g]
  <2>1. T = [S EXCEPT !.docs = [S.docs EXCEPT ![f] = d]]
    BY <1>6 DEF T
  <2>2. d \in DocumentRecords \cup {Nil}
    BY <1>5
  <2>3. Sound(T) /\ Keeps(S, T)
    BY <1>9, <2>1, <2>2, SetDoc
  <2>4. T.projects = S.projects /\ T.infos = S.infos
    BY <2>1 DEF Sound, States
  <2>5. \A g \in Files : T.docs[g] = IF g = f THEN d ELSE S.docs[g]
    BY <2>1 DEF Sound, States
  <2> QED BY <2>3, <2>4, <2>5
<1>8. Counting(S0, p, T, M \cup {f})
  <2> SUFFICES ASSUME NEW g \in Files
               PROVE  Refs(T, g) = Cardinality(ProgramsWith(S0, g) \ {p}) + (IF g \in M \cup {f} THEN 1 ELSE 0)
    BY DEF Counting
  <2>1. CASE g = f
    <3>1. d # Nil /\ d.refs = others + 1
      BY <1>5, ServiceAssumption DEF d
    <3> QED BY <1>7, <2>1, <3>1 DEF Refs
  <2>2. CASE g # f
    BY <1>7, <2>2 DEF Refs, Counting
  <2> QED BY <2>1, <2>2
<1>10. d # Nil
  BY <1>5, ServiceAssumption
<1> QED BY <1>7, <1>8, <1>9, <1>10 DEF T

\* State T is S with file f read for project p, which is being built from S0 and had M counted.
Gets(S, p, f, S0, M, T) ==
  /\ Sound(T) /\ Keeps(S, T) /\ T.projects = S.projects /\ Counting(S0, p, T, M \cup {f})
  /\ Parsed(T, p, f)
  /\ \A g \in Files \ {f} : T.infos[g] = S.infos[g] /\ T.docs[g] = S.docs[g]

\* GetSourceFile, of a file that has an info or is on the disk
LEMMA GetSourceFileFacts ==
  ASSUME NEW S, Sound(S), Fresh(S), NEW f \in Files, NEW p \in Projects, S.projects[p] # Nil, S.projects[p].dirty,
         disk \in [Files -> Texts \cup {Nil}], S.infos[f] # Nil \/ disk[f] # Nil,
         NEW S0, NEW M, Counting(S0, p, S, M), f \in M <=> f \in Held(S, p)
  PROVE  Gets(S, p, f, S0, M, GetSourceFile(S, p, f))
<1> DEFINE G == GetOrCreateInfo(S, f)
           A == Attach(G, f, p)
           T == Acquire(A, p, f)
<1>1. Sound(G) /\ Calm(S, G) /\ G.projects = S.projects /\ G.infos[f] # Nil
      /\ \A g \in Files \ {f} : G.infos[g] = S.infos[g]
  BY GetOrCreateInfoFacts
<1> HIDE DEF G
<1>2. Sound(A) /\ Calm(G, A) /\ A.projects = S.projects /\ A.infos[f] # Nil /\ p \in ToSet(A.infos[f].containing)
      /\ \A g \in Files \ {f} : A.infos[g] = G.infos[g]
  BY <1>1, AttachFacts
<1> HIDE DEF A
<1>3. Held(A, p) = Held(S, p) /\ A.docs = S.docs /\ Keeps(S, A) /\ Fresh(A)
  BY <1>1, <1>2, KeepsTransitive DEF Calm, SameDocs, Keeps, Grows
<1>4. Counting(S0, p, A, M)
  BY <1>3 DEF Counting, Refs
<1>5. /\ Sound(T) /\ Keeps(A, T) /\ T.projects = A.projects /\ Counting(S0, p, T, M \cup {f})
      /\ T.infos = A.infos /\ T.docs[f] # Nil
      /\ T.docs[f].source = [text |-> A.infos[f].text, version |-> A.infos[f].version]
      /\ \A g \in Files \ {f} : T.docs[g] = A.docs[g]
  <2>1. A.projects[p] # Nil /\ (f \in M <=> f \in Held(A, p))
    BY <1>2, <1>3
  <2> QED BY <1>2, <1>3, <1>4, <2>1, AcquireFacts, SMTT(60)
<1>6. GetSourceFile(S, p, f) = T
  BY DEF GetSourceFile, T, A, G
<1> HIDE DEF T
<1>7. Parsed(T, p, f)
  BY <1>2, <1>5 DEF Parsed
<1>8. \A g \in Files \ {f} : T.infos[g] = S.infos[g] /\ T.docs[g] = S.docs[g]
  BY <1>1, <1>2, <1>3, <1>5
<1> QED BY <1>2, <1>3, <1>5, <1>6, <1>7, <1>8, KeepsTransitive DEF Gets

-----------------------------------------------------------------------------
\* The files of a set in order: each of them once.
LEMMA SetOrderFacts ==
  ASSUME NEW fs \in SUBSET Files
  PROVE  /\ SetOrder(fs) \in Seq(fs) /\ ToSet(SetOrder(fs)) = fs
         /\ \A i, j \in 1..Len(SetOrder(fs)) : SetOrder(fs)[i] = SetOrder(fs)[j] => i = j
<1>1. fs \cap ToSet(FileOrder) = fs
  BY DEF Files
<1> DEFINE seq == SetOrder(fs)
<1>2. /\ seq \in Seq(fs) /\ ToSet(seq) = fs
      /\ \A i, j \in DOMAIN seq : seq[i] = seq[j] => i = j
  BY <1>1, ServiceAssumption, SelectFacts DEF SetOrder
<1>3. DOMAIN seq = 1..Len(seq)
  BY <1>2
<1> QED BY <1>2, <1>3

\* The files of L are parsed for project p; the infos of the others are as they were in state F.
Built(F, p, L, T) ==
  /\ \A f \in L : Parsed(T, p, f)
  /\ \A f \in Files \ L : T.infos[f] = F.infos[f]

\* One more file is parsed.
LEMMA BuiltOn ==
  ASSUME NEW F, NEW p, NEW L \in SUBSET Files, NEW S, Built(F, p, L, S), NEW f \in Files, NEW T, Parsed(T, p, f),
         \A g \in Files \ {f} : T.infos[g] = S.infos[g] /\ T.docs[g] = S.docs[g]
  PROVE  Built(F, p, L \cup {f}, T)
<1>1. \A g \in L \ {f} : Parsed(T, p, g)
  BY DEF Built, Parsed
<1>2. \A g \in Files \ (L \cup {f}) : T.infos[g] = F.infos[g]
  BY DEF Built
<1> QED BY <1>1, <1>2 DEF Built

\* GetSourceFile of several files, none of which is loaded already: a document has a reference for
\* each file that was loaded, is loaded now or was in the old program.
Getting(p, S, f) == GetSourceFile(S, p, f)

Got(c, k, T) ==
  /\ Sound(T) /\ Keeps(c.from, T) /\ T.projects = c.from.projects
  /\ Counting(c.from, c.p, T, c.M \cup First(c.seq, k))
  /\ Built(c.from, c.p, c.L \cup First(c.seq, k), T)

Gettings == INSTANCE FoldInduction WITH step <- Getting, Inv <- Got

\* State T has the files of fs loaded too, after those of L.
GetsAll(F, p, L, fs, T) ==
  /\ Sound(T) /\ Keeps(F, T) /\ T.projects = F.projects
  /\ Counting(F, p, T, (L \cup fs) \cup Held(F, p)) /\ Built(F, p, L \cup fs, T)

\* The files of fs are loaded, one after the other: each gets its reference.
LEMMA GetAllFacts ==
  ASSUME NEW F, Fresh(F), NEW p \in Projects, F.projects[p] # Nil, F.projects[p].dirty,
         NEW S, Sound(S), Keeps(F, S), S.projects = F.projects,
         NEW L \in SUBSET Files, NEW fs \in SUBSET Files, fs \cap L = {},
         disk \in [Files -> Texts \cup {Nil}], \A f \in fs : F.infos[f] # Nil \/ disk[f] # Nil,
         Counting(F, p, S, L \cup Held(F, p)), Built(F, p, L, S)
  PROVE  GetsAll(F, p, L, fs, FoldLeft(LAMBDA U, f : GetSourceFile(U, p, f), S, SetOrder(fs)))
<1> DEFINE seq == SetOrder(fs)
           M == L \cup Held(F, p)
           c == [from |-> F, p |-> p, M |-> M, L |-> L, seq |-> seq]
<1>1. /\ seq \in Seq(fs) /\ ToSet(seq) = fs
      /\ \A i, j \in 1..Len(seq) : seq[i] = seq[j] => i = j
  BY SetOrderFacts
<1> HIDE DEF seq
<1>2. First(seq, 0) = {} /\ First(seq, Len(seq)) = fs
      /\ \A k \in 0..(Len(seq) - 1) : First(seq, k + 1) = First(seq, k) \cup {seq[k + 1]}
  BY <1>1, FirstFacts
<1>3. Got(c, 0, S)
  <2>1. M \cup First(seq, 0) = M /\ L \cup First(seq, 0) = L
    BY <1>2
  <2> QED BY <2>1 DEF Got
<1>4. \A k \in 0..(Len(seq) - 1) : \A T : Got(c, k, T) => Got(c, k + 1, Getting(p, T, seq[k + 1]))
  <2> SUFFICES ASSUME NEW k \in 0..(Len(seq) - 1), NEW T, Got(c, k, T)
               PROVE  Got(c, k + 1, GetSourceFile(T, p, seq[k + 1]))
    BY DEF Getting
  <2> DEFINE f == seq[k + 1]
             U == GetSourceFile(T, p, f)
             N == M \cup First(seq, k)
  <2>1. Sound(T) /\ Keeps(F, T) /\ T.projects = F.projects /\ Counting(F, p, T, N)
        /\ Built(F, p, L \cup First(seq, k), T) /\ Fresh(T)
    BY DEF Got, Keeps, Grows
  <2>2. f \in fs /\ f \in Files /\ f \notin L /\ f \notin First(seq, k)
    <3>1. k + 1 \in 1..Len(seq) /\ \A i \in 1..k : i \in 1..Len(seq) /\ i # k + 1
      BY <1>1
    <3>2. f \in fs
      BY <1>1, <3>1
    <3>3. f \notin First(seq, k)
      BY <1>1, <3>1 DEF First
    <3> QED BY <3>2, <3>3
  <2>3. T.infos[f] # Nil \/ disk[f] # Nil
    BY <2>1, <2>2, StillThere DEF Keeps
  <2> HIDE DEF f, M
  <2>4. Held(T, p) = Held(F, p) /\ T.projects[p] # Nil /\ T.projects[p].dirty
    BY <2>1 DEF Held
  <2>5. f \in N <=> f \in Held(T, p)
    BY <2>2, <2>4 DEF M
  <2> HIDE DEF N
  <2>6. Sound(U) /\ Keeps(T, U) /\ U.projects = T.projects /\ Counting(F, p, U, N \cup {f})
        /\ Parsed(U, p, f) /\ \A g \in Files \ {f} : U.infos[g] = T.infos[g] /\ U.docs[g] = T.docs[g]
    <3>1. Gets(T, p, f, F, N, U)
      BY <2>1, <2>2, <2>3, <2>4, <2>5, GetSourceFileFacts
    <3> HIDE DEF U
    <3> QED BY <3>1 DEF Gets
  <2>7. N \cup {f} = M \cup First(seq, k + 1)
        /\ (L \cup First(seq, k)) \cup {f} = L \cup First(seq, k + 1)
    BY <1>2 DEF N, f
  <2> HIDE DEF U
  <2>8. Sound(U) /\ Keeps(F, U) /\ U.projects = F.projects /\ Counting(F, p, U, M \cup First(seq, k + 1))
    BY <2>1, <2>6, <2>7, KeepsTransitive
  <2>10. L \cup First(seq, k) \in SUBSET Files
    <3>1. \A i \in 1..k : i \in 1..Len(seq) /\ seq[i] \in fs
      BY <1>1
    <3> QED BY <3>1 DEF First
  <2>11. Built(F, p, (L \cup First(seq, k)) \cup {f}, U)
    BY <2>1, <2>2, <2>6, <2>10, BuiltOn
  <2>12. Built(F, p, L \cup First(seq, k + 1), U)
    BY <2>7, <2>11
  <2>9. Got(c, k + 1, U)
    BY <2>8, <2>12 DEF Got
  <2> QED BY <2>9 DEF U, f
<1> HIDE DEF c
<1>5. Got(c, Len(seq), Gettings!Over(p, S, seq))
  BY <1>1, <1>3, <1>4, NaturalInduction, Gettings!LoopReaches DEF Gettings!Induction
<1>6. FoldLeft(LAMBDA U, f : GetSourceFile(U, p, f), S, SetOrder(fs)) = Gettings!Over(p, S, seq)
  BY DEF seq, Getting, FoldLeft, MapThenFoldSet, Max, Gettings!Over, Gettings!IsRun, Gettings!Last
<1> DEFINE T == FoldLeft(LAMBDA U, f : GetSourceFile(U, p, f), S, SetOrder(fs))
<1> HIDE DEF T
<1>7. Got(c, Len(seq), T)
  BY <1>5, <1>6 DEF T
<1>8. Sound(T) /\ Keeps(F, T) /\ T.projects = F.projects /\ Counting(F, p, T, M \cup First(seq, Len(seq)))
      /\ Built(F, p, L \cup First(seq, Len(seq)), T)
  BY <1>7 DEF Got, c
<1>9. M \cup First(seq, Len(seq)) = (L \cup fs) \cup Held(F, p) /\ L \cup First(seq, Len(seq)) = L \cup fs
  BY <1>2
<1> QED BY <1>8, <1>9 DEF T, GetsAll

\* The rounds of the loader
Loading(p, loaded, f) == LoadImports(loaded, p)

Loaded(c, k, loaded) ==
  /\ loaded.files \in SUBSET Files /\ c.roots \subseteq loaded.files
  /\ Sound(loaded.state) /\ Keeps(c.from, loaded.state) /\ loaded.state.projects = c.from.projects
  /\ Counting(c.from, c.p, loaded.state, loaded.files \cup Held(c.from, c.p))
  /\ Built(c.from, c.p, loaded.files, loaded.state)

Loadings == INSTANCE FoldInduction WITH step <- Loading, Inv <- Loaded

\* A file that is loaded has a document, of a text that imports files.
LEMMA LoadedFacts ==
  ASSUME NEW F, NEW p, NEW S, Sound(S), NEW L \in SUBSET Files, Counting(F, p, S, L \cup Held(F, p)),
         NEW f \in L
  PROVE  /\ S.docs[f] \in DocumentRecords /\ S.docs[f].source \in Documents
         /\ Imports[S.docs[f].source.text] \in SUBSET Files
<1>1. S.docs[f] \in DocumentRecords \cup {Nil} /\ f \in Files
  BY DEF Sound, States
<1>2. Refs(S, f) # 0
  <2>1. Refs(S, f) = Cardinality(ProgramsWith(F, f) \ {p}) + 1
    BY <1>1 DEF Counting
  <2>2. Cardinality(ProgramsWith(F, f) \ {p}) \in Nat
    BY OthersAreCounted
  <2> QED BY <2>1, <2>2
<1>3. S.docs[f] \in DocumentRecords
  BY <1>1, <1>2 DEF Refs
<1>4. S.docs[f].source \in Documents
  BY <1>3 DEF DocumentRecords
<1>5. S.docs[f].source.text \in Texts \cup {Blank}
  BY <1>4 DEF Documents
<1> QED BY <1>3, <1>4, <1>5, ServiceAssumption

\* A round of the loader.
LEMMA LoadImportsFacts ==
  ASSUME NEW c, c.p \in Projects, Fresh(c.from), c.from.projects[c.p] # Nil, c.from.projects[c.p].dirty,
         disk \in [Files -> Texts \cup {Nil}],
         NEW k, NEW loaded, Loaded(c, k, loaded)
  PROVE  Loaded(c, k + 1, LoadImports(loaded, c.p))
<1> DEFINE F == c.from
           p == c.p
           S == loaded.state
           L == loaded.files
           imported == UNION {Imports[S.docs[f].source.text] : f \in L}
           new == {g \in imported \ L : disk[g] # Nil}
           T == FoldLeft(LAMBDA U, f : GetSourceFile(U, p, f), S, SetOrder(new))
<1>1. L \in SUBSET Files /\ Sound(S) /\ Keeps(F, S) /\ S.projects = F.projects
      /\ Counting(F, p, S, L \cup Held(F, p)) /\ Built(F, p, L, S) /\ c.roots \subseteq L
  BY DEF Loaded
<1>2. imported \in SUBSET Files
  <2>1. \A f \in L : Imports[S.docs[f].source.text] \in SUBSET Files
    <3> HIDE DEF S, L
    <3> QED BY <1>1, LoadedFacts
  <2> QED BY <2>1
<1>3. new \in SUBSET Files /\ new \cap L = {} /\ \A f \in new : F.infos[f] # Nil \/ disk[f] # Nil
  <2> HIDE DEF imported
  <2> QED BY <1>2
<1>4. LoadImports(loaded, p) = [state |-> T, files |-> L \cup new]
  BY DEF LoadImports
<1> HIDE DEF new
<1>5. Sound(T) /\ Keeps(F, T) /\ T.projects = F.projects /\ Counting(F, p, T, (L \cup new) \cup Held(F, p))
      /\ Built(F, p, L \cup new, T)
  <2>1. p \in Projects /\ Fresh(F) /\ F.projects[p] # Nil /\ F.projects[p].dirty
    OBVIOUS
  <2> HIDE DEF F, p, S, L
  <2>2. GetsAll(F, p, L, new, T)
    BY <1>1, <1>3, <2>1, GetAllFacts
  <2> HIDE DEF T
  <2> QED BY <2>2 DEF GetsAll
<1> HIDE DEF T
<1>6. L \cup new \in SUBSET Files /\ c.roots \subseteq L \cup new
  BY <1>1, <1>3
<1> QED BY <1>4, <1>5, <1>6 DEF Loaded

\* The program of a project is exchanged.
LEMMA SetProgram ==
  ASSUME NEW S, Sound(S), NEW p \in Projects, S.projects[p] # Nil, NEW program \in Programs,
         NEW q \in ProjectRecords, q.roots = S.projects[p].roots, q.program = program, q.dirty,
         \A f \in DOMAIN program : program[f].version <= Version(S, f),
         NEW T, T = [S EXCEPT !.projects = [S.projects EXCEPT ![p] = q]]
  PROVE  /\ Sound(T) /\ Keeps(S, T) /\ T.docs = S.docs /\ T.infos = S.infos
         /\ Held(T, p) = DOMAIN program /\ \A r \in Projects \ {p} : Held(T, r) = Held(S, r)
<1>1. S \in States /\ S.projects \in [Projects -> ProjectRecords \cup {Nil}]
  BY DEF Sound, States
<1>2. T \in States /\ T.infos = S.infos /\ T.openFiles = S.openFiles /\ T.docs = S.docs /\ T.panic = S.panic
  BY <1>1 DEF States
<1>3. T.projects = [S.projects EXCEPT ![p] = q]
  BY <1>1 DEF States
<1>4. q # Nil /\ program # Nil
  BY ServiceAssumption DEF Programs
<1>5. \A r \in Projects : S.projects[r] # Nil => T.projects[r] # Nil
  BY <1>1, <1>3, <1>4
<1>6. Held(T, p) = DOMAIN program /\ \A r \in Projects \ {p} : Held(T, r) = Held(S, r)
  BY <1>1, <1>3, <1>4 DEF Held
<1>7. InferredRoots(T) = InferredRoots(S)
  BY <1>1, <1>3, <1>4 DEF InferredRoots, Projects
<1>8. Sound(T)
  <2>1. \A f \in Files : S.infos[f] # Nil => \A r \in ToSet(S.infos[f].containing) : r \in Projects
    BY InfoFacts
  <2> QED BY <1>2, <1>5, <1>7, <2>1 DEF Sound
<1>9. Keeps(S, T)
  <2>1. Fresh(S) => Fresh(T)
    BY <1>4, FreshProgram
  <2>2. Firm(S, T)
    BY <1>2, <1>7, FirmAlike
  <2> QED BY <1>2, <1>5, <1>7, <2>1, <2>2 DEF Keeps, Grows, Panicked
<1> QED BY <1>1, <1>2, <1>3, <1>4, <1>6, <1>8, <1>9

\* A program is built and is the project's: each document still has, besides the references of the
\* other programs, one if the file is in the new program or in the old one.
LEMMA EndBuildFacts ==
  ASSUME NEW F, NEW p \in Projects, F.projects[p] # Nil, F.projects[p].dirty, NEW loaded, NEW k, NEW roots,
         \A f \in ToSet(F.projects[p].roots) : F.infos[f] # Nil => f \in roots,
         Loaded([from |-> F, p |-> p, roots |-> roots], k, loaded)
  PROVE  LET T == EndBuild(loaded, p)
         IN  /\ Sound(T) /\ Keeps(F, T) /\ \A r \in Projects \ {p} : Held(T, r) = Held(F, r)
             /\ Counting(F, p, T, Held(T, p) \cup Held(F, p))
             /\ T.projects[p] # Nil /\ T.projects[p].program # Nil /\ UpToDate(T, p)
<1> DEFINE S == loaded.state
           L == loaded.files
           program == [f \in L |-> S.docs[f].source]
           q == [S.projects[p] EXCEPT !.program = program]
           T == EndBuild(loaded, p)
<1>1. L \in SUBSET Files /\ Sound(S) /\ Keeps(F, S) /\ S.projects = F.projects
      /\ Counting(F, p, S, L \cup Held(F, p)) /\ Built(F, p, L, S) /\ roots \subseteq L
  BY DEF Loaded
<1>2. T = [S EXCEPT !.projects = [S.projects EXCEPT ![p] = q]]
  BY DEF EndBuild
<1> HIDE DEF T, S, L
<1>3. /\ program \in Programs /\ DOMAIN program = L
      /\ \A f \in L : program[f] = [text |-> S.infos[f].text, version |-> S.infos[f].version]
  <2>1. \A f \in L : S.docs[f].source \in Documents
    BY <1>1, LoadedFacts
  <2>2. program \in [L -> Documents]
    BY <2>1
  <2>3. \A f \in L : program[f] = [text |-> S.infos[f].text, version |-> S.infos[f].version]
    BY <1>1 DEF Built, Parsed
  <2> QED BY <1>1, <2>2, <2>3 DEF Programs
<1> HIDE DEF program
<1>4. q \in ProjectRecords /\ q.roots = S.projects[p].roots /\ q.program = program /\ q.dirty
  <2>1. S.projects[p] \in ProjectRecords /\ S.projects[p].dirty
    BY <1>1, ProjectFacts
  <2> QED BY <1>3, <2>1 DEF ProjectRecords
<1> HIDE DEF q
<1>5. S.projects[p] # Nil
  BY <1>1
<1>10. \A f \in DOMAIN program : program[f].version <= Version(S, f)
  <2> SUFFICES ASSUME NEW f \in L PROVE program[f].version <= Version(S, f)
    BY <1>3
  <2>1. f \in Files /\ S.infos[f] # Nil /\ program[f].version = S.infos[f].version
    BY <1>1, <1>3 DEF Built, Parsed
  <2>2. Version(S, f) = S.infos[f].version /\ Version(S, f) \in Int
    BY <1>1, <2>1, VersionTypes DEF Version
  <2> QED BY <2>1, <2>2
<1>6. /\ Sound(T) /\ Keeps(S, T) /\ T.docs = S.docs /\ T.infos = S.infos
      /\ Held(T, p) = L /\ \A r \in Projects \ {p} : Held(T, r) = Held(S, r)
  BY <1>1, <1>2, <1>3, <1>4, <1>5, <1>10, SetProgram
<1>9. T.projects[p] # Nil /\ T.projects[p].program # Nil /\ T.projects[p] = q
  <2>1. T.projects[p] = q
    BY <1>1, <1>2, <1>5 DEF Sound, States
  <2>2. q # Nil /\ program # Nil
    BY <1>3, <1>4, ServiceAssumption DEF Programs
  <2> QED BY <1>4, <2>1, <2>2
<1>7. \A r \in Projects : Held(S, r) = Held(F, r)
  BY <1>1 DEF Held
<1>8. Counting(F, p, T, Held(T, p) \cup Held(F, p))
  BY <1>1, <1>6 DEF Counting, Refs
<1>11. UpToDate(T, p)
  <2>1. ASSUME NEW f \in ToSet(T.projects[p].roots), T.infos[f] # Nil PROVE f \in Held(T, p)
    <3>1. f \in ToSet(F.projects[p].roots) /\ f \in Files
      BY <1>1, <1>4, <1>5, <1>9, <2>1, ProjectFacts
    <3>2. CASE F.infos[f] # Nil
      BY <1>1, <1>6, <3>1, <3>2
    <3>3. CASE F.infos[f] = Nil
      BY <1>1, <1>6, <2>1, <3>1, <3>3 DEF Built
    <3> QED BY <3>2, <3>3
  <2>2. ASSUME NEW f \in Held(T, p)
        PROVE  /\ T.infos[f] # Nil /\ p \in ToSet(T.infos[f].containing)
               /\ T.projects[p].program[f] = [text |-> T.infos[f].text, version |-> T.infos[f].version]
    <3>1. f \in L /\ T.infos = S.infos /\ T.projects[p].program = program
      BY <1>4, <1>6, <1>9, <2>2
    <3> QED BY <1>1, <1>3, <3>1 DEF Built, Parsed
  <2> QED BY <2>1, <2>2 DEF UpToDate
<1> QED BY <1>1, <1>6, <1>7, <1>8, <1>9, <1>11, KeepsTransitive DEF T

\* updateProgram: the roots, then the rounds, then the program is there.
LEMMA UpdateProgramFacts ==
  ASSUME NEW S, Sound(S), Fresh(S), NEW p \in Projects, S.projects[p] # Nil, S.projects[p].dirty,
         Counting(S, p, S, Held(S, p)), disk \in [Files -> Texts \cup {Nil}]
  PROVE  LET T == UpdateProgram(S, p)
         IN  /\ Sound(T) /\ Keeps(S, T) /\ \A r \in Projects \ {p} : Held(T, r) = Held(S, r)
             /\ Counting(S, p, T, Held(T, p) \cup Held(S, p))
             /\ T.projects[p] # Nil /\ T.projects[p].program # Nil /\ UpToDate(T, p)
<1> DEFINE roots == {f \in ToSet(S.projects[p].roots) : S.infos[f] # Nil}
           U == FoldLeft(LAMBDA T, f : GetSourceFile(T, p, f), S, SetOrder(roots))
           start == [state |-> U, files |-> roots]
           loaded == FoldLeft(LAMBDA l, f : LoadImports(l, p), start, FileOrder)
           c == [from |-> S, p |-> p, roots |-> roots]
<1>1. roots \in SUBSET Files /\ \A f \in roots : S.infos[f] # Nil
  BY ProjectFacts
<1>10. \A f \in ToSet(S.projects[p].roots) : S.infos[f] # Nil => f \in roots
  OBVIOUS
<1>2. UpdateProgram(S, p) = EndBuild(loaded, p)
  BY DEF UpdateProgram
<1> HIDE DEF roots
<1>3. Sound(U) /\ Keeps(S, U) /\ U.projects = S.projects /\ Counting(S, p, U, roots \cup Held(S, p))
      /\ Built(S, p, roots, U)
  <2> DEFINE none == {}
  <2>1. none \in SUBSET Files /\ roots \cap none = {} /\ none \cup Held(S, p) = Held(S, p) /\ none \cup roots = roots
    OBVIOUS
  <2>2. Keeps(S, S)
    BY CalmReflexive DEF Calm
  <2>5. Built(S, p, none, S)
    BY DEF Built
  <2> HIDE DEF none
  <2>3. Counting(S, p, S, none \cup Held(S, p))
    BY <2>1
  <2>4. Sound(U) /\ Keeps(S, U) /\ U.projects = S.projects /\ Counting(S, p, U, (none \cup roots) \cup Held(S, p))
        /\ Built(S, p, none \cup roots, U)
    <3>1. \A f \in roots : S.infos[f] # Nil \/ disk[f] # Nil
      BY <1>1
    <3>2. GetsAll(S, p, none, roots, U)
      BY <1>1, <2>1, <2>2, <2>3, <2>5, <3>1, GetAllFacts
    <3> HIDE DEF U
    <3> QED BY <3>2 DEF GetsAll
  <2> QED BY <2>1, <2>4
<1> HIDE DEF U
<1>4. Loaded(c, 0, start)
  BY <1>1, <1>3 DEF Loaded
<1> HIDE DEF start
<1>5. \A k \in Nat : \A l : \A f \in Files : Loaded(c, k, l) => Loaded(c, k + 1, Loading(p, l, f))
  <2> SUFFICES ASSUME NEW k \in Nat, NEW l, Loaded(c, k, l) PROVE Loaded(c, k + 1, LoadImports(l, p))
    BY DEF Loading
  <2>1. c.p = p /\ c.from = S
    OBVIOUS
  <2> HIDE DEF c
  <2> QED BY <2>1, LoadImportsFacts
<1>6. Loaded(c, Len(FileOrder), Loadings!Over(p, start, FileOrder))
  <2>1. FileOrder \in Seq(Files)
    BY ServiceAssumption
  <2> HIDE DEF c
  <2> QED BY <1>4, <1>5, <2>1, NaturalInduction, Loadings!LoopKeeps DEF Loadings!Induction
<1>7. loaded = Loadings!Over(p, start, FileOrder)
  BY DEF Loading, FoldLeft, MapThenFoldSet, Max, Loadings!Over, Loadings!IsRun, Loadings!Last
<1> HIDE DEF loaded
<1>8. Loaded([from |-> S, p |-> p, roots |-> roots], Len(FileOrder), loaded)
  BY <1>6, <1>7
<1> HIDE DEF c
<1> DEFINE T == EndBuild(loaded, p)
<1>9. /\ Sound(T) /\ Keeps(S, T) /\ \A r \in Projects \ {p} : Held(T, r) = Held(S, r)
      /\ Counting(S, p, T, Held(T, p) \cup Held(S, p))
      /\ T.projects[p] # Nil /\ T.projects[p].program # Nil /\ UpToDate(T, p)
  BY <1>8, <1>10, EndBuildFacts, Zenon
<1> QED BY <1>2, <1>9

-----------------------------------------------------------------------------
\* A document that has references loses one.
LEMMA ReleaseFacts ==
  ASSUME NEW S, Sound(S), NEW f \in Files, NEW F, NEW p, NEW M, Counting(F, p, S, M), f \in M
  PROVE  LET T == Release(S, f)
         IN  Sound(T) /\ Keeps(S, T) /\ T.projects = S.projects /\ Counting(F, p, T, M \ {f})
<1> DEFINE others == Cardinality(ProgramsWith(F, f) \ {p})
           d == IF S.docs[f].refs = 1 THEN Nil ELSE [S.docs[f] EXCEPT !.refs = @ - 1]
           T == Release(S, f)
<1>1. S.docs[f] \in DocumentRecords \cup {Nil} /\ S \in States
  BY DEF Sound, States
<1>2. Refs(S, f) = others + 1 /\ others \in Nat
  BY OthersAreCounted DEF Counting
<1> HIDE DEF others
<1>3. S.docs[f] # Nil /\ S.docs[f].refs = others + 1 /\ S.docs[f] \in DocumentRecords
  BY <1>1, <1>2 DEF Refs
<1>4. d \in DocumentRecords \cup {Nil}
  BY <1>2, <1>3 DEF DocumentRecords
<1>5. (IF d = Nil THEN 0 ELSE d.refs) = others
  <2>1. CASE S.docs[f].refs = 1
    BY <1>2, <1>3, <2>1
  <2>2. CASE S.docs[f].refs # 1
    <3>1. d \in DocumentRecords /\ d.refs = others
      BY <1>2, <1>3, <2>2 DEF DocumentRecords
    <3> QED BY <3>1, ServiceAssumption
  <2> QED BY <2>1, <2>2
<1>6. T = [S EXCEPT !.docs = [S.docs EXCEPT ![f] = d]]
  BY <1>1, <1>3 DEF Release, States
<1>10. d = Nil \/ d.source = S.docs[f].source
  BY <1>3 DEF DocumentRecords
<1> HIDE DEF T, d
<1>7. Sound(T) /\ Keeps(S, T)
  BY <1>3, <1>4, <1>6, <1>10, SetDoc
<1>8. T.projects = S.projects /\ \A g \in Files : T.docs[g] = IF g = f THEN d ELSE S.docs[g]
  BY <1>1, <1>6 DEF States
<1>9. Counting(F, p, T, M \ {f})
  <2> SUFFICES ASSUME NEW g \in Files
               PROVE  Refs(T, g) = Cardinality(ProgramsWith(F, g) \ {p}) + (IF g \in M \ {f} THEN 1 ELSE 0)
    BY DEF Counting
  <2>1. CASE g = f
    BY <1>2, <1>5, <1>8, <2>1 DEF Refs, others
  <2>2. CASE g # f
    BY <1>8, <2>2 DEF Refs, Counting
  <2> QED BY <2>1, <2>2
<1> QED BY <1>7, <1>8, <1>9 DEF T

\* The files that were in the old program only are released.
Releasing(c, S, f) == Release(S, f)

Released(c, k, T) ==
  /\ Sound(T) /\ Keeps(c.from, T) /\ T.projects = c.from.projects
  /\ Counting(c.before, c.p, T, c.M \ First(c.seq, k))

Releases == INSTANCE FoldInduction WITH step <- Releasing, Inv <- Released

\* The documents of a set of files are released.
LEMMA ReleaseAllFacts ==
  ASSUME NEW F, NEW p, NEW S, Sound(S), NEW M, Counting(F, p, S, M), NEW fs \in SUBSET (Files \cap M)
  PROVE  LET T == FoldLeft(Release, S, SetOrder(fs))
         IN  Sound(T) /\ Keeps(S, T) /\ T.projects = S.projects /\ Counting(F, p, T, M \ fs)
<1> DEFINE seq == SetOrder(fs)
           c == [from |-> S, before |-> F, p |-> p, M |-> M, seq |-> seq]
<1>1. /\ seq \in Seq(fs) /\ ToSet(seq) = fs
      /\ \A i, j \in 1..Len(seq) : seq[i] = seq[j] => i = j
  BY SetOrderFacts
<1> HIDE DEF seq
<1>2. First(seq, 0) = {} /\ First(seq, Len(seq)) = fs
      /\ \A k \in 0..(Len(seq) - 1) : First(seq, k + 1) = First(seq, k) \cup {seq[k + 1]}
  BY <1>1, FirstFacts
<1>3. Released(c, 0, S)
  <2>1. M \ First(seq, 0) = M
    BY <1>2
  <2>2. Keeps(S, S)
    BY CalmReflexive DEF Calm
  <2> QED BY <2>1, <2>2 DEF Released
<1>4. \A k \in 0..(Len(seq) - 1) : \A T : Released(c, k, T) => Released(c, k + 1, Releasing(0, T, seq[k + 1]))
  <2> SUFFICES ASSUME NEW k \in 0..(Len(seq) - 1), NEW T, Released(c, k, T)
               PROVE  Released(c, k + 1, Release(T, seq[k + 1]))
    BY DEF Releasing
  <2> DEFINE f == seq[k + 1]
             U == Release(T, f)
             N == M \ First(seq, k)
  <2>1. Sound(T) /\ Keeps(S, T) /\ T.projects = S.projects /\ Counting(F, p, T, N)
    BY DEF Released
  <2>2. f \in Files /\ f \in N
    <3>1. k + 1 \in 1..Len(seq) /\ \A i \in 1..k : i \in 1..Len(seq) /\ i # k + 1
      BY <1>1
    <3>2. f \in fs
      BY <1>1, <3>1
    <3>3. f \notin First(seq, k)
      BY <1>1, <3>1 DEF First
    <3> QED BY <3>2, <3>3
  <2> HIDE DEF f, N
  <2>3. Sound(U) /\ Keeps(T, U) /\ U.projects = T.projects /\ Counting(F, p, U, N \ {f})
    BY <2>1, <2>2, ReleaseFacts
  <2>4. N \ {f} = M \ First(seq, k + 1)
    BY <1>2 DEF N, f
  <2> HIDE DEF U
  <2>5. Sound(U) /\ Keeps(S, U) /\ U.projects = S.projects /\ Counting(F, p, U, M \ First(seq, k + 1))
    BY <2>1, <2>3, <2>4, KeepsTransitive
  <2>6. Released(c, k + 1, U)
    BY <2>5 DEF Released
  <2> QED BY <2>6 DEF U, f
<1> HIDE DEF c
<1>5. Released(c, Len(seq), Releases!Over(0, S, seq))
  BY <1>1, <1>3, <1>4, NaturalInduction, Releases!LoopReaches DEF Releases!Induction
<1>6. FoldLeft(Release, S, SetOrder(fs)) = Releases!Over(0, S, seq)
  BY DEF seq, Releasing, FoldLeft, MapThenFoldSet, Max, Releases!Over, Releases!IsRun, Releases!Last
<1> DEFINE T == FoldLeft(Release, S, SetOrder(fs))
<1> HIDE DEF T
<1>7. Released(c, Len(seq), T)
  BY <1>5, <1>6 DEF T
<1>8. Sound(T) /\ Keeps(S, T) /\ T.projects = S.projects /\ Counting(F, p, T, M \ First(seq, Len(seq)))
  BY <1>7 DEF Released, c
<1> QED BY <1>2, <1>8 DEF T

-----------------------------------------------------------------------------
\* What the service is in between the steps of a handler, once nothing is being built.
Good(S) == Sound(S) /\ Counted(S) /\ Fresh(S)

\* A step that changes no program and no document.
LEMMA FreshGood == ASSUME NEW S, Good(S), NEW T, Sound(T), SameDocs(S, T), Fresh(T) PROVE Good(T)
BY CalmCounted DEF Good

\* ... and keeps what is fresh
LEMMA CalmGood == ASSUME NEW S, Good(S), NEW T, Sound(T), SameDocs(S, T), Grows(S, T) PROVE Good(T)
BY FreshGood DEF Good, Grows

\* A program has files.
LEMMA HeldFacts ==
  ASSUME NEW S, Sound(S), NEW p \in Projects
  PROVE  Held(S, p) \in SUBSET Files
<1>1. CASE S.projects[p] # Nil /\ S.projects[p].program # Nil
  <2>1. S.projects[p].program \in Programs
    BY <1>1, ProjectFacts DEF ProjectRecords
  <2>2. DOMAIN S.projects[p].program \in SUBSET Files
    BY <2>1 DEF Programs
  <2> QED BY <1>1, <2>2 DEF Held
<1>2. CASE ~(S.projects[p] # Nil /\ S.projects[p].program # Nil)
  BY <1>2 DEF Held
<1> QED BY <1>1, <1>2

\* A dirty project is brought up to date: its program is what the infos say, and a document has a
\* reference for each program again.
LEMMA UpdateGraphFacts ==
  ASSUME NEW S, Good(S), NEW p \in Projects, S.projects[p] # Nil, S.projects[p].dirty, disk \in [Files -> Texts \cup {Nil}]
  PROVE  Good(UpdateGraph(S, p)) /\ Keeps(S, UpdateGraph(S, p))
<1> DEFINE T == ReloadConfig(S, p)
           B == UpdateProgram(T, p)
           q == [B.projects[p] EXCEPT !.dirty = FALSE]
           U == [B EXCEPT !.projects[p].dirty = FALSE]
           old == T.projects[p].program
           V == ReleaseDropped(U, p, old)
<1>1. Sound(T) /\ Calm(S, T) /\ Good(T) /\ T.projects[p] # Nil /\ T.projects[p].dirty /\ Keeps(S, T)
  <2>1. Sound(T) /\ Calm(S, T) /\ T.projects[p].dirty
    BY ReloadConfigFacts DEF Good
  <2> HIDE DEF T
  <2> QED BY <2>1, CalmGrows, CalmGood, StillThere DEF Calm
<1>2. UpdateGraph(S, p) = IF Panicked(T) THEN T ELSE V
  BY DEF UpdateGraph, Then
<1> HIDE DEF T
<1>3. /\ Sound(B) /\ Keeps(T, B) /\ \A r \in Projects \ {p} : Held(B, r) = Held(T, r)
      /\ Counting(T, p, B, Held(B, p) \cup Held(T, p))
      /\ B.projects[p] # Nil /\ B.projects[p].program # Nil /\ UpToDate(B, p)
  <2>1. Counting(T, p, T, Held(T, p))
    BY <1>1, Counts DEF Good
  <2> QED BY <1>1, <2>1, UpdateProgramFacts DEF Good
<1> HIDE DEF B
<1>4. q \in ProjectRecords /\ q.program = B.projects[p].program /\ q.roots = B.projects[p].roots
  <2>1. B.projects[p] \in ProjectRecords
    BY <1>3, ProjectFacts
  <2> QED BY <2>1 DEF ProjectRecords
<1>5. U = [B EXCEPT !.projects = [B.projects EXCEPT ![p] = q]]
  OBVIOUS
<1> HIDE DEF q, U
<1>7. U.projects[p] = q /\ U.infos = B.infos
  BY <1>3, <1>5 DEF Sound, States
<1>14. Renews(B, p, q, U)
  <2>1. q # Nil
    BY <1>4, ServiceAssumption
  <2>2. Held(U, p) = Held(B, p)
    BY <1>3, <1>4, <1>7, <2>1 DEF Held
  <2>3. UpToDate(U, p)
    BY <1>3, <1>4, <1>7, <2>2 DEF UpToDate
  <2> QED BY <2>3 DEF Renews, Current
<1>6. Sound(U) /\ Calm(B, U)
  BY <1>3, <1>4, <1>5, <1>14, SetProjectCalmly
<1>8. Keeps(T, U) /\ \A r \in Projects : Held(U, r) = Held(B, r)
  BY <1>3, <1>6, KeepsTransitive DEF Calm, SameDocs
<1>9. Counting(T, p, U, Held(U, p) \cup Held(T, p))
  BY <1>3, <1>6, <1>8 DEF Counting, Calm, SameDocs, Refs
<1> DEFINE fs == Held(T, p) \ Held(U, p)
           M == Held(U, p) \cup Held(T, p)
<1>10. V = FoldLeft(Release, U, SetOrder(fs))
  <2>1. Held(U, p) = DOMAIN U.projects[p].program
    BY <1>3, <1>4, <1>7, <1>8 DEF Held
  <2>2. (IF old = Nil THEN {} ELSE DOMAIN old \ DOMAIN U.projects[p].program) = fs
    BY <1>1, <2>1 DEF Held
  <2> HIDE DEF fs
  <2> QED BY <2>2 DEF ReleaseDropped
<1>11. fs \in SUBSET (Files \cap M) /\ M \ fs = Held(U, p)
  <2>1. Held(T, p) \in SUBSET Files
    BY <1>1, HeldFacts
  <2> QED BY <2>1
<1> HIDE DEF fs, M, V
<1>12. Sound(V) /\ Keeps(U, V) /\ V.projects = U.projects /\ Counting(T, p, V, Held(U, p))
  <2>1. Counting(T, p, U, M)
    BY <1>9 DEF M
  <2> DEFINE W == FoldLeft(Release, U, SetOrder(fs))
  <2>2. Sound(W) /\ Keeps(U, W) /\ W.projects = U.projects /\ Counting(T, p, W, M \ fs)
    BY <1>6, <1>11, <2>1, ReleaseAllFacts, Zenon
  <2> HIDE DEF W
  <2> QED BY <1>10, <1>11, <2>2 DEF W
<1>13. Counted(V)
  <2>1. \A r \in Projects : Held(V, r) = Held(U, r)
    BY <1>12 DEF Held
  <2>2. \A r \in Projects \ {p} : Held(V, r) = Held(T, r)
    BY <1>3, <1>8, <2>1
  <2>3. ASSUME NEW f \in Files PROVE ProgramsWith(V, f) \ {p} = ProgramsWith(T, f) \ {p}
    BY <2>2 DEF ProgramsWith
  <2>4. Counting(V, p, V, Held(V, p))
    BY <1>12, <2>1, <2>3 DEF Counting
  <2> QED BY <2>4, Counts
<1>15. Keeps(S, V)
  BY <1>1, <1>8, <1>12, KeepsTransitive
<1>16. Fresh(V)
  BY <1>15 DEF Good, Keeps, Grows
<1> QED BY <1>1, <1>2, <1>12, <1>13, <1>15, <1>16 DEF Good

\* updateIfDirty
LEMMA UpdateIfDirtyFacts ==
  ASSUME NEW S, Good(S), NEW p \in Projects, S.projects[p] # Nil, disk \in [Files -> Texts \cup {Nil}]
  PROVE  Good(UpdateIfDirty(S, p)) /\ Keeps(S, UpdateIfDirty(S, p))
<1>1. Keeps(S, S)
  BY CalmReflexive DEF Calm
<1> QED BY <1>1, UpdateGraphFacts DEF UpdateIfDirty

\* ... after the project was marked
LEMMA UpdateChangedFacts ==
  ASSUME NEW S, Good(S), NEW p \in Projects, S.projects[p] # Nil, disk \in [Files -> Texts \cup {Nil}]
  PROVE  Good(UpdateChanged(S, p)) /\ Keeps(S, UpdateChanged(S, p))
<1> DEFINE T == MarkDirty(S, p)
<1>1. Sound(T) /\ Calm(S, T)
  BY MarkDirtyFacts DEF Good
<1>2. UpdateChanged(S, p) = UpdateIfDirty(T, p)
  BY DEF UpdateChanged
<1> HIDE DEF T
<1>3. Good(T) /\ T.projects[p] # Nil /\ Keeps(S, T)
  BY <1>1, CalmGrows, CalmGood, StillThere DEF Calm
<1> QED BY <1>2, <1>3, UpdateIfDirtyFacts, KeepsTransitive

-----------------------------------------------------------------------------
\* What the loops over projects keep, of the state S they begin in, when they give no file to the
\* inferred project, and when they do
Stays(S, k, T) == Good(T) /\ Keeps(S, T) /\ (k = 0 => T = S)
Widens(S, k, T) == Good(T) /\ Grows(S, T)

\* A project that the loop over the containing projects comes to exists.
LEMMA VisitFacts ==
  ASSUME NEW S, Good(S), NEW f \in Files, S.infos[f] # Nil, NEW i \in Nat \ {0}, i <= Len(S.infos[f].containing)
  PROVE  S.infos[f].containing[i] \in Projects /\ S.projects[S.infos[f].containing[i]] # Nil
<1> DEFINE seq == S.infos[f].containing
<1>1. seq \in Seq(Projects) /\ \A p \in ToSet(seq) : S.projects[p] # Nil
  BY InfoFacts DEF Good
<1> HIDE DEF seq
<1>2. i \in DOMAIN seq
  BY <1>1 DEF seq
<1>3. seq[i] \in Projects /\ seq[i] \in ToSet(seq)
  BY <1>1, <1>2 DEF ToSet
<1> QED BY <1>1, <1>3 DEF seq

\* A nil in the place that a detached project left.
LEMMA HoleFacts ==
  ASSUME NEW S, Good(S)
  PROVE  Good(Panic(S, "nil pointer")) /\ Keeps(S, Panic(S, "nil pointer"))
<1>1. Sound(Panic(S, "nil pointer")) /\ Calm(S, Panic(S, "nil pointer"))
  BY PanicFacts DEF Good
<1> QED BY <1>1, CalmGood, CalmGrows DEF Calm

\* Keeps says more than Grows.
LEMMA KeepsGrows == ASSUME NEW S, NEW T, Keeps(S, T) PROVE Grows(S, T)
BY DEF Keeps

\* Nothing done keeps everything.
LEMMA KeepsReflexive == ASSUME NEW S PROVE Keeps(S, S) /\ Grows(S, S)
BY CalmReflexive DEF Calm, Keeps

\* The projects that contain a file are brought up to date.
Updating(f, S, i) == Visit(S, f, i, UpdateIfDirty)
Updates == INSTANCE FoldInduction WITH step <- Updating, Inv <- Stays

\* Each project that contains the file is updated if it is dirty.
LEMMA EachUpdateFacts ==
  ASSUME NEW S, Good(S), NEW f \in Files, S.infos[f] # Nil, disk \in [Files -> Texts \cup {Nil}]
  PROVE  LET T == EachContaining(S, f, UpdateIfDirty) IN Good(T) /\ Keeps(S, T)
<1> DEFINE places == Places(S.infos[f].containing)
<1>1. places \in Seq(Nat \ {0})
  BY InfoFacts, PlacesFacts DEF Good
<1>2. \A k \in Nat : \A T : \A i \in Nat \ {0} : Stays(S, k, T) => Stays(S, k + 1, Updating(f, T, i))
  <2> SUFFICES ASSUME NEW k \in Nat, NEW T, NEW i \in Nat \ {0}, Good(T), Keeps(S, T)
               PROVE  Good(Updating(f, T, i)) /\ Keeps(S, Updating(f, T, i))
    BY DEF Stays
  <2>1. T.infos[f] # Nil
    BY KeepsGrows, StillThere
  <2>2. CASE Panicked(T)
    BY <2>2 DEF Updating, Visit
  <2>3. CASE ~Panicked(T) /\ i > Len(T.infos[f].containing)
    <3>1. Updating(f, T, i) = Panic(T, "nil pointer")
      BY <2>3 DEF Updating, Visit
    <3> QED BY <3>1, HoleFacts, KeepsTransitive
  <2>4. CASE ~Panicked(T) /\ ~(i > Len(T.infos[f].containing))
    <3> DEFINE p == T.infos[f].containing[i]
    <3>1. Updating(f, T, i) = UpdateIfDirty(T, p)
      BY <2>4 DEF Updating, Visit
    <3>2. i <= Len(T.infos[f].containing)
      <4>1. T.infos[f].containing \in Seq(Projects)
        BY <2>1, InfoFacts DEF Good
      <4> QED BY <2>4, <4>1
    <3>3. p \in Projects /\ T.projects[p] # Nil
      BY <2>1, <3>2, VisitFacts
    <3> HIDE DEF p
    <3> QED BY <3>1, <3>3, UpdateIfDirtyFacts, KeepsTransitive
  <2> QED BY <2>2, <2>3, <2>4
<1> HIDE DEF places
<1>3. Stays(S, Len(places), Updates!Over(f, S, places))
  <2>1. Stays(S, 0, S)
    BY KeepsReflexive DEF Stays
  <2> QED BY <1>1, <1>2, <2>1, NaturalInduction, Updates!LoopKeeps DEF Updates!Induction
<1>4. EachContaining(S, f, UpdateIfDirty) = Updates!Over(f, S, places)
  BY DEF EachContaining, places, Updating, Visit, FoldLeft, MapThenFoldSet, Max, Updates!Over, Updates!IsRun, Updates!Last
<1> QED BY <1>3, <1>4 DEF Stays

\* ... also when each is marked first, as the file is gone
Changing(f, S, i) == Visit(S, f, i, UpdateChanged)
Changes == INSTANCE FoldInduction WITH step <- Changing, Inv <- Stays

\* ... or marked and updated, when the file is deleted
LEMMA EachChangeFacts ==
  ASSUME NEW S, Good(S), NEW f \in Files, S.infos[f] # Nil, disk \in [Files -> Texts \cup {Nil}]
  PROVE  LET T == EachContaining(S, f, UpdateChanged)
         IN  Good(T) /\ Keeps(S, T) /\ (S.infos[f].containing = <<>> => T = S)
<1> DEFINE places == Places(S.infos[f].containing)
<1>1. places \in Seq(Nat \ {0})
  BY InfoFacts, PlacesFacts DEF Good
<1>2. \A k \in Nat : \A T : \A i \in Nat \ {0} : Stays(S, k, T) => Stays(S, k + 1, Changing(f, T, i))
  <2> SUFFICES ASSUME NEW k \in Nat, NEW T, NEW i \in Nat \ {0}, Good(T), Keeps(S, T)
               PROVE  Good(Changing(f, T, i)) /\ Keeps(S, Changing(f, T, i))
    BY DEF Stays
  <2>1. T.infos[f] # Nil
    BY KeepsGrows, StillThere
  <2>2. CASE Panicked(T)
    BY <2>2 DEF Changing, Visit
  <2>3. CASE ~Panicked(T) /\ i > Len(T.infos[f].containing)
    <3>1. Changing(f, T, i) = Panic(T, "nil pointer")
      BY <2>3 DEF Changing, Visit
    <3> QED BY <3>1, HoleFacts, KeepsTransitive
  <2>4. CASE ~Panicked(T) /\ ~(i > Len(T.infos[f].containing))
    <3> DEFINE p == T.infos[f].containing[i]
    <3>1. Changing(f, T, i) = UpdateChanged(T, p)
      BY <2>4 DEF Changing, Visit
    <3>2. i <= Len(T.infos[f].containing)
      <4>1. T.infos[f].containing \in Seq(Projects)
        BY <2>1, InfoFacts DEF Good
      <4> QED BY <2>4, <4>1
    <3>3. p \in Projects /\ T.projects[p] # Nil
      BY <2>1, <3>2, VisitFacts
    <3> HIDE DEF p
    <3> QED BY <3>1, <3>3, UpdateChangedFacts, KeepsTransitive
  <2> QED BY <2>2, <2>3, <2>4
<1> HIDE DEF places
<1>3. Stays(S, Len(places), Changes!Over(f, S, places))
  <2>1. Stays(S, 0, S)
    BY KeepsReflexive DEF Stays
  <2> QED BY <1>1, <1>2, <2>1, NaturalInduction, Changes!LoopKeeps DEF Changes!Induction
<1>4. EachContaining(S, f, UpdateChanged) = Changes!Over(f, S, places)
  BY DEF EachContaining, places, Changing, Visit, FoldLeft, MapThenFoldSet, Max, Changes!Over, Changes!IsRun, Changes!Last
<1>5. S.infos[f].containing = <<>> => Len(places) = 0
  BY DEF places, Places
<1> QED BY <1>3, <1>4, <1>5 DEF Stays

-----------------------------------------------------------------------------
\* The files of the inferred project, while it is the only one.

\* A project that there is stays, so one that is not there was not.
LEMMA AloneBack ==
  ASSUME NEW S, NEW T, Grows(S, T), Alone(T)
  PROVE  Alone(S)
BY StillThere DEF Alone, Projects

\* The infos of the open files are open: of no file that is just being closed.
AllOpen(S) == \A f \in S.openFiles : S.infos[f] # Nil /\ S.infos[f].open

\* The open files stay in the inferred project, and its roots stay.
LEMMA OpenStay ==
  ASSUME NEW S, Sound(S), AllOpen(S), NEW T, Grows(S, T)
  PROVE  /\ AllOpen(T) /\ InferredRoots(S) \subseteq InferredRoots(T)
         /\ \A f \in S.openFiles :
               Inferred \in ToSet(S.infos[f].containing) => Inferred \in ToSet(T.infos[f].containing)
<1>1. InferredRoots(S) \subseteq S.openFiles /\ S.openFiles \in SUBSET Files
  BY DEF Sound, States
<1>2. Firm(S, T) /\ T.openFiles = S.openFiles
  BY DEF Grows
<1>3. AllOpen(T)
  BY <1>1 DEF AllOpen, Grows
<1> QED BY <1>1, <1>2, <1>3 DEF AllOpen, Firm

\* Alone, the inferred project has a root.
Rooted(S) == Alone(S) /\ ~Panicked(S) => InferredRoots(S) # {}

\* ... and keeps it
LEMMA RootedStays ==
  ASSUME NEW S, Sound(S), AllOpen(S), Rooted(S), NEW T, Grows(S, T)
  PROVE  Rooted(T)
<1>1. Panicked(S) => Panicked(T)
  BY DEF Grows
<1> QED BY <1>1, AloneBack, OpenStay DEF Rooted

\* Alone, the inferred project has file f and a root.
Given(S, f) == Alone(S) => Inferred \in ToSet(S.infos[f].containing) /\ InferredRoots(S) # {}

\* A file that is no orphan belongs to it, if there is no other project.
LEMMA NoOrphan ==
  ASSUME NEW S, Sound(S), NEW f \in Files, S.infos[f] # Nil, ~IsOrphan(S, f)
  PROVE  Given(S, f)
<1>1. PICK p \in ToSet(S.infos[f].containing) : ~(p = Inferred /\ S.projects[p].roots = <<>>)
  BY DEF IsOrphan
<1>2. p \in Projects /\ S.projects[p] # Nil
  BY InfoFacts
<1>3. Alone(S) => p = Inferred
  BY <1>2 DEF Alone, Projects
<1>4. S.projects[p].roots \in Seq(Files)
  BY <1>2, ProjectFacts
<1>5. S.projects[p].roots # <<>> => S.projects[p].roots[1] \in ToSet(S.projects[p].roots)
  BY <1>4 DEF ToSet
<1> QED BY <1>1, <1>2, <1>3, <1>5 DEF Given, InferredRoots

\* An open file without a project is given to the inferred project, which it was no root of.
LEMMA AssignToInferredFacts ==
  ASSUME NEW S, Good(S), NEW f \in Files, S.infos[f] # Nil, f \in S.openFiles, IsOrphan(S, f),
         disk \in [Files -> Texts \cup {Nil}]
  PROVE  /\ Good(AssignToInferred(S, f)) /\ Grows(S, AssignToInferred(S, f))
         /\ S.infos[f].open => f \in InferredRoots(AssignToInferred(S, f))
<1> DEFINE C == IF S.projects[Inferred] = Nil THEN [S EXCEPT !.projects[Inferred] = NewProject] ELSE S
           R == AddRoot(C, Inferred, f)
<1>1. NewProject \in ProjectRecords /\ NewProject.program = Nil /\ NewProject.roots = <<>> /\ NewProject.dirty
  <2>1. <<>> \in Seq(Files)
    OBVIOUS
  <2> QED BY <2>1 DEF NewProject, ProjectRecords
<1>2. ToSet(<<>>) = {}
  BY DEF ToSet
<1>3. Inferred \in Projects
  BY DEF Projects
<1>4. Sound(C) /\ Grows(S, C) /\ SameDocs(S, C) /\ C.projects[Inferred] # Nil /\ ~IsRoot(C, Inferred, f)
  <2>1. CASE S.projects[Inferred] = Nil
    <3> DEFINE T == [S EXCEPT !.projects = [S.projects EXCEPT ![Inferred] = NewProject]]
    <3>1. C = T
      BY <2>1
    <3> HIDE DEF T, C
    <3>2. T = [S EXCEPT !.projects = [S.projects EXCEPT ![Inferred] = NewProject]]
      BY DEF T
    <3>6. InferredRoots(S) = {}
      BY <2>1 DEF InferredRoots
    <3>3. Sound(T) /\ Grows(S, T) /\ SameDocs(S, T)
      BY <1>1, <1>2, <1>3, <2>1, <3>2, <3>6, SetProject DEF Good, Renews
    <3>4. T.projects[Inferred] = NewProject
      BY <1>3, <3>2 DEF Good, Sound, States
    <3>5. NewProject # Nil
      BY <1>1, ServiceAssumption
    <3> QED BY <1>1, <1>2, <3>1, <3>3, <3>4, <3>5 DEF IsRoot
  <2>2. CASE S.projects[Inferred] # Nil
    <3>1. ASSUME IsRoot(S, Inferred, f) PROVE FALSE
      <4>1. f \in InferredRoots(S)
        BY <2>2, <3>1 DEF IsRoot, InferredRoots
      <4>2. Inferred \in ToSet(S.infos[f].containing)
        BY <4>1 DEF Good, Sound
      <4>3. S.projects[Inferred].roots = <<>>
        BY <4>2 DEF IsOrphan
      <4> QED BY <1>2, <3>1, <4>3 DEF IsRoot
    <3>2. Grows(S, S) /\ SameDocs(S, S)
      BY CalmReflexive, CalmGrows
    <3> QED BY <2>2, <3>1, <3>2 DEF Good
  <2> QED BY <2>1, <2>2
<1> HIDE DEF C
<1>5. Sound(R) /\ Grows(C, R) /\ SameDocs(C, R) /\ R.projects[Inferred].dirty /\ IsRoot(R, Inferred, f)
  <2>1. C.infos[f] # Nil /\ f \in C.openFiles
    BY <1>4, StillThere
  <2> QED BY <1>3, <1>4, <2>1, AddRootFacts
<1> HIDE DEF R
<1>6. Good(R) /\ Grows(S, R) /\ R.projects[Inferred] # Nil
  <2>1. SameDocs(S, R)
    BY <1>4, <1>5 DEF SameDocs
  <2>2. Grows(S, R)
    BY <1>4, <1>5, GrowsTransitive
  <2> QED BY <1>3, <1>4, <1>5, <2>1, <2>2, CalmGood, StillThere
<1>7. Good(UpdateGraph(R, Inferred)) /\ Grows(S, UpdateGraph(R, Inferred))
  BY <1>3, <1>5, <1>6, UpdateGraphFacts, KeepsGrows, GrowsTransitive
<1>8. AssignToInferred(S, f) = IF Panicked(R) THEN R ELSE UpdateGraph(R, Inferred)
  BY DEF AssignToInferred, Then, R, C
<1>9. ASSUME S.infos[f].open PROVE f \in InferredRoots(R) /\ f \in InferredRoots(UpdateGraph(R, Inferred))
  <2>1. f \in InferredRoots(R)
    BY <1>5, <1>6 DEF IsRoot, InferredRoots
  <2>2. R.infos[f] # Nil /\ R.infos[f].open
    BY <1>6, <1>9 DEF Grows
  <2>3. Firm(R, UpdateGraph(R, Inferred))
    BY <1>3, <1>5, <1>6, UpdateGraphFacts DEF Keeps, Grows
  <2> QED BY <2>1, <2>2, <2>3 DEF Firm
<1> QED BY <1>6, <1>7, <1>8, <1>9

\* A file that has a project is left where it is.
LEMMA AssignIfOrphanFacts ==
  ASSUME NEW S, Good(S), NEW f \in Files, S.infos[f] # Nil, f \in S.openFiles, disk \in [Files -> Texts \cup {Nil}]
  PROVE  /\ Good(AssignIfOrphan(S, f)) /\ Grows(S, AssignIfOrphan(S, f))
         /\ S.infos[f].open => Given(AssignIfOrphan(S, f), f)
<1>1. CASE IsOrphan(S, f)
  <2> DEFINE T == AssignToInferred(S, f)
  <2>1. Good(T) /\ Grows(S, T) /\ (S.infos[f].open => f \in InferredRoots(T))
    BY <1>1, AssignToInferredFacts
  <2>2. AssignIfOrphan(S, f) = T
    BY <1>1 DEF AssignIfOrphan
  <2> HIDE DEF T
  <2>3. S.infos[f].open => Given(T, f)
    BY <2>1 DEF Given, Good, Sound
  <2> QED BY <2>1, <2>2, <2>3
<1>2. CASE ~IsOrphan(S, f)
  BY <1>2, NoOrphan, KeepsReflexive DEF AssignIfOrphan, Good
<1> QED BY <1>1, <1>2

\* The project of the nearest config is there, and its config is read.
LEMMA LoadNearestFacts ==
  ASSUME NEW S, Good(S), NEW f \in Files, disk \in [Files -> Texts \cup {Nil}]
  PROVE  Good(LoadNearest(S, f)) /\ Keeps(S, LoadNearest(S, f))
<1> DEFINE c == ConfigOf[f]
           C == IF S.projects[c] = Nil THEN [S EXCEPT !.projects[c] = NewProject] ELSE S
<1>1. CASE c = Nil \/ config[c] = Nil
  BY <1>1, KeepsReflexive DEF LoadNearest
<1>2. CASE ~(c = Nil \/ config[c] = Nil)
  <2>1. c \in Configs /\ c \in Projects /\ c # Inferred
    BY <1>2, ServiceAssumption DEF Configs, Projects
  <2>2. LoadNearest(S, f) = LoadConfig(C, c)
    BY <1>2 DEF LoadNearest
  <2> HIDE DEF c
  <2>3. Sound(C) /\ Calm(S, C) /\ C.projects[c] # Nil
    <3>1. CASE S.projects[c] = Nil
      <4> DEFINE T == [S EXCEPT !.projects = [S.projects EXCEPT ![c] = NewProject]]
      <4>1. C = T
        BY <3>1
      <4> HIDE DEF T, C
      <4>2. T = [S EXCEPT !.projects = [S.projects EXCEPT ![c] = NewProject]]
        BY DEF T
      <4>3. NewProject \in ProjectRecords /\ NewProject.program = Nil /\ NewProject.dirty
        <5>1. <<>> \in Seq(Files)
          OBVIOUS
        <5> QED BY <5>1 DEF NewProject, ProjectRecords
      <4>4. Sound(T) /\ Calm(S, T)
        BY <2>1, <3>1, <4>2, <4>3, SetProject DEF Good, Renews
      <4>5. T.projects[c] = NewProject
        BY <2>1, <4>2 DEF Good, Sound, States
      <4>6. NewProject # Nil
        BY <4>3, ServiceAssumption
      <4> QED BY <4>1, <4>4, <4>5, <4>6
    <3>2. CASE S.projects[c] # Nil
      BY <3>2, CalmReflexive DEF Good
    <3> QED BY <3>1, <3>2
  <2> HIDE DEF C
  <2>4. Sound(LoadConfig(C, c)) /\ Calm(S, LoadConfig(C, c))
    BY <2>1, <2>3, LoadConfigFacts, CalmTransitive
  <2> QED BY <2>2, <2>4, CalmGood, CalmGrows DEF Calm
<1> QED BY <1>1, <1>2

\* An open file gets its projects.
LEMMA AssignProjectFacts ==
  ASSUME NEW S, Good(S), NEW f \in Files, S.infos[f] # Nil, f \in S.openFiles, disk \in [Files -> Texts \cup {Nil}]
  PROVE  LET T == AssignProject(S, f)
         IN  Good(T) /\ Grows(S, T) /\ (S.infos[f].open => Panicked(T) \/ Given(T, f))
<1> DEFINE L == LoadNearest(S, f)
           E == EachContaining(L, f, UpdateIfDirty)
           U == IF Panicked(L) THEN L ELSE E
           A == AssignIfOrphan(U, f)
<1>1. Good(L) /\ Grows(S, L)
  BY LoadNearestFacts, KeepsGrows
<1>2. AssignProject(S, f) = IF Panicked(U) THEN U ELSE A
  BY DEF AssignProject, Then
<1> HIDE DEF L
<1>3. Good(E) /\ Grows(L, E)
  BY <1>1, EachUpdateFacts, KeepsGrows, StillThere
<1> HIDE DEF E
<1>4. Good(U) /\ Grows(S, U)
  BY <1>1, <1>3, GrowsTransitive
<1> HIDE DEF U
<1>5. U.infos[f] # Nil /\ f \in U.openFiles
  BY <1>4, StillThere
<1>7. S.infos[f].open => U.infos[f].open
  BY <1>4 DEF Grows
<1>6. Good(A) /\ Grows(S, A) /\ (S.infos[f].open => Given(A, f))
  BY <1>4, <1>5, <1>7, AssignIfOrphanFacts, GrowsTransitive
<1> HIDE DEF A
<1> QED BY <1>2, <1>4, <1>6

-----------------------------------------------------------------------------
\* The infos have the texts B of the client, and are open as far as it has a text.
Shows(S, B) ==
  \A f \in Files : IF B[f] = Nil THEN S.infos[f] # Nil => ~S.infos[f].open
                   ELSE S.infos[f] # Nil /\ S.infos[f].open /\ S.infos[f].text = B[f]

\* A step that keeps what open files show.
LEMMA GrowsShows ==
  ASSUME NEW S, NEW T, Grows(S, T), NEW B, Shows(S, B)
  PROVE  Shows(T, B)
<1> SUFFICES ASSUME NEW f \in Files
             PROVE  IF B[f] = Nil THEN T.infos[f] # Nil => ~T.infos[f].open
                    ELSE T.infos[f] # Nil /\ T.infos[f].open /\ T.infos[f].text = B[f]
  BY DEF Shows
<1>1. IF B[f] = Nil THEN S.infos[f] # Nil => ~S.infos[f].open
      ELSE S.infos[f] # Nil /\ S.infos[f].open /\ S.infos[f].text = B[f]
  BY DEF Shows
<1>2. IF S.infos[f] = Nil THEN T.infos[f] # Nil => ~T.infos[f].open
      ELSE T.infos[f] # Nil /\ T.infos[f].open = S.infos[f].open /\ T.infos[f].text = S.infos[f].text
  BY DEF Grows
<1> QED BY <1>1, <1>2, Zenon

\* What files belong to is as it was, and what was dirty is dirty.
Alike(S, T) ==
  /\ T.openFiles = S.openFiles /\ InferredRoots(T) = InferredRoots(S)
  /\ \A p \in Projects : /\ T.projects[p] = Nil <=> S.projects[p] = Nil
                         /\ S.projects[p] # Nil /\ S.projects[p].dirty => T.projects[p].dirty
  /\ \A g \in Files : S.infos[g] # Nil => T.infos[g] # Nil /\ T.infos[g].containing = S.infos[g].containing

\* ... so that a request still finds what it has to do
LEMMA AlikeNoticed ==
  ASSUME NEW S, Sound(S), Noticed(S), NEW T, Alike(S, T)
  PROVE  Noticed(T)
<1> SUFFICES ASSUME Alone(T)
             PROVE  /\ \A f \in T.openFiles : T.infos[f] # Nil /\ Inferred \in ToSet(T.infos[f].containing)
                    /\ T.openFiles # {} => InferredRoots(T) # {} \/ T.projects[Inferred].dirty
  BY DEF Noticed
<1>1. Alone(S)
  BY DEF Alone, Alike, Projects
<1>2. \A f \in S.openFiles : f \in Files /\ S.infos[f] # Nil /\ Inferred \in ToSet(S.infos[f].containing)
  BY <1>1 DEF Noticed, Sound, States
<1>3. S.openFiles # {} => S.projects[Inferred] # Nil
  BY <1>2 DEF Sound
<1>4. S.openFiles # {} => InferredRoots(S) # {} \/ S.projects[Inferred].dirty
  BY <1>1 DEF Noticed
<1> QED BY <1>2, <1>3, <1>4 DEF Alike, Projects

\* Marks leave that as it is.
LEMMA MarksAlike ==
  ASSUME NEW S, NEW T, Marks(S, T), T.openFiles = S.openFiles
  PROVE  Alike(S, T)
<1>1. InferredRoots(T) = InferredRoots(S)
  BY DEF Marks, InferredRoots, Projects
<1> QED BY <1>1 DEF Marks, Alike

\* With the info i of f in the place of another, T shows C. That is good if the text and the version
\* are those there were.
Shown(S, f, i, C, T) ==
  /\ Sound(T) /\ SameDocs(S, T) /\ Alike(S, T) /\ Shows(T, C) /\ T.infos[f] # Nil /\ T.infos[f] = i
  /\ T.openFiles = S.openFiles /\ InferredRoots(T) = InferredRoots(S)
  /\ i.text = S.infos[f].text /\ i.version = S.infos[f].version => Good(T)

\* The info of a file is exchanged for one that shows what the client has now.
LEMMA ShowInfo ==
  ASSUME NEW S, Good(S), NEW f \in Files, S.infos[f] # Nil, NEW i \in InfoRecords,
         i.containing = S.infos[f].containing, NEW B \in [Files -> Texts \cup {Nil}], Shows(S, B),
         NEW t \in Texts \cup {Nil}, IF t = Nil THEN ~i.open ELSE i.open /\ i.text = t,
         NEW C, C = [B EXCEPT ![f] = t], NEW T, T = [S EXCEPT !.infos = [S.infos EXCEPT ![f] = i]]
  PROVE  Shown(S, f, i, C, T)
<1>1. S \in States /\ i # Nil /\ Sound(S)
  BY ServiceAssumption DEF Good, Sound
<1>2. T.openFiles = S.openFiles /\ \A g \in Files : T.infos[g] = IF g = f THEN i ELSE S.infos[g]
  BY <1>1 DEF States
<1>3. \A p \in ToSet(i.containing) : S.projects[p] # Nil
  BY <1>1 DEF Sound
<1>4. f \in InferredRoots(S) => Inferred \in ToSet(i.containing)
  BY <1>1 DEF Sound
<1>5. Sound(T) /\ SameDocs(S, T) /\ InferredRoots(T) = InferredRoots(S)
  BY <1>1, <1>3, <1>4, SetInfo
<1>6. Shows(T, C)
  <2> SUFFICES ASSUME NEW g \in Files
               PROVE  IF C[g] = Nil THEN T.infos[g] # Nil => ~T.infos[g].open
                      ELSE T.infos[g] # Nil /\ T.infos[g].open /\ T.infos[g].text = C[g]
    BY DEF Shows
  <2>1. CASE g = f
    <3>1. C[g] = t /\ T.infos[g] = i
      BY <1>2, <2>1
    <3> QED BY <1>1, <3>1
  <2>2. CASE g # f
    <3>1. C[g] = B[g] /\ T.infos[g] = S.infos[g]
      BY <1>2, <2>2
    <3>2. IF B[g] = Nil THEN S.infos[g] # Nil => ~S.infos[g].open
          ELSE S.infos[g] # Nil /\ S.infos[g].open /\ S.infos[g].text = B[g]
      BY DEF Shows
    <3> QED BY <3>1, <3>2, Zenon
  <2> QED BY <2>1, <2>2
<1>7. ASSUME i.text = S.infos[f].text, i.version = S.infos[f].version PROVE Good(T)
  <2>1. Fresh(T)
    BY <1>1, <1>7, FreshInfo DEF Good
  <2> QED BY <1>5, <2>1, FreshGood
<1>8. Alike(S, T)
  <2>1. T.projects = S.projects
    BY <1>1 DEF States
  <2> QED BY <1>1, <1>2, <1>5, <2>1 DEF Alike
<1> QED BY <1>1, <1>2, <1>5, <1>6, <1>7, <1>8 DEF Shown

\* The open files are exchanged for others, among them the roots of the inferred project.
LEMMA SetOpen ==
  ASSUME NEW S, Good(S), NEW O \in SUBSET Files, InferredRoots(S) \subseteq O,
         NEW T, T = [S EXCEPT !.openFiles = O]
  PROVE  /\ Good(T) /\ T.openFiles = O /\ T.infos = S.infos /\ T.panic = S.panic
         /\ T.projects = S.projects /\ InferredRoots(T) = InferredRoots(S)
<1>1. S \in States /\ Sound(S)
  BY DEF Good, Sound
<1>2. T \in States /\ T.infos = S.infos /\ T.openFiles = O /\ T.docs = S.docs /\ T.projects = S.projects
      /\ T.panic = S.panic /\ T.lastVersions = S.lastVersions
  BY <1>1 DEF States
<1>3. InferredRoots(T) = InferredRoots(S) /\ \A p \in Projects : Held(T, p) = Held(S, p)
  BY <1>2 DEF InferredRoots, Held
<1>4. Sound(T)
  BY <1>1, <1>2, <1>3 DEF Sound
<1>5. Fresh(S) /\ \A g \in Files : Version(T, g) = Version(S, g)
  BY <1>2 DEF Good, Version
<1>6. Fresh(T)
  BY <1>2, <1>5, FreshAlike
<1> QED BY <1>2, <1>3, <1>4, <1>6, FreshGood DEF SameDocs

\* The inferred project's roots are open.
LEMMA RootsAreOpen ==
  ASSUME NEW S, Sound(S)
  PROVE  InferredRoots(S) \subseteq S.openFiles /\ S.openFiles \in SUBSET Files
BY DEF Sound, States

\* The info of a file shows what the client has now, at a new version unless nothing changed, and its
\* projects are marked.
LEMMA ShowChange ==
  ASSUME NEW S, Good(S), NEW f \in Files, S.infos[f] # Nil, NEW i \in InfoRecords,
         i.containing = S.infos[f].containing, NEW B \in [Files -> Texts \cup {Nil}], Shows(S, B),
         NEW t \in Texts \cup {Nil}, IF t = Nil THEN ~i.open ELSE i.open /\ i.text = t,
         NEW C, C = [B EXCEPT ![f] = t], NEW U, U = [S EXCEPT !.infos = [S.infos EXCEPT ![f] = i]],
         \/ i.version = S.infos[f].version + 1
         \/ i.text = S.infos[f].text /\ i.version = S.infos[f].version
  PROVE  LET T == MarkContainingDirty(U, f)
         IN  /\ Good(T) /\ Shows(T, C) /\ T.infos[f] # Nil
             /\ T.openFiles = S.openFiles /\ InferredRoots(T) \subseteq InferredRoots(S)
             /\ Noticed(S) => Noticed(T)
<1> DEFINE T == MarkContainingDirty(U, f)
<1>0. Shown(S, f, i, C, U)
  BY ShowInfo
<1>1. Sound(U) /\ SameDocs(S, U) /\ Alike(S, U) /\ U.infos[f] # Nil /\ U.infos[f] = i
  BY <1>0 DEF Shown
<1>2. Shows(U, C) /\ U.openFiles = S.openFiles /\ InferredRoots(U) = InferredRoots(S)
  BY <1>0 DEF Shown
<1>3. i.text = S.infos[f].text /\ i.version = S.infos[f].version => Good(U)
  BY <1>0 DEF Shown
<1>4. Sound(T) /\ Calm(U, T) /\ Marks(U, T) /\ \A p \in ToSet(i.containing) : T.projects[p].dirty
  BY <1>1, MarkContainingDirtyFacts
<1> HIDE DEF T
<1>5. Fresh(T)
  <2>1. CASE i.version = S.infos[f].version + 1
    BY <1>4, <2>1, FreshChange DEF Good
  <2>2. CASE i.text = S.infos[f].text /\ i.version = S.infos[f].version
    BY <1>3, <1>4, <2>2 DEF Good, Calm, Keeps, Grows
  <2> QED BY <2>1, <2>2
<1>6. SameDocs(S, T)
  BY <1>1, <1>4 DEF SameDocs, Calm
<1>7. Good(T)
  BY <1>4, <1>5, <1>6, FreshGood
<1>8. Grows(U, T)
  BY <1>4, CalmGrows
<1>9. Shows(T, C)
  BY <1>2, <1>8, GrowsShows
<1>10. T.infos[f] # Nil /\ T.openFiles = S.openFiles
  BY <1>1, <1>2, <1>8, StillThere
<1>11. InferredRoots(T) \subseteq InferredRoots(S)
  BY <1>2, <1>4 DEF Calm, Keeps
<1>12. Noticed(S) => Noticed(T)
  <2>1. T.openFiles = U.openFiles
    BY <1>2, <1>10
  <2>2. Alike(U, T) /\ Sound(S)
    BY <1>4, <2>1, MarksAlike DEF Good
  <2> QED BY <1>1, <2>2, AlikeNoticed
<1> QED BY <1>7, <1>9, <1>10, <1>11, <1>12 DEF T

\* ScriptInfo.open
LEMMA OpenInfoFacts ==
  ASSUME NEW S, Good(S), NEW f \in Files, S.infos[f] # Nil, NEW text \in Texts,
         NEW B \in [Files -> Texts \cup {Nil}], Shows(S, B)
  PROVE  LET T == OpenInfo(S, f, text)
         IN  /\ Good(T) /\ Shows(T, [B EXCEPT ![f] = text]) /\ T.infos[f] # Nil /\ T.openFiles = S.openFiles
             /\ InferredRoots(T) \subseteq S.openFiles /\ (Noticed(S) => Noticed(T))
<1> DEFINE info == S.infos[f]
           C == [B EXCEPT ![f] = text]
           i == [info EXCEPT !.open = TRUE, !.pending = FALSE]
           j == [i EXCEPT !.text = text, !.version = info.version + 1, !.matches = FALSE]
           T == [S EXCEPT !.infos = [S.infos EXCEPT ![f] = i]]
           U == [S EXCEPT !.infos = [S.infos EXCEPT ![f] = j]]
           M == MarkContainingDirty(U, f)
<1>8. C = [B EXCEPT ![f] = text]
  OBVIOUS
<1> HIDE DEF C
<1>1. info \in InfoRecords /\ S \in States /\ Sound(S)
  BY InfoFacts DEF Good, Sound
<1>2. /\ i \in InfoRecords /\ i.open /\ i.text = info.text /\ i.version = info.version
      /\ i.containing = info.containing
  BY <1>1 DEF InfoRecords
<1>3. /\ j \in InfoRecords /\ j.open /\ j.text = text /\ j.version = info.version + 1
      /\ j.containing = info.containing
  <2>1. info.version + 1 \in Nat /\ text \in Texts \cup {Blank}
    BY <1>1 DEF InfoRecords
  <2> HIDE DEF i
  <2> QED BY <1>2, <2>1 DEF InfoRecords
<1>4. text # Nil /\ text \in Texts \cup {Nil}
  BY ServiceAssumption
<1>5. InferredRoots(S) \subseteq S.openFiles
  BY <1>1, RootsAreOpen
<1>6. CASE text = info.text
  <2>1. OpenInfo(S, f, text) = T
    BY <1>1, <1>6 DEF OpenInfo, States
  <2> HIDE DEF i
  <2>2. T = [S EXCEPT !.infos = [S.infos EXCEPT ![f] = i]]
    OBVIOUS
  <2> HIDE DEF T
  <2>6. IF text = Nil THEN ~i.open ELSE i.open /\ i.text = text
    BY <1>2, <1>4, <1>6
  <2>7. Shown(S, f, i, C, T)
    BY <1>2, <1>4, <1>8, <2>2, <2>6, ShowInfo
  <2>9. Good(T)
    BY <1>2, <2>7 DEF Shown
  <2>10. Shows(T, C) /\ InferredRoots(T) = InferredRoots(S)
    BY <2>7 DEF Shown
  <2>8. T.infos[f] # Nil /\ T.openFiles = S.openFiles
    BY <1>1, <1>2, <2>2, ServiceAssumption DEF States
  <2>3. /\ Good(T) /\ Shows(T, C) /\ T.infos[f] # Nil
        /\ T.openFiles = S.openFiles /\ InferredRoots(T) = InferredRoots(S)
    BY <2>8, <2>9, <2>10
  <2>4. Noticed(S) => Noticed(T)
    BY <1>1, <2>7, AlikeNoticed DEF Shown
  <2> QED BY <1>5, <2>1, <2>3, <2>4 DEF C
<1>7. CASE text # info.text
  <2>1. OpenInfo(S, f, text) = M
    <3>1. [T EXCEPT !.infos[f] = [SetText(T.infos[f], text) EXCEPT !.matches = FALSE]] = U
      BY <1>1 DEF SetText, States, InfoRecords
    <3>2. [S EXCEPT !.infos[f].open = TRUE, !.infos[f].pending = FALSE] = T
      BY <1>1 DEF States
    <3> QED BY <1>7, <3>1, <3>2 DEF OpenInfo
  <2> HIDE DEF j
  <2>2. U = [S EXCEPT !.infos = [S.infos EXCEPT ![f] = j]]
    OBVIOUS
  <2> HIDE DEF U
  <2>6. IF text = Nil THEN ~j.open ELSE j.open /\ j.text = text
    BY <1>3, <1>4
  <2>3. Good(M) /\ Shows(M, C)
    BY <1>3, <1>4, <1>8, <2>2, <2>6, ShowChange
  <2>4. M.infos[f] # Nil /\ M.openFiles = S.openFiles /\ InferredRoots(M) \subseteq InferredRoots(S)
        /\ (Noticed(S) => Noticed(M))
    BY <1>3, <1>4, <1>8, <2>2, <2>6, ShowChange
  <2> HIDE DEF M
  <2> QED BY <1>5, <2>1, <2>3, <2>4 DEF C
<1> QED BY <1>6, <1>7

\* ScriptInfo.close
LEMMA CloseInfoFacts ==
  ASSUME NEW S, Good(S), NEW f \in Files, S.infos[f] # Nil, NEW exists \in BOOLEAN,
         NEW B \in [Files -> Texts \cup {Nil}], Shows(S, B)
  PROVE  LET T == CloseInfo(S, f, exists)
         IN  /\ Good(T) /\ Shows(T, [B EXCEPT ![f] = Nil]) /\ T.infos[f] # Nil /\ T.openFiles = S.openFiles
             /\ Noticed(S) => Noticed(T)
<1> DEFINE info == S.infos[f]
           C == [B EXCEPT ![f] = Nil]
           i == [info EXCEPT !.open = FALSE]
           j == [i EXCEPT !.pending = TRUE]
           T == [S EXCEPT !.infos = [S.infos EXCEPT ![f] = i]]
           U == [S EXCEPT !.infos = [S.infos EXCEPT ![f] = j]]
           M == MarkContainingDirty(U, f)
<1>8. C = [B EXCEPT ![f] = Nil]
  OBVIOUS
<1> HIDE DEF C
<1>1. info \in InfoRecords /\ S \in States /\ Sound(S)
  BY InfoFacts DEF Good, Sound
<1>2. /\ i \in InfoRecords /\ ~i.open /\ i.containing = info.containing
      /\ i.text = info.text /\ i.version = info.version
  BY <1>1 DEF InfoRecords
<1>3. /\ j \in InfoRecords /\ ~j.open /\ j.containing = info.containing
      /\ j.text = info.text /\ j.version = info.version
  BY <1>1 DEF InfoRecords
<1>4. Nil \in Texts \cup {Nil}
  OBVIOUS
<1>5. CASE ~(exists /\ ~info.pending /\ ~info.matches)
  <2>1. CloseInfo(S, f, exists) = T
    BY <1>1, <1>5 DEF CloseInfo, States
  <2> HIDE DEF i
  <2>2. T = [S EXCEPT !.infos = [S.infos EXCEPT ![f] = i]]
    OBVIOUS
  <2> HIDE DEF T
  <2>6. IF Nil = Nil THEN ~i.open ELSE i.open /\ i.text = Nil
    BY <1>2, <1>4
  <2>7. Shown(S, f, i, C, T)
    BY <1>2, <1>4, <1>8, <2>2, <2>6, ShowInfo
  <2>9. Good(T) /\ Shows(T, C)
    BY <1>2, <2>7 DEF Shown
  <2>8. T.infos[f] # Nil /\ T.openFiles = S.openFiles
    BY <1>1, <1>2, <2>2, ServiceAssumption DEF States
  <2>3. /\ Good(T) /\ Shows(T, C) /\ T.infos[f] # Nil /\ T.openFiles = S.openFiles
    BY <2>8, <2>9
  <2>4. Noticed(S) => Noticed(T)
    BY <1>1, <2>7, AlikeNoticed DEF Shown
  <2> QED BY <2>1, <2>3, <2>4 DEF C
<1>6. CASE exists /\ ~info.pending /\ ~info.matches
  <2>1. CloseInfo(S, f, exists) = M
    <3>1. [T EXCEPT !.infos[f].pending = TRUE] = U
      BY <1>1 DEF States, InfoRecords
    <3>2. [S EXCEPT !.infos[f].open = FALSE] = T
      BY <1>1 DEF States
    <3> QED BY <1>6, <3>1, <3>2 DEF CloseInfo
  <2> HIDE DEF j
  <2>2. U = [S EXCEPT !.infos = [S.infos EXCEPT ![f] = j]]
    OBVIOUS
  <2> HIDE DEF U
  <2>6. IF Nil = Nil THEN ~j.open ELSE j.open /\ j.text = Nil
    BY <1>3, <1>4
  <2>3. Good(M) /\ Shows(M, C)
    BY <1>3, <1>4, <1>8, <2>2, <2>6, ShowChange
  <2>4. M.infos[f] # Nil /\ M.openFiles = S.openFiles /\ (Noticed(S) => Noticed(M))
    BY <1>3, <1>4, <1>8, <2>2, <2>6, ShowChange
  <2> HIDE DEF M
  <2> QED BY <2>1, <2>3, <2>4 DEF C
<1> QED BY <1>5, <1>6

-----------------------------------------------------------------------------
\* The loop of didClose: once it has come to the inferred project, if that contains the file, the
\* file is none of its roots, unless the loop met the hole that a detached project leaves.
Leaving(f, S, i) == Visit(S, f, i, LAMBDA T, p : Leave(T, p, f))

Left(c, k, T) ==
  /\ Good(T) /\ Keeps(c.from, T) /\ (T = c.from \/ Panicked(T) \/ T.projects[Inferred].dirty)
  /\ \/ Panicked(T)
     \/ c.f \notin InferredRoots(T)
     \/ /\ T.infos[c.f].containing = c.from.infos[c.f].containing
        /\ \A i \in 1..k : c.from.infos[c.f].containing[i] # Inferred

Leaves == INSTANCE FoldInduction WITH step <- Leaving, Inv <- Left

\* After its turn, either f is no root of the inferred project or nothing happened; if anything did,
\* the inferred project is dirty.
LEMMA LeaveFacts ==
  ASSUME NEW S, Good(S), NEW f \in Files, S.infos[f] # Nil, NEW p \in Projects, S.projects[p] # Nil,
         f \in S.openFiles, ~S.infos[f].open
  PROVE  /\ Good(Leave(S, p, f)) /\ Keeps(S, Leave(S, p, f))
         /\ Leave(S, p, f) = S \/ Leave(S, p, f).projects[Inferred].dirty
         /\ \/ f \notin InferredRoots(Leave(S, p, f))
            \/ p # Inferred /\ Leave(S, p, f) = S
<1>1. CASE p = Inferred /\ IsRoot(S, p, f)
  <2> DEFINE T == RemoveFile(S, p, f, TRUE)
  <2>1. Leave(S, p, f) = T
    BY <1>1 DEF Leave
  <2>2. Sound(T) /\ Calm(S, T) /\ f \notin InferredRoots(T) /\ T.projects[Inferred].dirty
    BY <1>1, RemoveFileFacts DEF Good
  <2> HIDE DEF T
  <2>3. Good(T) /\ Keeps(S, T)
    BY <2>2, CalmGood, CalmGrows DEF Calm
  <2> QED BY <2>1, <2>2, <2>3
<1>2. CASE ~(p = Inferred /\ IsRoot(S, p, f))
  <2>1. Leave(S, p, f) = S
    BY <1>2 DEF Leave
  <2>2. p = Inferred => f \notin InferredRoots(S)
    BY <1>2 DEF IsRoot, InferredRoots
  <2> QED BY <2>1, <2>2, KeepsReflexive
<1> QED BY <1>1, <1>2

\* The loop of CloseFile, over the places of the projects: f ends as no root.
LEMMA EachLeaveFacts ==
  ASSUME NEW S, Good(S), NEW f \in Files, S.infos[f] # Nil, f \in S.openFiles, ~S.infos[f].open
  PROVE  LET T == EachContaining(S, f, LAMBDA U, p : Leave(U, p, f))
         IN  /\ Good(T) /\ Keeps(S, T) /\ (Panicked(T) \/ f \notin InferredRoots(T))
             /\ T = S \/ Panicked(T) \/ T.projects[Inferred].dirty
<1> DEFINE seq == S.infos[f].containing
           places == Places(seq)
           c == [from |-> S, f |-> f]
<1>1. seq \in Seq(Projects)
  BY InfoFacts DEF Good
<1>2. places \in Seq(Nat \ {0}) /\ Len(places) = Len(seq) /\ \A i \in 1..Len(seq) : places[i] = i
  <2> HIDE DEF seq
  <2> QED BY <1>1, PlacesFacts
<1> HIDE DEF places
<1>3. Left(c, 0, S)
  <2>1. \A i \in 1..0 : seq[i] # Inferred
    OBVIOUS
  <2> QED BY <2>1, KeepsReflexive DEF Left
<1>4. \A k \in 0..(Len(places) - 1) : \A T : Left(c, k, T) => Left(c, k + 1, Leaving(f, T, places[k + 1]))
  <2> SUFFICES ASSUME NEW k \in 0..(Len(seq) - 1), NEW T, Left(c, k, T)
               PROVE  Left(c, k + 1, Leaving(f, T, k + 1))
    <3>1. \A k \in 0..(Len(seq) - 1) : places[k + 1] = k + 1
      <4> HIDE DEF seq, c
      <4> QED BY <1>1, <1>2
    <3> HIDE DEF c
    <3> QED BY <1>2, <3>1
  <2>1. Good(T) /\ Keeps(S, T) /\ T.infos[f] # Nil /\ f \in T.openFiles /\ ~T.infos[f].open
    BY DEF Left, Keeps, Grows
  <2>5. T = S \/ Panicked(T) \/ T.projects[Inferred].dirty
    BY DEF Left
  <2>2. CASE Panicked(T)
    <3>1. Leaving(f, T, k + 1) = T
      BY <2>2 DEF Leaving, Visit
    <3> QED BY <2>1, <2>2, <3>1 DEF Left
  <2>3. CASE ~Panicked(T) /\ k + 1 > Len(T.infos[f].containing)
    <3> DEFINE U == Panic(T, "nil pointer")
    <3>1. Leaving(f, T, k + 1) = U
      BY <2>3 DEF Leaving, Visit
    <3>2. Good(U) /\ Keeps(S, U) /\ Panicked(U)
      BY <2>1, HoleFacts, PanicFacts, KeepsTransitive DEF Good
    <3> HIDE DEF U
    <3> QED BY <3>1, <3>2 DEF Left
  <2>4. CASE ~Panicked(T) /\ ~(k + 1 > Len(T.infos[f].containing))
    <3> DEFINE p == T.infos[f].containing[k + 1]
               U == Leave(T, p, f)
    <3>1. Leaving(f, T, k + 1) = U
      BY <2>4 DEF Leaving, Visit
    <3>2. k + 1 <= Len(T.infos[f].containing)
      <4>1. T.infos[f].containing \in Seq(Projects)
        BY <2>1, InfoFacts DEF Good
      <4> QED BY <2>4, <4>1
    <3>3. p \in Projects /\ T.projects[p] # Nil
      BY <2>1, <3>2, VisitFacts
    <3>4. Good(U) /\ Keeps(T, U) /\ (f \notin InferredRoots(U) \/ (p # Inferred /\ U = T))
      <4> HIDE DEF p
      <4> USE <2>1, <3>3
      <4>1. Good(U) /\ Keeps(T, U)
        BY LeaveFacts, Zenon
      <4>2. f \notin InferredRoots(U) \/ (p # Inferred /\ U = T)
        BY LeaveFacts
      <4> QED BY <4>1, <4>2
    <3>8. U = T \/ U.projects[Inferred].dirty
      <4> HIDE DEF p
      <4> QED BY <2>1, <3>3, LeaveFacts
    <3>5. Good(U) /\ Keeps(S, U) /\ (U = S \/ Panicked(U) \/ U.projects[Inferred].dirty)
      <4> HIDE DEF U
      <4> QED BY <2>1, <2>5, <3>4, <3>8, KeepsTransitive
    <3>6. CASE f \notin InferredRoots(U)
      <4> HIDE DEF U
      <4> QED BY <3>1, <3>5, <3>6 DEF Left
    <3>7. CASE p # Inferred /\ U = T
      <4>1. CASE f \notin InferredRoots(T)
        <5> HIDE DEF U
        <5> QED BY <3>1, <3>5, <3>7, <4>1 DEF Left
      <4>2. CASE T.infos[f].containing = seq /\ \A i \in 1..k : seq[i] # Inferred
        <5>1. seq[k + 1] # Inferred
          BY <3>7, <4>2
        <5>2. \A i \in 1..(k + 1) : seq[i] # Inferred
          <6> HIDE DEF seq
          <6> QED BY <4>2, <5>1
        <5> HIDE DEF U
        <5> QED BY <3>1, <3>5, <3>7, <4>2, <5>2 DEF Left
      <4>3. \/ f \notin InferredRoots(T)
            \/ T.infos[f].containing = seq /\ \A i \in 1..k : seq[i] # Inferred
        BY <2>4 DEF Left
      <4> QED BY <4>1, <4>2, <4>3
    <3> QED BY <3>4, <3>6, <3>7
  <2> QED BY <2>2, <2>3, <2>4
<1> DEFINE T == EachContaining(S, f, LAMBDA U, p : Leave(U, p, f))
<1>5. T = Leaves!Over(f, S, places)
  BY DEF EachContaining, places, Leaving, Visit, FoldLeft, MapThenFoldSet, Max, Leaves!Over, Leaves!IsRun, Leaves!Last
<1> HIDE DEF T
<1>6. Left(c, Len(places), T)
  <2> HIDE DEF c, seq
  <2>1. Left(c, Len(places), Leaves!Over(f, S, places))
    BY <1>2, <1>3, <1>4, NaturalInduction, Leaves!LoopReaches DEF Leaves!Induction
  <2> QED BY <1>5, <2>1
<1>7. Good(T) /\ Keeps(S, T) /\ (T = S \/ Panicked(T) \/ T.projects[Inferred].dirty)
  BY <1>6 DEF Left
<1>8. Panicked(T) \/ f \notin InferredRoots(T)
  <2> SUFFICES ASSUME T.infos[f].containing = seq, \A i \in 1..Len(seq) : seq[i] # Inferred
               PROVE  f \notin InferredRoots(T)
    BY <1>2, <1>6 DEF Left
  <2>1. Inferred \notin ToSet(seq)
    <3> HIDE DEF seq
    <3> QED BY <1>1 DEF ToSet
  <2> QED BY <1>7, <2>1 DEF Good, Sound
<1> QED BY <1>7, <1>8 DEF T

-----------------------------------------------------------------------------
\* A file that no client has open is forgotten: it leaves its projects and its info is gone.
Removing(f, S, p) == RemoveFile(S, p, f, FALSE)

RemovedFrom(c, k, T) ==
  /\ Sound(T) /\ Calm(c.from, T) /\ T.infos = c.from.infos
  /\ \A p \in First(c.seq, k) : T.projects[p].dirty
  /\ \A p \in Projects : c.from.projects[p] # Nil /\ c.from.projects[p].dirty => T.projects[p].dirty

Removes == INSTANCE FoldInduction WITH step <- Removing, Inv <- RemovedFrom

\* The loop over the projects of a deleted file.
LEMMA EachRemoveFacts ==
  ASSUME NEW S, Sound(S), NEW f \in Files, S.infos[f] # Nil, f \notin S.openFiles
  PROVE  LET T == FoldLeft(LAMBDA U, p : RemoveFile(U, p, f, FALSE), S, S.infos[f].containing)
         IN  /\ Sound(T) /\ Calm(S, T) /\ T.infos = S.infos
             /\ \A p \in ToSet(S.infos[f].containing) : T.projects[p].dirty
             /\ \A p \in Projects : S.projects[p] # Nil /\ S.projects[p].dirty => T.projects[p].dirty
<1> DEFINE seq == S.infos[f].containing
           c == [from |-> S, seq |-> seq]
           T == FoldLeft(LAMBDA U, p : RemoveFile(U, p, f, FALSE), S, seq)
<1>1. seq \in Seq(Projects) /\ \A p \in ToSet(seq) : p \in Projects /\ S.projects[p] # Nil
  BY InfoFacts
<1>2. T = Removes!Over(f, S, seq)
  BY DEF Removing, FoldLeft, MapThenFoldSet, Max, Removes!Over, Removes!IsRun, Removes!Last
<1> HIDE DEF T, seq
<1>3. First(seq, 0) = {} /\ First(seq, Len(seq)) = ToSet(seq)
      /\ \A k \in 0..(Len(seq) - 1) : First(seq, k + 1) = First(seq, k) \cup {seq[k + 1]}
  BY <1>1, FirstFacts
<1>4. RemovedFrom(c, 0, S)
  BY <1>3, CalmReflexive DEF RemovedFrom
<1>5. \A k \in 0..(Len(seq) - 1) : \A U : RemovedFrom(c, k, U) => RemovedFrom(c, k + 1, Removing(f, U, seq[k + 1]))
  <2> SUFFICES ASSUME NEW k \in 0..(Len(seq) - 1), NEW U, RemovedFrom(c, k, U)
               PROVE  RemovedFrom(c, k + 1, RemoveFile(U, seq[k + 1], f, FALSE))
    BY DEF Removing
  <2> DEFINE p == seq[k + 1]
             V == RemoveFile(U, p, f, FALSE)
  <2>1. Sound(U) /\ Calm(S, U) /\ U.infos = S.infos /\ \A r \in First(seq, k) : U.projects[r].dirty
    BY DEF RemovedFrom
  <2>10. \A r \in Projects : S.projects[r] # Nil /\ S.projects[r].dirty => U.projects[r].dirty
    BY DEF RemovedFrom
  <2>2. p \in Projects /\ p \in ToSet(seq)
    BY <1>1 DEF ToSet
  <2> HIDE DEF p
  <2>3. U.projects[p] # Nil
    BY <1>1, <2>1, <2>2, CalmGrows, StillThere
  <2>4. /\ Sound(V) /\ Calm(U, V) /\ V.projects[p].dirty /\ V.infos = U.infos
        /\ \A r \in Projects : U.projects[r] # Nil /\ U.projects[r].dirty => V.projects[r].dirty
    <3>1. f \notin InferredRoots(U)
      BY <2>1, RootsAreOpen, CalmGrows, StillThere
    <3> QED BY <2>1, <2>2, <2>3, <3>1, RemoveFileFacts
  <2> HIDE DEF V
  <2>5. \A r \in First(seq, k) : r \in Projects /\ U.projects[r] # Nil
    <3> SUFFICES ASSUME NEW i \in 1..k PROVE seq[i] \in Projects /\ U.projects[seq[i]] # Nil
      BY DEF First
    <3>1. seq[i] \in ToSet(seq) /\ seq[i] \in Projects
      BY <1>1 DEF ToSet
    <3> QED BY <1>1, <2>1, <3>1, CalmGrows, StillThere
  <2>6. \A r \in First(seq, k) : V.projects[r].dirty
    BY <2>1, <2>4, <2>5
  <2>7. \A r \in First(seq, k + 1) : V.projects[r].dirty
    BY <1>3, <2>4, <2>6 DEF p
  <2>8. Sound(V) /\ Calm(S, V) /\ V.infos = S.infos
    BY <2>1, <2>4, CalmTransitive
  <2>11. \A r \in Projects : S.projects[r] # Nil /\ S.projects[r].dirty => V.projects[r].dirty
    BY <2>1, <2>4, <2>10, CalmGrows, StillThere
  <2>9. RemovedFrom(c, k + 1, V)
    BY <2>7, <2>8, <2>11 DEF RemovedFrom
  <2> QED BY <2>9 DEF V, p
<1> HIDE DEF c
<1>6. RemovedFrom(c, Len(seq), T)
  BY <1>1, <1>2, <1>4, <1>5, NaturalInduction, Removes!LoopReaches DEF Removes!Induction
<1> QED BY <1>3, <1>6 DEF RemovedFrom, c, T, seq

\* The info of a file that nobody has open, whose projects are marked, is dropped.
LEMMA DropInfo ==
  ASSUME NEW S, Good(S), NEW f \in Files, f \notin S.openFiles, NEW B, Shows(S, B), B[f] = Nil,
         S.infos[f] # Nil, S.lastVersions[f] = S.infos[f].version,
         \A p \in ToSet(S.infos[f].containing) : S.projects[p].dirty,
         NEW T, T = [S EXCEPT !.infos = [S.infos EXCEPT ![f] = Nil]]
  PROVE  /\ Good(T) /\ Shows(T, B) /\ T.openFiles = S.openFiles
         /\ T.projects = S.projects /\ \A g \in Files \ {f} : T.infos[g] = S.infos[g]
<1>1. S \in States /\ Sound(S)
  BY DEF Good, Sound
<1>2. /\ T \in States /\ T.openFiles = S.openFiles /\ T.docs = S.docs /\ T.projects = S.projects /\ T.panic = S.panic
      /\ \A g \in Files : T.infos[g] = IF g = f THEN Nil ELSE S.infos[g]
  BY <1>1 DEF States
<1>3. InferredRoots(T) = InferredRoots(S) /\ \A p \in Projects : Held(T, p) = Held(S, p)
  BY <1>2 DEF InferredRoots, Held
<1>4. Sound(T)
  <2>1. \A g \in Files : T.infos[g] # Nil => \A p \in ToSet(T.infos[g].containing) : T.projects[p] # Nil
    <3> SUFFICES ASSUME NEW g \in Files, T.infos[g] # Nil, NEW p \in ToSet(T.infos[g].containing)
                 PROVE  T.projects[p] # Nil
      OBVIOUS
    <3>1. T.infos[g] = S.infos[g]
      BY <1>2
    <3> QED BY <1>1, <1>2, <3>1 DEF Sound
  <2>2. ASSUME NEW g \in InferredRoots(T)
        PROVE  g \in T.openFiles /\ T.infos[g] # Nil /\ Inferred \in ToSet(T.infos[g].containing)
    <3>1. g \in S.openFiles /\ S.infos[g] # Nil /\ Inferred \in ToSet(S.infos[g].containing)
      BY <1>1, <1>3, <2>2 DEF Sound
    <3>2. g \in Files /\ g # f
      BY <1>1, <3>1, RootsAreOpen
    <3> QED BY <1>2, <3>1, <3>2
  <2> QED BY <1>1, <1>2, <2>1, <2>2 DEF Sound
<1>5. Shows(T, B)
  BY <1>2 DEF Shows
<1>6. Fresh(T)
  BY <1>1, FreshDrop DEF Good
<1> QED BY <1>2, <1>3, <1>4, <1>5, <1>6, FreshGood DEF SameDocs

\* What the other files belong to stays, and what contained f is dirty too.
Forgotten(S, f, T) ==
  /\ T.openFiles = S.openFiles
  /\ \A p \in Projects : S.projects[p] # Nil =>
        /\ T.projects[p] # Nil
        /\ S.projects[p].dirty \/ p \in ToSet(S.infos[f].containing) => T.projects[p].dirty
  /\ AllOpen(S) =>
        /\ InferredRoots(S) \subseteq InferredRoots(T)
        /\ \A g \in S.openFiles : Inferred \in ToSet(S.infos[g].containing) =>
              T.infos[g] # Nil /\ Inferred \in ToSet(T.infos[g].containing)

\* handleDeletedFile, after the updates
LEMMA ForgetFacts ==
  ASSUME NEW S, Good(S), NEW f \in Files, S.infos[f] # Nil, f \notin S.openFiles, NEW B, Shows(S, B), B[f] = Nil
  PROVE  LET T == Forget(S, f) IN Good(T) /\ Shows(T, B) /\ T.openFiles = S.openFiles /\ Forgotten(S, f, T)
<1> DEFINE R == FoldLeft(LAMBDA U, p : RemoveFile(U, p, f, FALSE), S, S.infos[f].containing)
           v == S.infos[f].version
           U == [R EXCEPT !.lastVersions = [R.lastVersions EXCEPT ![f] = v]]
           T == [U EXCEPT !.infos = [U.infos EXCEPT ![f] = Nil]]
<1>1. /\ Sound(R) /\ Calm(S, R) /\ R.infos = S.infos
      /\ \A p \in ToSet(S.infos[f].containing) : R.projects[p].dirty
      /\ \A p \in Projects : S.projects[p] # Nil /\ S.projects[p].dirty => R.projects[p].dirty
  BY EachRemoveFacts DEF Good
<1>2. Forget(S, f) = [R EXCEPT !.infos[f] = Nil, !.lastVersions[f] = v]
  BY DEF Forget
<1> HIDE DEF R
<1>3. Good(R) /\ Shows(R, B) /\ R.openFiles = S.openFiles
  BY <1>1, CalmGood, CalmGrows, GrowsShows, StillThere
<1>4. Forget(S, f) = T
  BY <1>1, <1>2 DEF Sound, States
<1>5. v \in Nat \cup {Nil}
  BY InfoFacts DEF Good, InfoRecords
<1>6. U = [R EXCEPT !.lastVersions = [R.lastVersions EXCEPT ![f] = v]]
  OBVIOUS
<1> HIDE DEF U
<1>7. Sound(U) /\ Calm(R, U) /\ U.infos = S.infos /\ U.projects = R.projects
  <2>1. R.infos[f] # Nil
    BY <1>1
  <2> HIDE DEF v
  <2> QED BY <1>1, <1>5, <1>6, <2>1, SetVersion
<1>8. U.lastVersions[f] = v
  BY <1>1, <1>6 DEF Sound, States
<1>9. Good(U) /\ Shows(U, B) /\ U.openFiles = S.openFiles
  BY <1>3, <1>7, CalmGood, CalmGrows, GrowsShows, StillThere
<1>10. /\ f \notin U.openFiles /\ U.infos[f] # Nil /\ U.lastVersions[f] = U.infos[f].version
       /\ \A p \in ToSet(U.infos[f].containing) : U.projects[p].dirty
  BY <1>1, <1>7, <1>8, <1>9
<1>11. T = [U EXCEPT !.infos = [U.infos EXCEPT ![f] = Nil]]
  OBVIOUS
<1> HIDE DEF T, v
<1>12. Good(T) /\ Shows(T, B) /\ T.openFiles = S.openFiles
  <2>1. Good(T)
    BY <1>9, <1>10, <1>11, DropInfo
  <2>2. Shows(T, B)
    BY <1>9, <1>10, <1>11, DropInfo
  <2>3. T.openFiles = S.openFiles
    BY <1>7, <1>9, <1>11 DEF Sound, States
  <2> QED BY <2>1, <2>2, <2>3
<1>13. T.projects = R.projects /\ \A g \in Files \ {f} : T.infos[g] = U.infos[g]
  <2>1. T.projects = U.projects /\ \A g \in Files \ {f} : T.infos[g] = U.infos[g]
    BY <1>9, <1>10, <1>11, DropInfo
  <2> QED BY <1>7, <2>1
<1>14. Grows(S, U)
  BY <1>1, <1>7, CalmGrows, GrowsTransitive
<1>15. Forgotten(S, f, T)
  <2>1. ASSUME NEW p \in Projects, S.projects[p] # Nil
        PROVE  /\ T.projects[p] # Nil
               /\ S.projects[p].dirty \/ p \in ToSet(S.infos[f].containing) => T.projects[p].dirty
    BY <1>1, <1>13, <2>1, CalmGrows, StillThere
  <2>2. ASSUME AllOpen(S)
        PROVE  /\ InferredRoots(S) \subseteq InferredRoots(T)
               /\ \A g \in S.openFiles : Inferred \in ToSet(S.infos[g].containing) =>
                     T.infos[g] # Nil /\ Inferred \in ToSet(T.infos[g].containing)
    <3>1. /\ AllOpen(U) /\ InferredRoots(S) \subseteq InferredRoots(U)
          /\ \A g \in S.openFiles :
                Inferred \in ToSet(S.infos[g].containing) => Inferred \in ToSet(U.infos[g].containing)
      BY <1>14, <2>2, OpenStay DEF Good
    <3>2. InferredRoots(T) = InferredRoots(U)
      BY <1>7, <1>13 DEF InferredRoots
    <3>3. \A g \in S.openFiles : T.infos[g] = U.infos[g] /\ U.infos[g] # Nil
      BY <1>9, <1>13, <3>1, RootsAreOpen DEF AllOpen, Good
    <3> QED BY <3>1, <3>2, <3>3
  <2> QED BY <1>12, <2>1, <2>2 DEF Forgotten
<1> QED BY <1>4, <1>12, <1>15

\* handleDeletedFile: what is left is noticed, as the update marks the project that the file was of.
LEMMA DeleteInfoFacts ==
  ASSUME NEW S, Good(S), NEW f \in Files, S.infos[f] # Nil, f \notin S.openFiles, NEW B, Shows(S, B), B[f] = Nil,
         AllOpen(S), Noticed(S), disk \in [Files -> Texts \cup {Nil}]
  PROVE  LET T == DeleteInfo(S, f)
         IN  Good(T) /\ Shows(T, B) /\ T.openFiles = S.openFiles /\ (Panicked(T) \/ Noticed(T))
<1> DEFINE E == EachContaining(S, f, UpdateChanged)
           F == Forget(E, f)
           T == DeleteInfo(S, f)
<1>1. Good(E) /\ Keeps(S, E) /\ (S.infos[f].containing = <<>> => E = S)
  BY EachChangeFacts
<1>2. T = IF Panicked(E) THEN E ELSE F
  BY DEF DeleteInfo, Then
<1> HIDE DEF E
<1>3. Shows(E, B) /\ E.openFiles = S.openFiles /\ E.infos[f] # Nil
  BY <1>1, KeepsGrows, GrowsShows, StillThere
<1>4. Good(F) /\ Shows(F, B) /\ F.openFiles = E.openFiles /\ Forgotten(E, f, F)
  BY <1>1, <1>3, ForgetFacts
<1> HIDE DEF F, T
<1>5. Noticed(F)
  <2> SUFFICES ASSUME Alone(F)
               PROVE  /\ \A g \in F.openFiles : F.infos[g] # Nil /\ Inferred \in ToSet(F.infos[g].containing)
                      /\ F.openFiles # {} => InferredRoots(F) # {} \/ F.projects[Inferred].dirty
    BY DEF Noticed
  <2>1. Grows(S, E) /\ Sound(S)
    BY <1>1, KeepsGrows DEF Good
  <2>2. Alone(E)
    BY <1>4 DEF Alone, Forgotten, Projects
  <2>3. Alone(S)
    BY <2>1, <2>2, AloneBack
  <2>4. /\ \A g \in S.openFiles : S.infos[g] # Nil /\ Inferred \in ToSet(S.infos[g].containing)
        /\ S.openFiles # {} => InferredRoots(S) # {} \/ S.projects[Inferred].dirty
    BY <2>3 DEF Noticed
  <2>5. /\ AllOpen(E) /\ InferredRoots(S) \subseteq InferredRoots(E)
        /\ \A g \in S.openFiles :
              Inferred \in ToSet(S.infos[g].containing) => Inferred \in ToSet(E.infos[g].containing)
    BY <2>1, OpenStay
  <2>6. /\ InferredRoots(E) \subseteq InferredRoots(F)
        /\ \A g \in E.openFiles : Inferred \in ToSet(E.infos[g].containing) =>
              F.infos[g] # Nil /\ Inferred \in ToSet(F.infos[g].containing)
    BY <1>4, <2>5 DEF Forgotten
  <2>7. ASSUME S.openFiles # {}, S.projects[Inferred].dirty PROVE F.projects[Inferred].dirty
    <3>1. Inferred \in Projects /\ S.projects[Inferred] # Nil
      <4>1. PICK g \in S.openFiles : TRUE
        BY <2>7
      <4>2. g \in Files /\ S.infos[g] # Nil /\ Inferred \in ToSet(S.infos[g].containing)
        BY <2>1, <2>4, RootsAreOpen
      <4> QED BY <2>1, <4>2 DEF Sound, Projects
    <3>2. E.projects[Inferred] # Nil
      BY <2>1, <3>1, StillThere
    <3>3. CASE Inferred \in ToSet(S.infos[f].containing)
      <4>1. Inferred \in ToSet(E.infos[f].containing)
        BY <2>1, <3>3 DEF Grows, Firm
      <4> QED BY <1>4, <3>1, <3>2, <4>1 DEF Forgotten
    <3>4. CASE Inferred \notin ToSet(S.infos[f].containing)
      <4>1. /\ S.infos[f].containing \in Seq(Projects)
            /\ \A p \in ToSet(S.infos[f].containing) : p \in Projects /\ S.projects[p] # Nil
        BY <2>1, InfoFacts
      <4>2. ToSet(S.infos[f].containing) = {}
        BY <2>3, <3>4, <4>1 DEF Alone, Projects
      <4>3. S.infos[f].containing = <<>>
        <5>1. PICK seq \in Seq(Projects) : seq = S.infos[f].containing
          BY <4>1
        <5>2. seq # <<>> => seq[1] \in ToSet(seq)
          BY DEF ToSet
        <5> QED BY <4>2, <5>1, <5>2
      <4> QED BY <1>1, <1>4, <2>7, <3>1, <4>3 DEF Forgotten
    <3> QED BY <3>3, <3>4
  <2> QED BY <1>3, <1>4, <2>4, <2>5, <2>6, <2>7
<1> QED BY <1>1, <1>2, <1>3, <1>4, <1>5 DEF T

-----------------------------------------------------------------------------
\* An order of a finite set is a sequence of its elements.
LEMMA OrdersFacts ==
  ASSUME NEW X, IsFiniteSet(X), NEW seq \in SetToSeqs(X)
  PROVE  seq \in Seq(X) /\ (X # {} => seq # <<>>)
<1>1. seq \in [1..Cardinality(X) -> X]
  BY DEF SetToSeqs
<1>2. Cardinality(X) \in Nat /\ (Cardinality(X) = 0 <=> X = {})
  BY FS_CardinalityType, FS_EmptySet
<1>3. seq \in Seq(X) /\ Len(seq) = Cardinality(X)
  BY <1>1, <1>2
<1> QED BY <1>2, <1>3

\* A project that there is is updated if it is dirty.
LEMMA UpdateLiveFacts ==
  ASSUME NEW S, Good(S), NEW p \in Projects, disk \in [Files -> Texts \cup {Nil}]
  PROVE  Good(UpdateLive(S, p)) /\ Grows(S, UpdateLive(S, p))
BY UpdateIfDirtyFacts, KeepsReflexive, KeepsGrows DEF UpdateLive

UpdatingLive(c, S, p) == UpdateLive(S, p)
LiveUpdates == INSTANCE FoldInduction WITH step <- UpdatingLive, Inv <- Widens

\* ... and so are all, in any order
LEMMA UpdateAllFacts ==
  ASSUME NEW S, Good(S), NEW order \in Seq(Projects), disk \in [Files -> Texts \cup {Nil}]
  PROVE  LET T == FoldLeft(UpdateLive, S, order) IN Good(T) /\ Grows(S, T)
<1>1. \A k \in Nat : \A T : \A p \in Projects : Widens(S, k, T) => Widens(S, k + 1, UpdatingLive(0, T, p))
  BY UpdateLiveFacts, GrowsTransitive DEF Widens, UpdatingLive
<1>2. Widens(S, 0, S)
  BY KeepsReflexive DEF Widens
<1>3. Widens(S, Len(order), LiveUpdates!Over(0, S, order))
  BY <1>1, <1>2, NaturalInduction, LiveUpdates!LoopKeeps DEF LiveUpdates!Induction
<1>4. FoldLeft(UpdateLive, S, order) = LiveUpdates!Over(0, S, order)
  BY DEF UpdatingLive, FoldLeft, MapThenFoldSet, Max, LiveUpdates!Over, LiveUpdates!IsRun, LiveUpdates!Last
<1> QED BY <1>3, <1>4 DEF Widens

\* ensureProjectForOpenFiles, for a file
LEMMA EnsureOpenFileFacts ==
  ASSUME NEW S, Good(S), NEW f \in Files, S.infos[f] # Nil, f \in S.openFiles, disk \in [Files -> Texts \cup {Nil}]
  PROVE  /\ Good(EnsureOpenFile(S, f)) /\ Grows(S, EnsureOpenFile(S, f))
         /\ S.infos[f].open => Rooted(EnsureOpenFile(S, f))
<1>1. Panicked(S) => EnsureOpenFile(S, f) = S /\ Rooted(S)
  BY DEF EnsureOpenFile, Rooted
<1>2. ~Panicked(S) => EnsureOpenFile(S, f) = AssignIfOrphan(S, f)
  BY DEF EnsureOpenFile
<1>3. \A T : Given(T, f) => Rooted(T)
  BY DEF Given, Rooted
<1> QED BY <1>1, <1>2, <1>3, AssignIfOrphanFacts, KeepsReflexive

Ensuring(c, S, f) == EnsureOpenFile(S, f)
Ensured(S, k, T) == Widens(S, k, T) /\ (k > 0 => Rooted(T))
Ensures == INSTANCE FoldInduction WITH step <- Ensuring, Inv <- Ensured

\* ... and for all open files, in any order
LEMMA EnsureAllFacts ==
  ASSUME NEW S, Good(S), NEW order \in Seq(S.openFiles), AllOpen(S), disk \in [Files -> Texts \cup {Nil}]
  PROVE  LET T == FoldLeft(EnsureOpenFile, S, order) IN Good(T) /\ Grows(S, T) /\ (order # <<>> => Rooted(T))
<1>1. S.openFiles \in SUBSET Files
  BY RootsAreOpen DEF Good
<1>2. \A k \in Nat : \A T : \A f \in S.openFiles : Ensured(S, k, T) => Ensured(S, k + 1, Ensuring(0, T, f))
  <2> SUFFICES ASSUME NEW k \in Nat, NEW T, NEW f \in S.openFiles, Good(T), Grows(S, T)
               PROVE  /\ Good(EnsureOpenFile(T, f)) /\ Grows(S, EnsureOpenFile(T, f))
                      /\ Rooted(EnsureOpenFile(T, f))
    BY DEF Ensured, Widens, Ensuring
  <2>1. f \in T.openFiles /\ f \in Files
    BY <1>1, StillThere
  <2>2. T.infos[f] # Nil /\ T.infos[f].open
    BY <2>1, OpenStay DEF AllOpen, Good
  <2> QED BY <2>1, <2>2, EnsureOpenFileFacts, GrowsTransitive
<1>3. Ensured(S, 0, S)
  BY KeepsReflexive DEF Ensured, Widens
<1>4. Ensured(S, Len(order), Ensures!Over(0, S, order))
  BY <1>2, <1>3, NaturalInduction, Ensures!LoopKeeps DEF Ensures!Induction
<1>5. FoldLeft(EnsureOpenFile, S, order) = Ensures!Over(0, S, order)
  BY DEF Ensuring, FoldLeft, MapThenFoldSet, Max, Ensures!Over, Ensures!IsRun, Ensures!Last
<1>6. order # <<>> => Len(order) > 0
  OBVIOUS
<1> QED BY <1>4, <1>5, <1>6 DEF Ensured, Widens

AllClean(S) == \A p \in Projects : S.projects[p] # Nil => ~S.projects[p].dirty

\* ensureProjectStructureUpToDate: it does nothing or every open file has a project.
LEMMA EnsureStructureFacts ==
  ASSUME NEW S, Good(S), AllOpen(S),
         NEW configOrder \in Seq(Configs), NEW openOrder \in Seq(S.openFiles), disk \in [Files -> Texts \cup {Nil}]
  PROVE  LET T == EnsureStructure(S, configOrder, openOrder)
         IN  Good(T) /\ Grows(S, T) /\ (openOrder # <<>> => Rooted(T) \/ (T = S /\ AllClean(S)))
<1> DEFINE order == Append(configOrder, Inferred)
           T == FoldLeft(UpdateLive, S, order)
           U == FoldLeft(EnsureOpenFile, T, openOrder)
           V == UpdateLive(U, Inferred)
           E == EnsureStructure(S, configOrder, openOrder)
<1>1. order \in Seq(Projects) /\ Inferred \in Projects
  <2>1. Configs \cup {Inferred} = Projects
    BY DEF Projects
  <2> QED BY <2>1, AppendFacts
<1>2. E = IF AllClean(S) THEN S ELSE IF Panicked(T) THEN T ELSE V
  BY DEF EnsureStructure, Then, AllClean
<1> HIDE DEF order, E
<1>3. Good(T) /\ Grows(S, T)
  BY <1>1, UpdateAllFacts
<1> HIDE DEF T
<1>4. T.openFiles = S.openFiles /\ AllOpen(T)
  BY <1>3, OpenStay, StillThere DEF Good
<1>5. Good(U) /\ Grows(T, U) /\ (openOrder # <<>> => Rooted(U))
  <2>1. openOrder \in Seq(T.openFiles)
    BY <1>4
  <2> QED BY <1>3, <1>4, <2>1, EnsureAllFacts
<1> HIDE DEF U
<1>6. Good(V) /\ Grows(U, V)
  BY <1>1, <1>5, UpdateLiveFacts
<1> HIDE DEF V
<1>7. Grows(S, V) /\ Grows(S, S)
  BY <1>3, <1>5, <1>6, GrowsTransitive, KeepsReflexive
<1>8. openOrder # <<>> => Rooted(V)
  <2>1. AllOpen(U)
    BY <1>3, <1>4, <1>5, OpenStay DEF Good
  <2> QED BY <1>5, <1>6, <2>1, RootedStays DEF Good
<1>9. Panicked(T) => Rooted(T)
  BY DEF Rooted
<1>10. CASE AllClean(S)
  <2>1. E = S
    BY <1>2, <1>10
  <2> QED BY <1>7, <1>10, <2>1 DEF E
<1>11. CASE ~AllClean(S) /\ Panicked(T)
  <2>1. E = T
    BY <1>2, <1>11
  <2> QED BY <1>3, <1>9, <1>11, <2>1 DEF E
<1>12. CASE ~AllClean(S) /\ ~Panicked(T)
  <2>1. E = V
    BY <1>2, <1>12
  <2> QED BY <1>6, <1>7, <1>8, <2>1 DEF E
<1> QED BY <1>10, <1>11, <1>12

\* The default project of a file is one that contains it or the one of its nearest config.
LEMMA DefaultProjectFacts ==
  ASSUME NEW S, Good(S), NEW f \in Files, S.infos[f] # Nil, DefaultProject(S, f) # Nil
  PROVE  DefaultProject(S, f) \in Projects /\ S.projects[DefaultProject(S, f)] # Nil
<1> DEFINE containing == S.infos[f].containing
           configured == Select(containing, Configs)
           c == ConfigOf[f]
           known == IF c # Nil /\ config[c] # Nil /\ S.projects[c] # Nil THEN c ELSE Nil
           asked == \E i \in 1..Len(containing) - 1 : containing[i] \in Configs
           D == DefaultProject(S, f)
<1>1. containing \in Seq(Projects) /\ \A p \in ToSet(containing) : p \in Projects /\ S.projects[p] # Nil
  BY InfoFacts DEF Good
<1>2. D = IF Len(containing) = 0 THEN Nil
          ELSE IF Len(containing) = 1 THEN containing[1]
          ELSE IF asked /\ known # Nil THEN known
          ELSE IF configured # <<>> THEN configured[1]
          ELSE containing[1]
  BY DEF DefaultProject
<1>3. configured \in Seq(Configs \cap ToSet(containing))
  <2> HIDE DEF containing
  <2> QED BY <1>1, SelectFacts
<1>4. known # Nil => known \in Projects /\ S.projects[known] # Nil
  BY DEF Configs, Projects
<1>5. Len(containing) # 0 => containing[1] \in ToSet(containing)
  <2> HIDE DEF containing
  <2> QED BY <1>1 DEF ToSet
<1>6. configured # <<>> => configured[1] \in ToSet(containing)
  <2> HIDE DEF configured, containing
  <2> QED BY <1>3
<1> HIDE DEF containing, configured, known, asked, D
<1>7. D \in Projects /\ S.projects[D] # Nil
  <2>1. D # Nil
    BY DEF D
  <2> QED BY <1>1, <1>2, <1>4, <1>5, <1>6, <2>1
<1> QED BY <1>7 DEF D

\* getProgramAndFile
LEMMA GetProgramAndFileFacts ==
  ASSUME NEW S, Good(S), NEW p \in Projects, S.projects[p] # Nil, NEW f \in Files, disk \in [Files -> Texts \cup {Nil}]
  PROVE  LET T == GetProgramAndFile(S, p, f) IN Good(T) /\ Grows(S, T)
<1> DEFINE U == UpdateIfDirty(S, p)
           V == Panic(U, "file not found")
<1>1. Good(U) /\ Grows(S, U)
  BY UpdateIfDirtyFacts, KeepsGrows
<1>2. GetProgramAndFile(S, p, f) = IF Panicked(U) THEN U ELSE IF f \in DOMAIN U.projects[p].program THEN U ELSE V
  BY DEF GetProgramAndFile, Then
<1> HIDE DEF U
<1>3. Sound(V) /\ Calm(U, V)
  BY <1>1, PanicFacts DEF Good
<1> HIDE DEF V
<1>4. Good(V) /\ Grows(S, V)
  BY <1>1, <1>3, CalmGood, CalmGrows, GrowsTransitive
<1> QED BY <1>1, <1>2, <1>4

-----------------------------------------------------------------------------
\* A handler that leaves a good state leaves it, or what there was before with a panic.
LEMMA Becomes ==
  ASSUME Good(Service), NEW S, Good(S), Become(S)
  PROVE  /\ Good(Service') /\ panic' = S.panic
         /\ IF Panicked(S) THEN Alike(Service, Service') ELSE Service' = S
<1>1. S \in States /\ Service \in States /\ Sound(S) /\ Sound(Service) /\ Counted(Service)
  BY DEF Good, Sound
<1>2. panic' = S.panic
  BY DEF Become
<1>3. CASE Panicked(S)
  <2>1. PICK T : T = [Service EXCEPT !.panic = S.panic]
    OBVIOUS
  <2>2. Service' = T
    BY <1>2, <1>3, <2>1 DEF Become, Service
  <2>3. T \in States /\ T.panic = S.panic /\ T.infos = Service.infos /\ T.openFiles = Service.openFiles
    BY <1>1, <2>1 DEF States
  <2>4. T.projects = Service.projects /\ T.docs = Service.docs /\ T.lastVersions = Service.lastVersions
    BY <1>1, <2>1 DEF States
  <2>5. PICK U : U = Service
    OBVIOUS
  <2>6. Sound(T)
    BY <1>1, <2>3, <2>4, <2>5 DEF Sound, InferredRoots
  <2>7. SameDocs(U, T)
    BY <2>4, <2>5 DEF SameDocs, Held
  <2>9. Fresh(T)
    <3>1. Fresh(U)
      BY <2>5 DEF Good
    <3> QED BY <2>3, <2>4, <2>5, <3>1, FreshAlike DEF Version
  <2>8. Good(T)
    BY <2>5, <2>6, <2>7, <2>9, FreshGood
  <2>10. Alike(U, T)
    BY <2>3, <2>4, <2>5 DEF Alike, InferredRoots
  <2> QED BY <1>2, <1>3, <2>2, <2>5, <2>8, <2>10
<1>4. CASE ~Panicked(S)
  <2>1. Service' = S
    BY <1>1, <1>4 DEF Become, Service, States
  <2>2. PICK T : T = Service'
    OBVIOUS
  <2>3. T = S /\ Good(T)
    BY <2>1, <2>2
  <2> QED BY <1>2, <1>4, <2>2, <2>3
<1> QED BY <1>3, <1>4

World == /\ disk \in [Files -> Texts \cup {Nil}]
         /\ config \in [Configs -> ConfigTexts \cup {Nil}]
         /\ buffer \in [Files -> Texts \cup {Nil}]

\* ... so that the invariant holds if the state left serves the client, or the server panicked.
LEMMA Serves ==
  ASSUME IInv, NEW S, Good(S), Become(S), World',
         ~Panicked(S) => /\ S.openFiles = {f \in Files : buffer'[f] # Nil} /\ Shows(S, buffer')
                         /\ Noticed(S)
  PROVE  IInv'
<1>1. PICK T : T = Service'
  OBVIOUS
<1>6. PICK U : U = Service
  OBVIOUS
<1>2. Good(T) /\ panic' = S.panic /\ IF Panicked(S) THEN Alike(U, T) ELSE T = S
  BY <1>1, <1>6, Becomes DEF IInv, Good
<1>3. TypeOK'
  BY <1>1, <1>2 DEF World, TypeOK, Good, Sound
<1>4. Sound(Service)' /\ Counted(Service)' /\ Fresh(Service)'
  BY <1>1, <1>2 DEF Good
<1>7. Noticed(Service)'
  <2>1. Sound(U) /\ Noticed(U)
    BY <1>6 DEF IInv
  <2>2. Noticed(T)
    BY <1>2, <2>1, AlikeNoticed
  <2> QED BY <1>1, <2>2
<1>5. ClientTextIsServed'
  <2> SUFFICES ASSUME panic' = "none"
               PROVE  /\ openFiles' = {f \in Files : buffer'[f] # Nil}
                      /\ \A f \in openFiles' : infos'[f] # Nil /\ infos'[f].open /\ infos'[f].text = buffer'[f]
                      /\ \A f \in Files \ openFiles' : infos'[f] # Nil => ~infos'[f].open
    BY DEF ClientTextIsServed
  <2>1. T = S /\ S.openFiles = {f \in Files : buffer'[f] # Nil} /\ Shows(S, buffer')
    BY <1>2 DEF Panicked
  <2>2. openFiles' = S.openFiles /\ infos' = S.infos
    BY <1>1, <2>1 DEF Service
  <2> QED BY <2>1, <2>2 DEF Shows
<1> QED BY <1>3, <1>4, <1>5, <1>7 DEF IInv

\* What the invariant says while the server is alive.
LEMMA Now ==
  ASSUME IInv, panic = "none"
  PROVE  /\ Good(Service) /\ Noticed(Service) /\ World /\ Shows(Service, buffer)
         /\ Service.openFiles = {f \in Files : buffer[f] # Nil} /\ AllOpen(Service)
         /\ \A f \in Files : buffer[f] # Nil => Service.infos[f] # Nil /\ infos[f] # Nil
<1>1. Good(Service) /\ Noticed(Service) /\ World
  BY DEF IInv, Good, TypeOK, World
<1>2. /\ openFiles = {f \in Files : buffer[f] # Nil}
      /\ \A f \in openFiles : infos[f] # Nil /\ infos[f].open /\ infos[f].text = buffer[f]
      /\ \A f \in Files \ openFiles : infos[f] # Nil => ~infos[f].open
  BY DEF IInv, ClientTextIsServed
<1>3. Service.openFiles = openFiles /\ Service.infos = infos
  BY DEF Service
<1>4. Shows(Service, buffer)
  <2> SUFFICES ASSUME NEW f \in Files
               PROVE  IF buffer[f] = Nil THEN infos[f] # Nil => ~infos[f].open
                      ELSE infos[f] # Nil /\ infos[f].open /\ infos[f].text = buffer[f]
    BY <1>3, Zenon DEF Shows
  <2> QED BY <1>2
<1>5. AllOpen(Service)
  BY <1>2, <1>3 DEF AllOpen
<1> QED BY <1>1, <1>2, <1>3, <1>4, <1>5

\* The maps that a handler ranges over are finite.
LEMMA FiniteFiles == IsFiniteSet(Files)
<1>1. IsFiniteSet(1..Len(FileOrder)) /\ DOMAIN FileOrder = 1..Len(FileOrder)
  BY FS_Interval, ServiceAssumption
<1>2. FileOrder \in [1..Len(FileOrder) -> Files] /\ Files = {FileOrder[i] : i \in 1..Len(FileOrder)}
  BY <1>1, ServiceAssumption DEF Files, ToSet
<1> QED BY <1>1, <1>2, FiniteValues

\* ... and so are the configured projects
LEMMA FiniteConfigs == IsFiniteSet(Configs)
BY FiniteProjects, FS_Subset DEF Projects

-----------------------------------------------------------------------------
\* What the service has open is what the client has.
LEMMA ShowsOpen ==
  ASSUME NEW S, NEW B, Shows(S, B), S.openFiles = {f \in Files : B[f] # Nil}
  PROVE  AllOpen(S)
BY DEF Shows, AllOpen

\* A handler ends in a state in which the inferred project has roots and the open files, which had it
\* or got it.
LEMMA RootedNoticed ==
  ASSUME NEW S, Sound(S), AllOpen(S), NEW T, Grows(S, T), Rooted(T), ~Panicked(T),
         Alone(T) => \A g \in S.openFiles : \/ Inferred \in ToSet(S.infos[g].containing)
                                           \/ Inferred \in ToSet(T.infos[g].containing)
  PROVE  Noticed(T)
<1>1. T.openFiles = S.openFiles
  BY StillThere
<1>2. AllOpen(T) /\ \A g \in S.openFiles :
         Inferred \in ToSet(S.infos[g].containing) => Inferred \in ToSet(T.infos[g].containing)
  BY OpenStay
<1> QED BY <1>1, <1>2 DEF Rooted, AllOpen, Noticed

\* The handlers keep the invariant.
LEMMA OpenFileKeeps ==
  ASSUME IInv, NEW f \in Files, NEW text \in Texts, OpenFile(f, text)
  PROVE  IInv'
<1> DEFINE created == Create(Service, f, Blank)
           known == IF infos[f] # Nil THEN Service ELSE [created EXCEPT !.infos[f].matches = FALSE]
           opened == OpenInfo(known, f, text)
           B == [buffer EXCEPT ![f] = text]
           added == [opened EXCEPT !.openFiles = @ \cup {f}]
           end == AssignProject(added, f)
<1>1. /\ panic = "none" /\ buffer[f] = Nil /\ Become(end) /\ buffer' = B /\ disk' = disk /\ config' = config
  BY Zenon DEF OpenFile, Running
<1>2. /\ Good(Service) /\ Noticed(Service) /\ World /\ Shows(Service, buffer)
      /\ Service.openFiles = {g \in Files : buffer[g] # Nil}
  BY <1>1, Now
<1>3. text # Nil /\ B \in [Files -> Texts \cup {Nil}] /\ \A g \in Files : B[g] = IF g = f THEN text ELSE buffer[g]
  BY <1>2, ServiceAssumption DEF World
<1>4. /\ Good(known) /\ Shows(known, buffer) /\ known.infos[f] # Nil /\ known.openFiles = Service.openFiles
      /\ Noticed(known)
  <2>1. CASE infos[f] # Nil
    BY <1>2, <2>1 DEF Service
  <2>2. CASE infos[f] = Nil
    <3>1. PICK C : C = created
      OBVIOUS
    <3>2. PICK S : S = Service
      OBVIOUS
    <3>3. S.infos[f] = Nil /\ Sound(S)
      BY <1>2, <2>2, <3>2 DEF Service, Good
    <3>4. /\ Sound(C) /\ Calm(S, C) /\ C.infos[f] = NewInfo(S, f, Blank) /\ C.infos[f] # Nil
          /\ C.projects = S.projects /\ \A g \in Files \ {f} : C.infos[g] = S.infos[g]
      BY <3>1, <3>2, <3>3, CreateFacts
    <3>5. Good(C) /\ Shows(C, buffer) /\ C.openFiles = S.openFiles
      BY <1>2, <3>2, <3>4, CalmGood, CalmGrows, GrowsShows, StillThere
    <3>6. PICK i : i = [C.infos[f] EXCEPT !.matches = FALSE]
      OBVIOUS
    <3>7. C.infos[f] \in InfoRecords /\ ~C.infos[f].open
      BY <3>4, InfoFacts DEF NewInfo
    <3>8. /\ i \in InfoRecords /\ i.containing = C.infos[f].containing /\ ~i.open
          /\ i.text = C.infos[f].text /\ i.version = C.infos[f].version
      BY <3>6, <3>7 DEF InfoRecords
    <3>9. PICK T : T = [C EXCEPT !.infos = [C.infos EXCEPT ![f] = i]]
      OBVIOUS
    <3>10. buffer = [buffer EXCEPT ![f] = Nil] /\ buffer \in [Files -> Texts \cup {Nil}]
      BY <1>1, <1>2 DEF World
    <3>13. PICK B0 : B0 = buffer
      OBVIOUS
    <3>14. B0 \in [Files -> Texts \cup {Nil}] /\ B0 = [B0 EXCEPT ![f] = Nil] /\ Shows(C, B0)
      BY <3>5, <3>10, <3>13
    <3>15. Nil \in Texts \cup {Nil} /\ IF Nil = Nil THEN ~i.open ELSE i.open /\ i.text = Nil
      BY <3>8
    <3>16. Shown(C, f, i, B0, T)
      BY <3>4, <3>5, <3>8, <3>9, <3>14, <3>15, ShowInfo
    <3>17. Good(T) /\ Shows(T, B0)
      BY <3>5, <3>8, <3>16 DEF Shown
    <3>11. Good(T) /\ Shows(T, buffer) /\ T.infos[f] # Nil /\ T.openFiles = C.openFiles
      <4>1. T.openFiles = C.openFiles /\ T.infos[f] = i
        BY <3>5, <3>9 DEF Good, Sound, States
      <4>2. i # Nil
        BY <3>8, ServiceAssumption
      <4> QED BY <3>13, <3>17, <4>1, <4>2
    <3>12. known = T
      BY <2>2, <3>1, <3>6, <3>9
    <3>18. Noticed(T)
      <4>1. Alike(S, C)
        BY <3>3, <3>4, <3>5 DEF Alike, InferredRoots
      <4>2. Noticed(C)
        BY <1>2, <3>2, <3>3, <4>1, AlikeNoticed
      <4> QED BY <3>4, <3>16, <4>2, AlikeNoticed DEF Shown
    <3> QED BY <3>2, <3>5, <3>11, <3>12, <3>18
  <2> QED BY <2>1, <2>2
<1> HIDE DEF known, created, B
<1>5. /\ Good(opened) /\ Shows(opened, B) /\ opened.infos[f] # Nil /\ opened.openFiles = known.openFiles
      /\ InferredRoots(opened) \subseteq known.openFiles /\ Noticed(opened)
  <2>1. PICK A : A = buffer
    OBVIOUS
  <2>2. A \in [Files -> Texts \cup {Nil}] /\ Good(known) /\ Shows(known, A) /\ known.infos[f] # Nil
    BY <1>2, <1>4, <2>1 DEF World
  <2>3. PICK o : o = opened
    OBVIOUS
  <2>4. Good(o) /\ Shows(o, [A EXCEPT ![f] = text])
    BY <2>2, <2>3, OpenInfoFacts
  <2>5. /\ o.infos[f] # Nil /\ o.openFiles = known.openFiles /\ InferredRoots(o) \subseteq known.openFiles
        /\ Noticed(known) => Noticed(o)
    BY <2>2, <2>3, OpenInfoFacts
  <2> QED BY <1>4, <2>1, <2>3, <2>4, <2>5 DEF B
<1> HIDE DEF opened
<1>6. PICK O : O = opened.openFiles \cup {f}
  OBVIOUS
<1>7. O \in SUBSET Files /\ InferredRoots(opened) \subseteq O /\ O = {g \in Files : B[g] # Nil}
  BY <1>2, <1>3, <1>4, <1>5, <1>6
<1>8. added = [opened EXCEPT !.openFiles = O]
  BY <1>6
<1> HIDE DEF added
<1>9. Good(added) /\ added.openFiles = O /\ added.infos = opened.infos /\ added.projects = opened.projects
  BY <1>5, <1>7, <1>8, SetOpen
<1>10. Shows(added, B)
  BY <1>5, <1>9 DEF Shows
<1>11. /\ added.infos[f] # Nil /\ f \in added.openFiles /\ disk \in [Files -> Texts \cup {Nil}]
       /\ AllOpen(added) /\ added.infos[f].open
  <2>1. AllOpen(added)
    BY <1>7, <1>9, <1>10, ShowsOpen
  <2> QED BY <1>2, <1>5, <1>6, <1>9, <2>1 DEF World, AllOpen
<1>12. Good(end) /\ Grows(added, end) /\ (Panicked(end) \/ Given(end, f))
  BY <1>9, <1>11, AssignProjectFacts
<1> HIDE DEF end
<1>13. Shows(end, B) /\ end.openFiles = O
  BY <1>9, <1>10, <1>12, GrowsShows, StillThere
<1>14. World'
  BY <1>1, <1>2, <1>3 DEF World
<1>15. ~Panicked(end) => Noticed(end)
  <2> SUFFICES ASSUME ~Panicked(end) PROVE Noticed(end)
    OBVIOUS
  <2>1. Rooted(end)
    BY <1>12 DEF Given, Rooted
  <2>2. ASSUME Alone(end), NEW g \in added.openFiles
        PROVE  Inferred \in ToSet(added.infos[g].containing) \/ Inferred \in ToSet(end.infos[g].containing)
    <3>1. CASE g = f
      BY <1>12, <2>2, <3>1 DEF Given
    <3>2. CASE g # f
      <4>1. Alone(opened)
        BY <1>9, <1>12, <2>2, AloneBack DEF Alone
      <4> QED BY <1>5, <1>6, <1>9, <2>2, <3>2, <4>1 DEF Noticed
    <3> QED BY <3>1, <3>2
  <2> QED BY <1>9, <1>11, <1>12, <2>1, <2>2, RootedNoticed DEF Good
<1> QED BY <1>1, <1>7, <1>12, <1>13, <1>14, <1>15, Serves

\* didChange
LEMMA ChangeFileKeeps ==
  ASSUME IInv, NEW f \in Files, NEW text \in Texts, ChangeFile(f, text)
  PROVE  IInv'
<1> DEFINE set == [Service EXCEPT !.infos[f] = SetText(infos[f], text)]
           B == [buffer EXCEPT ![f] = text]
           end == MarkContainingDirty(set, f)
<1>1. panic = "none" /\ buffer[f] # Nil
  BY Zenon DEF ChangeFile, Running
<1>2. /\ Good(Service) /\ Noticed(Service) /\ World /\ Shows(Service, buffer) /\ Service.infos[f] # Nil /\ infos[f] # Nil
      /\ Service.openFiles = {g \in Files : buffer[g] # Nil}
  BY <1>1, Now
<1>3. Become(end) /\ buffer' = B /\ disk' = disk /\ config' = config
  BY <1>2 DEF ChangeFile
<1>4. text # Nil /\ B \in [Files -> Texts \cup {Nil}] /\ \A g \in Files : B[g] = IF g = f THEN text ELSE buffer[g]
  BY <1>2, ServiceAssumption DEF World
<1>5. Good(end) /\ Shows(end, B) /\ end.openFiles = Service.openFiles /\ Noticed(end)
  <2>1. PICK S : S = Service
    OBVIOUS
  <2>2. PICK i : i = SetText(infos[f], text)
    OBVIOUS
  <2>3. infos[f] \in InfoRecords /\ infos[f].open /\ infos[f] = S.infos[f]
    BY <1>1, <1>2, <2>1, InfoFacts DEF Good, Shows, Service
  <2>4. /\ i \in InfoRecords /\ i.containing = S.infos[f].containing /\ i.open /\ i.text = text
        /\ i.version = S.infos[f].version + 1
    <3>1. PICK I : I = infos[f]
      OBVIOUS
    <3>2. I \in InfoRecords /\ I.open /\ i = [I EXCEPT !.text = text, !.version = I.version + 1]
      BY <2>2, <2>3, <3>1 DEF SetText
    <3>3. i.containing = I.containing /\ i.open = I.open
      BY <3>2 DEF InfoRecords
    <3>4. i.text = text /\ i.version = I.version + 1
      BY <3>2 DEF InfoRecords
    <3>5. i \in InfoRecords
      <4>1. I.version + 1 \in Nat /\ text \in Texts \cup {Blank}
        BY <3>2 DEF InfoRecords
      <4> QED BY <3>2, <4>1 DEF InfoRecords
    <3> QED BY <2>3, <3>1, <3>2, <3>3, <3>4, <3>5
  <2>5. PICK U : U = [S EXCEPT !.infos = [S.infos EXCEPT ![f] = i]]
    OBVIOUS
  <2>6. PICK A : A = buffer
    OBVIOUS
  <2>7. A \in [Files -> Texts \cup {Nil}] /\ Shows(S, A) /\ B = [A EXCEPT ![f] = text]
    BY <1>2, <2>1, <2>6 DEF World
  <2> HIDE DEF B
  <2>8. Good(S) /\ S.infos[f] # Nil /\ IF text = Nil THEN ~i.open ELSE i.open /\ i.text = text
    BY <1>2, <1>4, <2>1, <2>4
  <2>9. PICK M : M = MarkContainingDirty(U, f)
    OBVIOUS
  <2>10. Good(M) /\ Shows(M, B)
    BY <2>4, <2>5, <2>7, <2>8, <2>9, ShowChange
  <2>11. M.openFiles = S.openFiles /\ (Noticed(S) => Noticed(M))
    BY <2>4, <2>5, <2>7, <2>8, <2>9, ShowChange
  <2>12. set = U
    BY <2>1, <2>2, <2>5
  <2> QED BY <1>2, <2>1, <2>9, <2>10, <2>11, <2>12
<1> HIDE DEF set, B, end
<1>6. Good(end)
  BY <1>5
<1>7. Noticed(end) /\ Shows(end, B) /\ end.openFiles = {g \in Files : B[g] # Nil}
  BY <1>1, <1>2, <1>4, <1>5
<1>8. World'
  BY <1>2, <1>3, <1>4 DEF World
<1> QED BY <1>3, <1>6, <1>7, <1>8, Serves

\* didSave: the text on the disk is the one the info has, so nothing is set.
LEMMA SaveFileKeeps ==
  ASSUME IInv, NEW f \in Files, SaveFile(f)
  PROVE  IInv'
<1> DEFINE saved == [SetText(infos[f], buffer[f]) EXCEPT !.matches = TRUE]
           end == IF infos[f] = Nil \/ infos[f].text = buffer[f] THEN Service
                  ELSE [Service EXCEPT !.infos[f] = saved]
<1>1. /\ panic = "none" /\ buffer[f] # Nil /\ Become(end)
      /\ disk' = [disk EXCEPT ![f] = buffer[f]] /\ buffer' = buffer /\ config' = config
  BY Zenon DEF SaveFile, Running
<1>2. /\ Good(Service) /\ Noticed(Service) /\ World /\ Shows(Service, buffer) /\ Service.infos[f] # Nil
      /\ Service.openFiles = {g \in Files : buffer[g] # Nil}
  BY <1>1, Now
<1>3. Good(end) /\ Noticed(end) /\ Shows(end, buffer) /\ end.openFiles = Service.openFiles
  <2>1. infos[f].text = buffer[f]
    BY <1>1, <1>2 DEF Shows, Service
  <2> QED BY <1>2, <2>1
<1> HIDE DEF end
<1>4. World'
  BY <1>1, <1>2 DEF World
<1> QED BY <1>1, <1>2, <1>3, <1>4, Serves

\* didClose: f is no root any more before it leaves the open files.
LEMMA CloseFileKeeps ==
  ASSUME IInv, NEW f \in Files, CloseFile(f)
  PROVE  IInv'
<1> DEFINE exists == disk[f] # Nil
           closed == CloseInfo(Service, f, exists)
           left == EachContaining(closed, f, LAMBDA U, p : Leave(U, p, f))
           removed == [left EXCEPT !.openFiles = @ \ {f}]
           B == [buffer EXCEPT ![f] = Nil]
           end == IF Panicked(left) THEN left ELSE IF exists THEN removed ELSE DeleteInfo(removed, f)
<1>1. panic = "none" /\ buffer[f] # Nil
  BY Zenon DEF CloseFile, Running
<1>2. /\ Good(Service) /\ Noticed(Service) /\ World /\ Shows(Service, buffer) /\ Service.infos[f] # Nil /\ infos[f] # Nil
      /\ Service.openFiles = {g \in Files : buffer[g] # Nil}
  BY <1>1, Now
<1>3. Become(end) /\ buffer' = B /\ disk' = disk /\ config' = config
  BY <1>2 DEF CloseFile, Then
<1>4. B \in [Files -> Texts \cup {Nil}] /\ \A g \in Files : B[g] = IF g = f THEN Nil ELSE buffer[g]
  BY <1>2 DEF World
<1>5. /\ Good(closed) /\ Shows(closed, B) /\ closed.infos[f] # Nil /\ closed.openFiles = Service.openFiles
      /\ Noticed(closed)
  BY <1>2, CloseInfoFacts DEF World
<1> HIDE DEF closed, B
<1>6. /\ Good(left) /\ Keeps(closed, left) /\ (Panicked(left) \/ f \notin InferredRoots(left))
      /\ left = closed \/ Panicked(left) \/ left.projects[Inferred].dirty
  <2>1. f \in closed.openFiles /\ ~closed.infos[f].open
    BY <1>1, <1>2, <1>4, <1>5 DEF Shows
  <2> QED BY <1>5, <2>1, EachLeaveFacts
<1> HIDE DEF left
<1>7. Shows(left, B) /\ left.openFiles = Service.openFiles /\ left.infos[f] # Nil
  BY <1>5, <1>6, KeepsGrows, GrowsShows, StillThere
<1>8. World'
  BY <1>2, <1>3, <1>4 DEF World
<1>9. CASE Panicked(left)
  BY <1>3, <1>6, <1>8, <1>9, Serves
<1>10. CASE ~Panicked(left)
  <2>1. PICK O : O = left.openFiles \ {f}
    OBVIOUS
  <2>2. O \in SUBSET Files /\ O = {g \in Files : B[g] # Nil} /\ f \notin O
    BY <1>2, <1>4, <1>7, <2>1
  <2>3. InferredRoots(left) \subseteq O
    BY <1>6, <1>10, <2>1, RootsAreOpen DEF Good
  <2>4. removed = [left EXCEPT !.openFiles = O]
    BY <2>1
  <2> HIDE DEF removed
  <2>5. /\ Good(removed) /\ removed.openFiles = O /\ removed.infos = left.infos
        /\ removed.projects = left.projects /\ InferredRoots(removed) = InferredRoots(left)
    BY <1>6, <2>2, <2>3, <2>4, SetOpen
  <2>6. Shows(removed, B)
    BY <1>7, <2>5 DEF Shows
  <2>9. AllOpen(removed)
    BY <2>2, <2>5, <2>6, ShowsOpen
  <2>10. Noticed(removed)
    <3> SUFFICES ASSUME Alone(removed)
                 PROVE  /\ \A g \in O : left.infos[g] # Nil /\ Inferred \in ToSet(left.infos[g].containing)
                        /\ O # {} => InferredRoots(left) # {} \/ left.projects[Inferred].dirty
      BY <2>5 DEF Noticed
    <3>1. Alone(closed)
      <4>1. Alone(left)
        BY <2>5 DEF Alone, Projects
      <4> QED BY <1>6, <4>1, KeepsGrows, AloneBack
    <3>2. /\ \A g \in closed.openFiles : closed.infos[g] # Nil /\ Inferred \in ToSet(closed.infos[g].containing)
          /\ closed.openFiles # {} => InferredRoots(closed) # {} \/ closed.projects[Inferred].dirty
      BY <1>5, <3>1 DEF Noticed
    <3>3. ASSUME NEW g \in O
          PROVE  left.infos[g] # Nil /\ Inferred \in ToSet(left.infos[g].containing)
      <4>1. g \in Files /\ g \in closed.openFiles /\ B[g] # Nil
        BY <1>5, <1>7, <2>1, <2>2
      <4>2. closed.infos[g] # Nil /\ closed.infos[g].open
        BY <1>5, <4>1 DEF Shows
      <4>3. Firm(closed, left)
        BY <1>6 DEF Keeps, Grows
      <4>4. left.infos[g] # Nil
        BY <1>6, <4>1, <4>2, KeepsGrows, StillThere
      <4> QED BY <3>2, <4>1, <4>2, <4>3, <4>4 DEF Firm
    <3>4. O # {} => closed.openFiles # {}
      BY <1>5, <1>7, <2>1
    <3> QED BY <1>6, <1>10, <3>2, <3>3, <3>4
  <2>7. CASE exists
    <3>1. end = removed
      BY <1>10, <2>7
    <3> QED BY <1>3, <1>8, <2>2, <2>5, <2>6, <2>10, <3>1, Serves
  <2>8. CASE ~exists
    <3>1. end = DeleteInfo(removed, f)
      BY <1>10, <2>8
    <3>2. removed.infos[f] # Nil /\ f \notin removed.openFiles /\ B[f] = Nil /\ disk \in [Files -> Texts \cup {Nil}]
      BY <1>2, <1>4, <1>7, <2>2, <2>5 DEF World
    <3>3. PICK A : A = B
      OBVIOUS
    <3>4. Good(end) /\ Shows(end, A) /\ end.openFiles = O /\ (Panicked(end) \/ Noticed(end))
      BY <2>5, <2>6, <2>9, <2>10, <3>1, <3>2, <3>3, DeleteInfoFacts
    <3> HIDE DEF end
    <3> QED BY <1>3, <1>8, <2>2, <3>3, <3>4, Serves
  <2> QED BY <2>7, <2>8
<1> QED BY <1>9, <1>10

\* A language feature: the orders of Go's maps are taken as they come.
LEMMA RequestKeeps ==
  ASSUME IInv, NEW f \in Files, Request(f)
  PROVE  IInv'
<1>1. panic = "none" /\ buffer[f] # Nil /\ UNCHANGED world
  BY Zenon DEF Request, Running
<1>2. /\ Good(Service) /\ Noticed(Service) /\ AllOpen(Service) /\ World /\ Shows(Service, buffer)
      /\ Service.infos[f] # Nil /\ f \in Service.openFiles
      /\ Service.openFiles = {g \in Files : buffer[g] # Nil}
      /\ \A g \in Files : buffer[g] # Nil => Service.infos[g] # Nil
  BY <1>1, Now
<1> DEFINE settled == infos[f] # Nil /\ ~IsOrphan(Service, f)
           ensured(a, b) == IF settled THEN Service ELSE EnsureStructure(Service, a, b)
           answer(S) == IF S.infos[f] = Nil THEN Panic(S, "not attached")
                        ELSE IF DefaultProject(S, f) = Nil THEN Panic(S, "not attached")
                        ELSE GetProgramAndFile(S, DefaultProject(S, f), f)
<1>3. PICK configOrder \in SetToSeqs(Configs), openOrder \in SetToSeqs(openFiles) :
           Become(IF Panicked(ensured(configOrder, openOrder)) THEN ensured(configOrder, openOrder)
                  ELSE answer(ensured(configOrder, openOrder)))
  BY DEF Request, Then
<1> DEFINE S == ensured(configOrder, openOrder)
           end == IF Panicked(S) THEN S ELSE answer(S)
<1>4. Good(S) /\ Grows(Service, S) /\ Rooted(S)
  <2>1. CASE settled
    <3>1. S = Service
      BY <2>1
    <3>2. PICK K : K = Service
      OBVIOUS
    <3>3. Good(K) /\ K.infos[f] # Nil /\ ~IsOrphan(K, f)
      BY <1>2, <2>1, <3>2
    <3>4. Given(K, f)
      BY <3>3, NoOrphan DEF Good
    <3> HIDE DEF S
    <3> QED BY <3>1, <3>2, <3>3, <3>4, KeepsReflexive DEF Given, Rooted
  <2>2. CASE ~settled
    <3>1. openFiles \in SUBSET Files /\ Service.openFiles = openFiles
      BY <1>2, RootsAreOpen DEF Good, Service
    <3>2. IsFiniteSet(openFiles)
      BY <3>1, FiniteFiles, FS_Subset
    <3>3. configOrder \in Seq(Configs) /\ openOrder \in Seq(Service.openFiles)
      BY <3>1, <3>2, FiniteConfigs, OrdersFacts
    <3>4. openOrder # <<>>
      BY <1>2, <3>1, <3>2, OrdersFacts
    <3>5. S = EnsureStructure(Service, configOrder, openOrder)
      BY <2>2
    <3> HIDE DEF S
    <3>6. PICK K : K = Service
      OBVIOUS
    <3>7. Good(S) /\ Grows(K, S) /\ (Rooted(S) \/ (S = K /\ AllClean(K)))
      BY <1>2, <3>3, <3>4, <3>5, <3>6, EnsureStructureFacts DEF World
    <3>8. AllClean(K) => Rooted(K)
      <4>1. Noticed(K) /\ Sound(K) /\ K.infos[f] # Nil /\ f \in K.openFiles
        BY <1>2, <3>6 DEF Good
      <4>2. Alone(K) => K.projects[Inferred] # Nil
        BY <4>1 DEF Noticed, Sound
      <4> QED BY <4>1, <4>2 DEF Noticed, Rooted, AllClean, Projects
    <3> QED BY <3>6, <3>7, <3>8
  <2> QED BY <2>1, <2>2
<1> HIDE DEF ensured
<1>5. PICK R : R = S
  OBVIOUS
<1>6. Good(answer(R)) /\ Grows(R, answer(R))
  <2>1. PICK T : T = Panic(R, "not attached")
    OBVIOUS
  <2>2. Good(R) /\ Sound(R) /\ Sound(T) /\ Calm(R, T)
    BY <1>4, <1>5, <2>1, PanicFacts DEF Good
  <2>3. Good(T) /\ Grows(R, T)
    BY <2>2, CalmGood, CalmGrows
  <2>4. CASE R.infos[f] = Nil \/ DefaultProject(R, f) = Nil
    BY <2>1, <2>3, <2>4
  <2>5. CASE R.infos[f] # Nil /\ DefaultProject(R, f) # Nil
    <3>1. PICK p : p = DefaultProject(R, f)
      OBVIOUS
    <3>2. p \in Projects /\ R.projects[p] # Nil
      BY <2>2, <2>5, <3>1, DefaultProjectFacts
    <3>3. PICK U : U = GetProgramAndFile(R, p, f)
      OBVIOUS
    <3>4. Good(U) /\ Grows(R, U)
      BY <1>2, <2>2, <3>2, <3>3, GetProgramAndFileFacts DEF World
    <3>5. answer(R) = U
      BY <2>5, <3>1, <3>3
    <3> QED BY <3>4, <3>5
  <2> QED BY <2>4, <2>5
<1>7. Good(end) /\ Grows(Service, end) /\ Rooted(end)
  <2>1. CASE Panicked(S)
    BY <1>4, <2>1
  <2>2. CASE ~Panicked(S)
    <3>1. end = answer(R)
      BY <1>5, <2>2
    <3> HIDE DEF end, answer, S
    <3>2. PICK K : K = Service
      OBVIOUS
    <3>3. Good(end) /\ Grows(K, end)
      BY <1>4, <1>5, <1>6, <3>1, <3>2, GrowsTransitive
    <3>4. AllOpen(R) /\ Sound(R) /\ Rooted(R)
      BY <1>2, <1>4, <1>5, <3>2, OpenStay DEF Good
    <3> QED BY <1>6, <3>1, <3>2, <3>3, <3>4, RootedStays
  <2> QED BY <2>1, <2>2
<1>8. Become(end)
  BY <1>3
<1> HIDE DEF end
<1>9. World' /\ buffer' = buffer
  BY <1>1, <1>2 DEF World, world
<1>10. Shows(end, buffer) /\ end.openFiles = Service.openFiles
  BY <1>2, <1>7, GrowsShows, StillThere
<1>11. ~Panicked(end) => Noticed(end)
  <2>1. PICK K : K = Service
    OBVIOUS
  <2>2. Sound(K) /\ AllOpen(K) /\ Noticed(K) /\ Grows(K, end)
    BY <1>2, <1>7, <2>1 DEF Good
  <2>3. Alone(end) => \A g \in K.openFiles : Inferred \in ToSet(K.infos[g].containing)
    BY <2>2, AloneBack DEF Noticed
  <2> QED BY <1>7, <2>2, <2>3, RootedNoticed
<1> QED BY <1>2, <1>7, <1>8, <1>9, <1>10, <1>11, Serves

\* The disk and the configs change without the service.
LEMMA OutsideKeeps ==
  ASSUME IInv, Outside \/ UNCHANGED vars
  PROVE  IInv'
<1>1. UNCHANGED service /\ UNCHANGED buffer
  BY DEF Outside, DiskChange, ConfigChange, vars, world
<1>2. disk' \in [Files -> Texts \cup {Nil}]
  BY DEF Outside, DiskChange, ConfigChange, vars, world, IInv, TypeOK
<1>3. config' \in [Configs -> ConfigTexts \cup {Nil}]
  BY DEF Outside, DiskChange, ConfigChange, vars, world, IInv, TypeOK
<1>4. Service' = Service
  BY <1>1 DEF service, Service
<1>5. TypeOK'
  BY <1>1, <1>2, <1>3, <1>4 DEF IInv, TypeOK
<1>6. Sound(Service)' /\ Counted(Service)' /\ Fresh(Service)' /\ Noticed(Service)'
  BY <1>4 DEF IInv
<1>7. ClientTextIsServed'
  BY <1>1 DEF IInv, ClientTextIsServed, service
<1> QED BY <1>5, <1>6, <1>7 DEF IInv

-----------------------------------------------------------------------------
\* Nothing is open and nothing is loaded when the server begins.
LEMMA BeginsSound == Init => IInv
<1> SUFFICES ASSUME Init PROVE IInv
  OBVIOUS
<1>1. Service \in States
  BY DEF Init, Service, States, Panics
<1>2. TypeOK
  BY <1>1 DEF Init, TypeOK
<1>3. InferredRoots(Service) = {} /\ \A p \in Projects : Held(Service, p) = {}
  BY DEF Init, Service, InferredRoots, Held, Projects
<1>4. Sound(Service)
  BY <1>1, <1>3 DEF Sound, Init, Service
<1>5. Counted(Service)
  <2>1. \A f \in Files : ProgramsWith(Service, f) = {} /\ Refs(Service, f) = 0
    BY <1>3 DEF Init, Service, ProgramsWith, Refs
  <2> QED BY <2>1, FS_EmptySet DEF Counted
<1>6. ClientTextIsServed
  BY DEF Init, ClientTextIsServed
<1>7. Fresh(Service)
  <2>1. \A f \in Files : VersionedAt(Service, f)
    BY <1>3 DEF VersionedAt, Init, Service
  <2>2. \A p \in Projects : Current(Service, p)
    BY DEF Current, Init, Service
  <2> QED BY <2>1, <2>2, FreshParts
<1>8. Noticed(Service)
  BY DEF Noticed, Init, Service
<1> QED BY <1>2, <1>4, <1>5, <1>6, <1>7, <1>8 DEF IInv

\* What every handler keeps, whatever the disk says when it looks: a file belongs to projects that
\* there are, the roots of the inferred project are open files that belong to it, a document has one
\* reference for each program that has its file, a clean project's program is what the infos say, a
\* version names one text of a file, and what the client has open is served.
THEOREM ServiceInvariant == Spec => []IInv
<1>1. IInv /\ [Next]_vars => IInv'
  <2> SUFFICES ASSUME IInv, [Next]_vars PROVE IInv'
    OBVIOUS
  <2>1. CASE Handler
    <3>1. PICK f \in Files : \/ \E text \in Texts : OpenFile(f, text) \/ ChangeFile(f, text)
                             \/ SaveFile(f)
                             \/ CloseFile(f)
                             \/ Request(f)
      BY <2>1, Zenon DEF Handler
    <3> QED BY <3>1, OpenFileKeeps, ChangeFileKeeps, SaveFileKeeps, CloseFileKeeps, RequestKeeps
  <2>2. CASE Outside \/ UNCHANGED vars
    BY <2>2, OutsideKeeps
  <2> QED BY <2>1, <2>2 DEF Next
<1> QED BY BeginsSound, <1>1, PTL DEF Spec

\* The state of the service is what its fields may hold (service.go, scriptinfo.go, project.go).
THEOREM ServiceTypeOK == Spec => []TypeOK
<1>1. IInv => TypeOK
  BY DEF IInv
<1> QED BY <1>1, ServiceInvariant, PTL

\* ScriptInfo.open, SetText and close: a file that the client has open is open in the service, with
\* the client's text, for every client, disk and order of the handlers.
THEOREM ClientTextServed == Spec => []ClientTextIsServed
<1>1. IInv => ClientTextIsServed
  BY DEF IInv
<1> QED BY <1>1, ServiceInvariant, PTL

\* DocumentRegistry: AcquireDocument and ReleaseDocument are called once for each file that enters
\* and leaves a program, also when a handler panics half way, so that no document is dropped while a
\* program has it and none is kept for good.
THEOREM DocumentsCounted == Spec => []DocumentsAreCounted
<1>1. IInv => DocumentsAreCounted
  <2> SUFFICES ASSUME IInv, NEW f \in Files
               PROVE  IF ProgramsWith(Service, f) = {} THEN docs[f] = Nil
                      ELSE docs[f] # Nil /\ docs[f].refs = Cardinality(ProgramsWith(Service, f))
    BY DEF DocumentsAreCounted, ProgramsWith, ProgramFiles
  <2>1. /\ Refs(Service, f) = Cardinality(ProgramsWith(Service, f))
        /\ Refs(Service, f) = IF docs[f] = Nil THEN 0 ELSE docs[f].refs
        /\ docs[f] # Nil => docs[f].refs # 0
    <3>1. docs[f] \in DocumentRecords \cup {Nil}
      BY DEF IInv, TypeOK, Service, States
    <3>2. docs[f] # Nil => docs[f].refs # 0
      BY <3>1 DEF DocumentRecords
    <3> QED BY <3>2 DEF IInv, Counted, Refs, Service
  <2>2. IsFiniteSet(ProgramsWith(Service, f))
    BY FiniteProjects, FS_Subset DEF ProgramsWith
  <2>3. Cardinality(ProgramsWith(Service, f)) = 0 <=> ProgramsWith(Service, f) = {}
    BY <2>2, FS_EmptySet
  <2> QED BY <2>1, <2>3
<1> QED BY <1>1, ServiceInvariant, PTL

\* assignOrphanScriptInfoToInferredProject and CloseFile: the roots of the inferred project are open
\* files that belong to it, so that addRoot's "already a root" and ensureProjectForOpenFiles's
\* "script info not found" are never reached.
THEOREM InferredRootsOpen == Spec => []InferredRootsAreOpen
<1>1. IInv => InferredRootsAreOpen
  <2> SUFFICES ASSUME IInv PROVE InferredRootsAreOpen
    OBVIOUS
  <2>1. Sound(Service)
    BY DEF IInv
  <2>2. panic \notin {"already a root", "script info not found"}
    BY <2>1 DEF Sound, Service
  <2>3. ASSUME Live(Inferred), NEW f \in ToSet(projects[Inferred].roots)
        PROVE  f \in openFiles /\ infos[f] # Nil /\ Inferred \in ToSet(infos[f].containing)
    <3>1. f \in InferredRoots(Service)
      BY <2>3 DEF Live, Service, InferredRoots
    <3> QED BY <2>1, <3>1 DEF Sound, Service
  <2> QED BY <2>2, <2>3 DEF InferredRootsAreOpen
<1> QED BY <1>1, ServiceInvariant, PTL

\* markContainingProjectsAsDirty, removeFile, addRoot and updateGraph: whenever a file or the roots
\* of a project change, the project is marked, so that one that is not dirty has the program that the
\* infos give, in every order of the handlers and whatever else changes the disk.
THEOREM CleanProgramsCurrent == Spec => []CleanProgramIsCurrent
<1>1. IInv => CleanProgramIsCurrent
  <2> SUFFICES ASSUME IInv, NEW p \in Projects, Live(p) /\ ~projects[p].dirty
               PROVE  UpToDate(Service, p)
    BY DEF CleanProgramIsCurrent, UpToDate, ProgramFiles, Service
  <2> QED BY DEF IInv, Fresh, Current, Live, Service
<1> QED BY <1>1, ServiceInvariant, PTL

\* CloseFile, handleDeletedFile and ensureProjectForOpenFiles: while no config is loaded, an open file
\* that no project has any more is one that a dirty project tells the next request of.
THEOREM OrphansNoticed == Spec => []OrphansAreNoticed
<1>1. IInv => OrphansAreNoticed
  <2> SUFFICES ASSUME IInv, panic = "none", \A c \in Configs : ~Live(c), NEW f \in openFiles, IsOrphan(Service, f)
               PROVE  Live(Inferred) /\ projects[Inferred].dirty
    BY DEF OrphansAreNoticed, Projects
  <2>1. PICK S : S = Service
    OBVIOUS
  <2>2. /\ Sound(S) /\ Noticed(S) /\ Alone(S) /\ f \in S.openFiles /\ IsOrphan(S, f)
        /\ S.projects = projects /\ S.openFiles = openFiles
    BY <2>1 DEF IInv, Alone, Live, Service
  <2>3. /\ f \in Files /\ S.infos[f] # Nil /\ Inferred \in ToSet(S.infos[f].containing)
        /\ InferredRoots(S) # {} \/ S.projects[Inferred].dirty
    BY <2>2, RootsAreOpen DEF Noticed
  <2>4. S.projects[Inferred] # Nil
    BY <2>2, <2>3 DEF Sound
  <2>5. S.projects[Inferred].roots = <<>>
    BY <2>2, <2>3 DEF IsOrphan
  <2>6. InferredRoots(S) = {}
    BY <2>5 DEF InferredRoots, ToSet
  <2> QED BY <2>2, <2>3, <2>4, <2>6 DEF Live
<1> QED BY <1>1, ServiceInvariant, PTL

\* SetText, NewScriptInfo and the registry: versions of a file only grow, over the deletion of its
\* info too, so that the document found by its version has the text that is wanted.
THEOREM VersionsIdentifyText == Spec => []VersionIdentifiesText
<1>1. IInv => VersionIdentifiesText
  <2> SUFFICES ASSUME IInv, NEW f \in Files, infos[f] # Nil
               PROVE  /\ docs[f] # Nil /\ docs[f].source.version = infos[f].version =>
                           docs[f].source.text = infos[f].text
                      /\ \A p \in Projects : f \in Held(Service, p) =>
                            projects[p].program[f].version <= infos[f].version
    BY DEF VersionIdentifiesText, ProgramFiles
  <2>1. VersionedAt(Service, f)
    BY FreshParts DEF IInv
  <2>2. Version(Service, f) = infos[f].version
    BY DEF Version, Service
  <2> QED BY <2>1, <2>2 DEF VersionedAt, Service
<1> QED BY <1>1, ServiceInvariant, PTL
=============================================================================
