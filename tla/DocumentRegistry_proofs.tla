------------------------ MODULE DocumentRegistry_proofs ------------------------
(***************************************************************************)
(* The reference counts of project.DocumentRegistry when its calls come    *)
(* one at a time and script infos have the kind of the file parsed         *)
(* (Sequential), for any programs, options, entries and number of edits.   *)
(***************************************************************************)
EXTENDS DocumentRegistry, FiniteSetTheorems, TLAPS

\* The references to a key are finitely many, so they can be counted.
LEMMA ReferencesFinite ==
  ASSUME NEW k \in Keys
  PROVE  IsFiniteSet(References(k)) /\ Cardinality(References(k)) \in Nat
<1>1. IsFiniteSet(HoldersOf(k)) /\ IsFiniteSet({h \in Holders : pc[h] \in Releasing /\ key[h] = k})
  BY RegistryAssumption, FS_Subset DEF HoldersOf
<1>2. IsFiniteSet({"held"}) /\ IsFiniteSet({"new"})
  BY FS_Singleton
<1>3. IsFiniteSet(References(k))
  BY <1>1, <1>2, FS_Product, FS_Union DEF References
<1> QED BY <1>3, FS_CardinalityType

\* What makes a reference, one holder at a time.
LEMMA ReferenceMembers ==
  ASSUME NEW k \in Keys
  PROVE  /\ References(k) \subseteq Holders \X {"held", "new"}
         /\ \A h \in Holders :
              /\ <<h, "held">> \in References(k) <=> held[h] # Nil /\ held[h].key = k
              /\ <<h, "new">> \in References(k) <=> pc[h] \in Releasing /\ key[h] = k
BY DEF References, HoldersOf

\* A key without references is held by no program, in a state and in the next.
LEMMA HeldAreReferences ==
  ASSUME NEW k \in Keys
  PROVE  /\ References(k) = {} => HoldersOf(k) = {}
         /\ References(k)' = {} => HoldersOf(k)' = {}
<1>1. \A H, R : H \X {"held"} \subseteq R /\ R = {} => H = {}
  <2> TAKE H, R
  <2> SUFFICES ASSUME NEW h \in H, H \X {"held"} \subseteq R, R = {} PROVE FALSE
    OBVIOUS
  <2>1. <<h, "held">> \in H \X {"held"}
    OBVIOUS
  <2> QED BY <2>1
<1>2. HoldersOf(k) \X {"held"} \subseteq References(k)
  BY DEF References
<1>3. HoldersOf(k)' \X {"held"} \subseteq References(k)'
  BY DEF References
<1> QED BY <1>1, <1>2, <1>3

\* While a call runs, no other program is inside one.
LEMMA OthersIdle ==
  ASSUME IInv, NEW h \in Holders, pc[h] # "idle"
  PROVE  \A g \in Holders : g # h => pc[g] = "idle" /\ key[g] = Nil
BY DEF IInv, OneCall, Knows

\* When a call may start no program is inside one.
LEMMA AllIdle ==
  ASSUME Sequential, IInv, NEW h \in Holders, MayStart(h)
  PROVE  \A g \in Holders : pc[g] = "idle" /\ key[g] = Nil
BY DEF Sequential, MayStart, IInv, Knows

\* A step of one call keeps what the other, idle, programs know.
LEMMA OnlyOneMoves ==
  ASSUME NEW h \in Holders,
         \A g \in Holders : g # h => /\ pc[g] = "idle" /\ key[g] = Nil
                                     /\ pc'[g] = pc[g] /\ key'[g] = key[g],
         Knows(h)', Current(h)'
  PROVE  OneCall' /\ \A g \in Holders : Knows(g)' /\ Current(g)'
<1>1. OneCall'
  BY DEF OneCall
<1>2. ASSUME NEW g \in Holders PROVE Knows(g)' /\ Current(g)'
  <2>1. CASE g = h
    BY <2>1
  <2>2. CASE g # h
    <3>1. pc'[g] = "idle" /\ key'[g] = Nil
      BY <2>2
    <3> QED BY <3>1 DEF Knows, Current, Releasing
  <2> QED BY <2>1, <2>2
<1> QED BY <1>1, <1>2

\* A step that neither ends nor completes an acquisition leaves the references.
LEMMA SameReferences ==
  ASSUME held' = held,
         \A h \in Holders : \A k \in Keys :
             (pc'[h] \in Releasing /\ key'[h] = k) <=> (pc[h] \in Releasing /\ key[h] = k)
  PROVE  \A k \in Keys : References(k)' = References(k)
<1> TAKE k \in Keys
<1>1. HoldersOf(k)' = HoldersOf(k)
  BY DEF HoldersOf
<1>2. {h \in Holders : pc[h] \in Releasing /\ key[h] = k}'
        = {h \in Holders : pc[h] \in Releasing /\ key[h] = k}
  OBVIOUS
<1> QED BY <1>1, <1>2 DEF References

-----------------------------------------------------------------------------
\* The registry starts empty.
LEMMA InitIInv == Init => IInv
<1> SUFFICES ASSUME Init PROVE IInv
  OBVIOUS
<1> USE RegistryAssumption DEF Init
<1>1. TypeOK
  BY DEF TypeOK, Versions
<1>2. OneCall /\ Distinct
  BY DEF OneCall, Distinct
<1>3. \A h \in Holders : Knows(h) /\ Current(h)
  BY DEF Knows, Current, Releasing
<1>4. Counted
  <2> SUFFICES ASSUME NEW k \in Keys PROVE documents[k] = Nil /\ References(k) = {}
    BY DEF Counted
  <2>1. References(k) = {}
    BY DEF References, HoldersOf, Releasing
  <2> QED BY <2>1
<1> QED BY <1>1, <1>2, <1>3, <1>4 DEF IInv

\* An edit happens between calls.
LEMMA ChangeTextIInv ==
  ASSUME IInv, ChangeText
  PROVE  IInv'
<1> USE DEF ChangeText, registry, locals
<1>1. TypeOK'
  BY RegistryAssumption DEF IInv, TypeOK, Versions
<1>2. OneCall' /\ Distinct'
  BY DEF IInv, OneCall, Distinct
<1>3. \A h \in Holders : Knows(h)' /\ Current(h)'
  BY DEF IInv, Knows, Current, Releasing
<1>4. \A k \in Keys : References(k)' = References(k)
  BY SameReferences
<1>5. Counted'
  BY <1>4 DEF IInv, Counted
<1> QED BY <1>1, <1>2, <1>3, <1>5 DEF IInv

\* A call that computes its key, or only releases, begins when all is quiet.
LEMMA BeginIInv ==
  ASSUME Sequential, IInv, NEW h \in Holders,
         (\E o \in Options : BeginAcquire(h, o)) \/ BeginRelease(h)
  PROVE  IInv'
<1> USE DEF Goto, registry
<1>1. /\ \A g \in Holders : pc[g] = "idle" /\ key[g] = Nil
      /\ UNCHANGED <<version, registry, held, entry, count, got>>
  BY AllIdle DEF BeginAcquire, BeginRelease
<1>2. PICK place \in {"load", "release"} :
        /\ pc' = [pc EXCEPT ![h] = place]
        /\ place = "release" => held[h] # Nil /\ key' = key
        /\ place = "load" =>
             \E o \in Options : key' = [key EXCEPT ![h] = <<o, InfoKind>>]
  BY DEF BeginAcquire, BeginRelease
<1>3. pc'[h] = place /\ \A g \in Holders : g # h => pc'[g] = pc[g] /\ key'[g] = key[g]
  BY <1>2 DEF IInv, TypeOK
<1>4. /\ place = "release" => key'[h] = Nil
      /\ place = "load" => key'[h] \in Keys /\ key'[h] # Nil /\ key'[h][2] = FileKind
  BY <1>1, <1>2, RegistryAssumption DEF IInv, TypeOK, Keys, Sequential
<1>5. TypeOK'
  BY <1>1, <1>2, <1>4 DEF IInv, TypeOK, Keys
<1>6. Knows(h)' /\ Current(h)'
  BY <1>1, <1>2, <1>3, <1>4 DEF Knows, Current, Releasing
<1>7. OneCall' /\ \A g \in Holders : Knows(g)' /\ Current(g)'
  BY <1>1, <1>3, <1>6, OnlyOneMoves
<1>8. \A k \in Keys : References(k)' = References(k)
  BY <1>1, <1>2, <1>3, <1>4, SameReferences, RegistryAssumption DEF Releasing
<1>9. Distinct' /\ Counted'
  BY <1>1, <1>8 DEF IInv, Distinct, Counted
<1> QED BY <1>5, <1>7, <1>9 DEF IInv

-----------------------------------------------------------------------------
\* A step inside a call that changes neither the map, the counts, the keys nor the
\* documents held, and neither completes nor ends an acquisition.
LEMMA QuietStepIInv ==
  ASSUME IInv, NEW h \in Holders, pc[h] \notin {"idle", "write"},
         UNCHANGED <<documents, refCount, held, key>>,
         \A g \in Holders : g # h => pc'[g] = pc[g],
         pc'[h] \in Releasing <=> pc[h] \in Releasing,
         pc[h] \in {"lockNew", "read"} => pc'[h] \in {"read", "write"},
         TypeOK', Knows(h)', Current(h)'
  PROVE  IInv'
<1>1. \A g \in Holders : g # h => pc[g] = "idle" /\ key[g] = Nil
  BY OthersIdle
<1>2. OneCall' /\ \A g \in Holders : Knows(g)' /\ Current(g)'
  BY <1>1, OnlyOneMoves
<1>3. \A k \in Keys : References(k)' = References(k)
  <2>1. \A g \in Holders : pc'[g] \in Releasing <=> pc[g] \in Releasing
    OBVIOUS
  <2> QED BY <2>1, SameReferences
<1>4. \A g \in Holders : \A k \in Keys :
        pc[g] \in {"lockNew", "read", "write"} /\ key[g] = k =>
            pc'[g] \in {"lockNew", "read", "write"} /\ key'[g] = k
  BY <1>1
<1>5. Counted'
  BY <1>3, <1>4 DEF IInv, Counted
<1>6. Distinct'
  BY DEF IInv, Distinct
<1> QED BY <1>2, <1>5, <1>6 DEF IInv

\* The steps of getDocumentWorker before the count is written.
LEMMA LoadIInv ==
  ASSUME IInv, NEW h \in Holders, Load(h)
  PROVE  IInv'
<1> USE DEF Load, Goto, registry
<1>1. key[h] \in Keys /\ key[h] # Nil
  BY DEF IInv, TypeOK, Knows, Releasing
<1>2. TypeOK'
  BY <1>1 DEF IInv, TypeOK
<1>3. Knows(h)' /\ Current(h)'
  BY <1>1 DEF IInv, TypeOK, Knows, Current, Releasing
<1> QED BY <1>2, <1>3, QuietStepIInv DEF IInv, TypeOK, Releasing

LEMMA CompareIInv ==
  ASSUME IInv, NEW h \in Holders, Compare(h)
  PROVE  IInv'
<1> USE DEF Compare, Goto, registry
<1>1. TypeOK'
  BY DEF IInv, TypeOK
<1>2. Knows(h)' /\ Current(h)'
  BY DEF IInv, TypeOK, Knows, Current, Releasing
<1> QED BY <1>1, <1>2, QuietStepIInv DEF IInv, TypeOK, Releasing

LEMMA LockStaleIInv ==
  ASSUME IInv, NEW h \in Holders, LockStale(h)
  PROVE  IInv'
<1> USE DEF LockStale, Goto
<1>1. entry[h] \in Entries
  BY DEF IInv, TypeOK, Knows
<1>2. TypeOK'
  BY <1>1 DEF IInv, TypeOK
<1>3. Knows(h)' /\ Current(h)'
  BY <1>1 DEF IInv, TypeOK, Knows, Current, Releasing
<1> QED BY <1>2, <1>3, QuietStepIInv DEF IInv, TypeOK, Releasing

LEMMA LockNewIInv ==
  ASSUME IInv, NEW h \in Holders, LockNew(h)
  PROVE  IInv'
<1> USE DEF LockNew, Goto
<1>1. entry[h] \in Entries
  BY DEF IInv, TypeOK, Knows
<1>2. TypeOK'
  BY <1>1 DEF IInv, TypeOK
<1>3. Knows(h)' /\ Current(h)'
  BY <1>1 DEF IInv, TypeOK, Knows, Current, Releasing
<1> QED BY <1>2, <1>3, QuietStepIInv DEF IInv, TypeOK, Releasing

LEMMA ReadCountIInv ==
  ASSUME IInv, NEW h \in Holders, ReadCount(h)
  PROVE  IInv'
<1> USE DEF ReadCount, Goto, registry
<1>1. entry[h] \in Entries
  BY DEF IInv, TypeOK, Knows
<1>2. TypeOK'
  BY <1>1 DEF IInv, TypeOK
<1>3. Knows(h)' /\ Current(h)'
  BY <1>1 DEF IInv, TypeOK, Knows, Current, Releasing
<1> QED BY <1>2, <1>3, QuietStepIInv DEF IInv, TypeOK, Releasing

\* The steps of releaseDocumentWithKey before the count is written.
LEMMA ReleaseLoadIInv ==
  ASSUME IInv, NEW h \in Holders, ReleaseLoad(h)
  PROVE  IInv'
<1> USE DEF ReleaseLoad, Goto, registry
<1>1. held[h].key \in Keys
  BY DEF IInv, TypeOK, Documents
<1>2. TypeOK'
  BY <1>1 DEF IInv, TypeOK
<1>3. Knows(h)' /\ Current(h)'
  BY <1>1 DEF IInv, TypeOK, Knows, Current, Releasing
<1> QED BY <1>2, <1>3, QuietStepIInv DEF IInv, TypeOK, Releasing

LEMMA LockReleaseIInv ==
  ASSUME IInv, NEW h \in Holders, LockRelease(h)
  PROVE  IInv'
<1> USE DEF LockRelease, Goto
<1>1. entry[h] \in Entries
  BY DEF IInv, TypeOK, Knows
<1>2. TypeOK'
  BY <1>1 DEF IInv, TypeOK
<1>3. Knows(h)' /\ Current(h)'
  BY <1>1 DEF IInv, TypeOK, Knows, Current, Releasing
<1> QED BY <1>2, <1>3, QuietStepIInv DEF IInv, TypeOK, Releasing

\* A new entry has no references yet, and the call that made it will count itself.
LEMMA LoadOrStoreIInv ==
  ASSUME IInv, NEW h \in Holders, LoadOrStore(h)
  PROVE  IInv'
<1> USE DEF Goto
<1>1. key[h] \in Keys /\ documents[key[h]] = Nil /\ pc[h] = "store"
  BY DEF LoadOrStore, IInv, TypeOK, Knows, Releasing
<1>2. PICK e \in Entries :
        /\ Unused(e)
        /\ documents' = [documents EXCEPT ![key[h]] = e]
        /\ source' = [source EXCEPT ![e] = version]
        /\ refCount' = [refCount EXCEPT ![e] = 0]
        /\ entry' = [entry EXCEPT ![h] = e]
  BY <1>1 DEF LoadOrStore
<1>3. pc' = [pc EXCEPT ![h] = "lockNew"] /\ UNCHANGED <<version, lock, held, key, count, got>>
  BY DEF LoadOrStore
<1>4. TypeOK'
  BY <1>1, <1>2, <1>3 DEF IInv, TypeOK
<1>5. e # Nil
  BY RegistryAssumption
<1>6. Knows(h)' /\ Current(h)'
  BY <1>1, <1>2, <1>3, <1>5 DEF IInv, TypeOK, Knows, Current, Releasing
<1>7. OneCall' /\ \A g \in Holders : Knows(g)' /\ Current(g)'
  <2>1. \A g \in Holders : g # h => pc[g] = "idle" /\ key[g] = Nil /\ pc'[g] = pc[g] /\ key'[g] = key[g]
    BY <1>1, <1>3, OthersIdle DEF IInv, TypeOK
  <2> QED BY <2>1, <1>6, OnlyOneMoves
<1>8. \A k \in Keys : References(k)' = References(k)
  <2>1. \A g \in Holders : pc'[g] \in Releasing <=> pc[g] \in Releasing
    BY <1>1, <1>3 DEF IInv, TypeOK, Releasing
  <2> QED BY <1>3, <2>1, SameReferences
<1>9. Distinct'
  BY <1>1, <1>2 DEF IInv, TypeOK, Distinct, Unused
<1>10. ASSUME NEW k \in Keys
       PROVE  /\ documents'[k] = Nil => References(k)' = {}
              /\ documents'[k] # Nil => refCount'[documents'[k]] = Cardinality(References(k)')
              /\ documents'[k] # Nil /\ References(k)' = {} =>
                    \E g \in Holders : pc'[g] \in {"lockNew", "read", "write"} /\ key'[g] = k
  <2>1. CASE k = key[h]
    <3>1. documents'[k] = e /\ refCount'[e] = 0
      BY <1>1, <1>2, <2>1 DEF IInv, TypeOK
    <3>2. References(k)' = {}
      BY <1>1, <1>8, <2>1 DEF IInv, Counted
    <3>3. pc'[h] = "lockNew" /\ key'[h] = k
      BY <1>3, <2>1 DEF IInv, TypeOK
    <3> QED BY <1>5, <3>1, <3>2, <3>3, FS_EmptySet
  <2>2. CASE k # key[h]
    <3>1. documents'[k] = documents[k]
      BY <1>2, <2>2 DEF IInv, TypeOK
    <3>2. documents[k] # Nil => refCount'[documents[k]] = refCount[documents[k]]
      BY <1>2 DEF IInv, TypeOK, Unused
    <3>3. \A g \in Holders : pc[g] \in {"lockNew", "read", "write"} /\ key[g] = k =>
              pc'[g] \in {"lockNew", "read", "write"} /\ key'[g] = k
      BY <1>1, <1>3, <2>2 DEF IInv, TypeOK
    <3> QED BY <1>8, <3>1, <3>2, <3>3 DEF IInv, Counted
  <2> QED BY <2>1, <2>2
<1>11. Counted'
  BY <1>10 DEF Counted
<1> QED BY <1>4, <1>7, <1>9, <1>11 DEF IInv

\* The count goes up by the reference that the acquisition makes.
LEMMA WriteCountIInv ==
  ASSUME IInv, NEW h \in Holders, WriteCount(h)
  PROVE  IInv'
<1> DEFINE m == key[h]
<1> DEFINE e == entry[h]
<1> USE DEF WriteCount, Goto
<1>1. /\ m \in Keys /\ m # Nil
      /\ e \in Entries /\ e # Nil /\ e = documents[m]
      /\ count[h] = refCount[e] /\ source[e] = version
  BY DEF IInv, TypeOK, Knows, Current, Releasing
<1>2. TypeOK'
  BY <1>1 DEF IInv, TypeOK, Unlock
<1>3. pc'[h] = "release" /\ got'[h] = version
  BY <1>1 DEF IInv, TypeOK
<1>4. Knows(h)' /\ Current(h)'
  BY <1>1, <1>3 DEF IInv, TypeOK, Knows, Current, Releasing
<1>5. \A g \in Holders : g # h => pc[g] = "idle" /\ key[g] = Nil /\ pc'[g] = pc[g]
  BY OthersIdle DEF IInv, TypeOK
<1>6. OneCall' /\ \A g \in Holders : Knows(g)' /\ Current(g)'
  BY <1>4, <1>5, OnlyOneMoves
<1>7. Distinct'
  BY DEF IInv, Distinct
<1>8. ASSUME NEW k \in Keys
      PROVE  /\ documents'[k] = Nil => References(k)' = {}
             /\ documents'[k] # Nil => /\ refCount'[documents'[k]] = Cardinality(References(k)')
                                       /\ References(k)' # {}
  <2>1. HoldersOf(k)' = HoldersOf(k)
    BY DEF HoldersOf
  <2>2. CASE k = m
    <3>1. References(k)' = References(k) \cup {<<h, "new">>} /\ <<h, "new">> \notin References(k)
      <4>1. {g \in Holders : pc[g] \in Releasing /\ key[g] = k}' = {h}
        BY <1>3, <1>5, <2>2 DEF Releasing
      <4>2. {g \in Holders : pc[g] \in Releasing /\ key[g] = k} = {}
        BY <1>5 DEF Releasing
      <4> QED BY <2>1, <4>1, <4>2 DEF References
    <3>2. Cardinality(References(k)') = Cardinality(References(k)) + 1
      BY <3>1, ReferencesFinite, FS_AddElement
    <3>3. refCount'[e] = refCount[e] + 1
      BY <1>1 DEF IInv, TypeOK
    <3> QED BY <1>1, <2>2, <3>1, <3>2, <3>3 DEF IInv, Counted
  <2>3. CASE k # m
    <3>1. References(k)' = References(k)
      <4>1. {g \in Holders : pc[g] \in Releasing /\ key[g] = k}'
              = {g \in Holders : pc[g] \in Releasing /\ key[g] = k}
        BY <1>3, <1>5, <2>3 DEF Releasing
      <4> QED BY <2>1, <4>1 DEF References
    <3>2. documents[k] # Nil => documents[k] # e
      BY <1>1, <2>3 DEF IInv, Distinct
    <3>3. documents[k] # Nil => refCount'[documents[k]] = refCount[documents[k]]
      BY <3>2, <1>1 DEF IInv, TypeOK
    <3>4. documents[k] # Nil => References(k) # {}
      BY <1>5, <2>3 DEF IInv, Counted
    <3> QED BY <3>1, <3>3, <3>4 DEF IInv, Counted
  <2> QED BY <2>2, <2>3
<1>9. Counted'
  BY <1>8 DEF Counted
<1> QED BY <1>2, <1>6, <1>7, <1>9 DEF IInv

-----------------------------------------------------------------------------
\* The key that Keep gives the document acquired is the one it was acquired with.
LEMMA KeepHeld ==
  ASSUME Sequential, IInv, NEW h \in Holders, pc[h] \in Releasing, Keep(h)
  PROVE  /\ pc' = [pc EXCEPT ![h] = "idle"] /\ key' = [key EXCEPT ![h] = Nil]
         /\ got' = [got EXCEPT ![h] = 0]
         /\ held' \in [Holders -> Documents \cup {Nil}]
         /\ \A g \in Holders : g # h => held'[g] = held[g]
         /\ key[h] = Nil => held'[h] = Nil
         /\ key[h] # Nil => held'[h] # Nil /\ held'[h].key = key[h]
<1> USE DEF Keep, Goto
<1>1. key[h] # Nil => key[h] \in Keys /\ <<key[h][1], FileKind>> = key[h]
  BY DEF IInv, TypeOK, Knows, Keys
<1>2. key[h] # Nil => [key |-> <<key[h][1], FileKind>>, version |-> got[h]] \in Documents
  BY <1>1 DEF IInv, TypeOK, Documents
<1>3. held' \in [Holders -> Documents \cup {Nil}] /\ \A g \in Holders : g # h => held'[g] = held[g]
  BY <1>2 DEF IInv, TypeOK
<1>4. /\ key[h] = Nil => held'[h] = Nil
      /\ key[h] # Nil => held'[h] = [key |-> <<key[h][1], FileKind>>, version |-> got[h]]
  BY DEF IInv, TypeOK
<1>5. key[h] # Nil => held'[h] # Nil /\ held'[h].key = key[h]
  BY <1>1, <1>2, <1>4, RegistryAssumption
<1> QED BY <1>3, <1>4, <1>5

\* When a call ends its references are the document it keeps, if any.
LEMMA ReferencesAfterKeep ==
  ASSUME Sequential, IInv, NEW h \in Holders, pc[h] \in Releasing, Keep(h),
         NEW k \in Keys
  PROVE  References(k)' = (References(k) \ {<<h, "held">>, <<h, "new">>})
                              \cup (IF key[h] = k THEN {<<h, "held">>} ELSE {})
<1>1. /\ \A g \in Holders : pc'[g] \notin Releasing
      /\ \A g \in Holders : g # h => held'[g] = held[g] /\ pc[g] \notin Releasing
      /\ held'[h] # Nil /\ held'[h].key = k <=> key[h] = k
  BY KeepHeld, OthersIdle, RegistryAssumption DEF Releasing, IInv, TypeOK
<1>2. References(k)' = HoldersOf(k)' \X {"held"}
  BY <1>1 DEF References
<1>3. HoldersOf(k)' = (HoldersOf(k) \ {h}) \cup (IF key[h] = k THEN {h} ELSE {})
  BY <1>1 DEF HoldersOf
<1>4. {g \in Holders : pc[g] \in Releasing /\ key[g] = k} \subseteq {h}
  BY <1>1
<1>5. References(k) \ {<<h, "held">>, <<h, "new">>} = (HoldersOf(k) \ {h}) \X {"held"}
  BY <1>4 DEF References
<1> QED BY <1>2, <1>3, <1>5

\* Nothing held, nothing to release: the reference of the acquisition becomes the
\* reference of the document kept.
LEMMA ReleaseNothingIInv ==
  ASSUME Sequential, IInv, NEW h \in Holders, ReleaseNothing(h)
  PROVE  IInv'
<1> USE DEF registry
<1>1. pc[h] = "release" /\ Keep(h) /\ UNCHANGED <<version, registry, entry, count>>
  BY DEF ReleaseNothing
<1>2. held[h] = Nil
  <2> SUFFICES ASSUME held[h] # Nil PROVE FALSE
    OBVIOUS
  <2>1. held[h].key \in Keys /\ documents[held[h].key] = Nil
    BY DEF ReleaseNothing, IInv, TypeOK, Documents
  <2>2. <<h, "held">> \in References(held[h].key)
    BY <2>1, ReferenceMembers
  <2> QED BY <2>1, <2>2 DEF IInv, Counted
<1>3. key[h] \in Keys /\ key[h] # Nil
  BY <1>1, <1>2 DEF IInv, TypeOK, Knows
<1>4. pc' = [pc EXCEPT ![h] = "idle"] /\ key' = [key EXCEPT ![h] = Nil]
  BY <1>1, KeepHeld DEF Releasing
<1>5. TypeOK'
  <2>1. held' \in [Holders -> Documents \cup {Nil}] /\ got' = [got EXCEPT ![h] = 0]
    BY <1>1, KeepHeld DEF Releasing
  <2>2. 0 \in Versions
    BY RegistryAssumption DEF Versions
  <2> QED BY <1>1, <1>4, <2>1, <2>2 DEF IInv, TypeOK
<1>6. pc'[h] = "idle" /\ key'[h] = Nil
  BY <1>4 DEF IInv, TypeOK
<1>7. OneCall' /\ \A g \in Holders : Knows(g)' /\ Current(g)'
  <2>1. Knows(h)' /\ Current(h)'
    BY <1>6 DEF Knows, Current, Releasing
  <2>2. \A g \in Holders : g # h => pc[g] = "idle" /\ key[g] = Nil /\ pc'[g] = pc[g] /\ key'[g] = key[g]
    BY <1>1, <1>4, OthersIdle DEF IInv, TypeOK
  <2> QED BY <2>1, <2>2, OnlyOneMoves
<1>8. \A k \in Keys : documents[k] # Nil => References(k) # {}
  BY <1>1, OthersIdle, RegistryAssumption DEF IInv, Counted
<1>9. ASSUME NEW k \in Keys
      PROVE  /\ Cardinality(References(k)') = Cardinality(References(k))
             /\ References(k)' = {} <=> References(k) = {}
  <2>1. References(k)' = (References(k) \ {<<h, "held">>, <<h, "new">>})
                            \cup (IF key[h] = k THEN {<<h, "held">>} ELSE {})
    BY <1>1, ReferencesAfterKeep DEF Releasing
  <2>2. /\ <<h, "held">> \notin References(k)
        /\ <<h, "new">> \in References(k) <=> key[h] = k
    BY <1>1, <1>2, ReferenceMembers DEF Releasing
  <2>3. CASE key[h] = k
    <3> DEFINE R == References(k) \ {<<h, "new">>}
    <3>1. IsFiniteSet(R) /\ Cardinality(R) = Cardinality(References(k)) - 1
      BY <2>2, <2>3, ReferencesFinite, FS_RemoveElement
    <3>2. References(k)' = R \cup {<<h, "held">>} /\ <<h, "held">> \notin R
      BY <2>1, <2>2, <2>3
    <3>3. Cardinality(R \cup {<<h, "held">>}) = Cardinality(R) + 1
      BY <3>1, <3>2, FS_AddElement
    <3>4. Cardinality(References(k)) \in Nat
      BY ReferencesFinite
    <3> QED BY <2>2, <2>3, <3>1, <3>2, <3>3, <3>4
  <2>4. CASE key[h] # k
    BY <2>1, <2>2, <2>4
  <2> QED BY <2>3, <2>4
<1>10. Distinct' /\ Counted'
  BY <1>1, <1>8, <1>9 DEF IInv, Distinct, Counted
<1> QED BY <1>5, <1>7, <1>10 DEF IInv

\* What a decrement does to the references and to the counts: those of the key
\* released lose one, the others keep their number.
LEMMA DecrementReferences ==
  ASSUME Sequential, IInv, NEW h \in Holders, Decrement(h), NEW k \in Keys
  PROVE  /\ Cardinality(References(k)') =
               IF k = held[h].key THEN Cardinality(References(k)) - 1 ELSE Cardinality(References(k))
         /\ IsFiniteSet(References(k)')
<1>1. pc[h] = "decrement" /\ Keep(h) /\ pc[h] \in Releasing
  BY DEF Decrement, Releasing
<1>2. held[h] # Nil
  BY <1>1 DEF IInv, Knows
<1>3. References(k)' = (References(k) \ {<<h, "held">>, <<h, "new">>})
                          \cup (IF key[h] = k THEN {<<h, "held">>} ELSE {})
  BY <1>1, ReferencesAfterKeep
<1>4. /\ <<h, "held">> \in References(k) <=> held[h].key = k
      /\ <<h, "new">> \in References(k) <=> key[h] = k
  BY <1>1, <1>2, ReferenceMembers
<1>5. IsFiniteSet(References(k)) /\ Cardinality(References(k)) \in Nat
  BY ReferencesFinite
<1>6. CASE held[h].key = k /\ key[h] = k
  <2>1. References(k)' = References(k) \ {<<h, "new">>}
    BY <1>3, <1>4, <1>6
  <2> QED BY <1>4, <1>5, <1>6, <2>1, FS_RemoveElement
<1>7. CASE held[h].key = k /\ key[h] # k
  <2>1. References(k)' = References(k) \ {<<h, "held">>}
    BY <1>3, <1>4, <1>7
  <2> QED BY <1>4, <1>5, <1>7, <2>1, FS_RemoveElement
<1>8. CASE held[h].key # k /\ key[h] = k
  <2> DEFINE R == References(k) \ {<<h, "new">>}
  <2>1. IsFiniteSet(R) /\ Cardinality(R) = Cardinality(References(k)) - 1
    BY <1>4, <1>5, <1>8, FS_RemoveElement
  <2>2. References(k)' = R \cup {<<h, "held">>} /\ <<h, "held">> \notin R
    BY <1>3, <1>4, <1>8
  <2>3. IsFiniteSet(R \cup {<<h, "held">>}) /\ Cardinality(R \cup {<<h, "held">>}) = Cardinality(R) + 1
    BY <2>1, <2>2, FS_AddElement
  <2> QED BY <1>5, <1>8, <2>1, <2>2, <2>3
<1>9. CASE held[h].key # k /\ key[h] # k
  <2>1. References(k)' = References(k)
    BY <1>3, <1>4, <1>9
  <2> QED BY <1>5, <1>9, <2>1
<1> QED BY <1>6, <1>7, <1>8, <1>9

\* The entry is deleted with its last reference, and only then.
LEMMA DecrementIInv ==
  ASSUME Sequential, IInv, NEW h \in Holders, Decrement(h)
  PROVE  IInv'
<1> DEFINE m == held[h].key
<1> DEFINE e == entry[h]
<1>1. /\ pc[h] = "decrement" /\ pc[h] \in Releasing /\ Keep(h)
      /\ UNCHANGED <<version, source>>
      /\ refCount' = [refCount EXCEPT ![e] = count[h] - 1]
      /\ documents' = IF count[h] - 1 = 0 THEN [documents EXCEPT ![m] = Nil] ELSE documents
      /\ entry' = [entry EXCEPT ![h] = Nil] /\ count' = [count EXCEPT ![h] = 0]
      /\ lock' = [lock EXCEPT ![e] = IF @ = h THEN Nil ELSE @]
  BY DEF Decrement, Unlock, Releasing
<1>2. /\ m \in Keys /\ held[h] # Nil
      /\ e \in Entries /\ e # Nil /\ e = documents[m] /\ count[h] = refCount[e]
  BY <1>1 DEF IInv, TypeOK, Knows, Documents
<1>3. count[h] = Cardinality(References(m)) /\ count[h] \in Nat \ {0}
  <2>1. <<h, "held">> \in References(m)
    BY <1>2, ReferenceMembers
  <2>2. Cardinality(References(m)) # 0 /\ Cardinality(References(m)) \in Nat
    BY <1>2, <2>1, ReferencesFinite, FS_EmptySet
  <2> QED BY <1>2, <2>2 DEF IInv, Counted
<1>4. /\ pc' = [pc EXCEPT ![h] = "idle"] /\ key' = [key EXCEPT ![h] = Nil]
      /\ got' = [got EXCEPT ![h] = 0] /\ held' \in [Holders -> Documents \cup {Nil}]
  BY <1>1, KeepHeld
<1>5. TypeOK'
  <2>1. 0 \in Versions /\ count[h] - 1 \in Nat
    BY <1>3, RegistryAssumption DEF Versions
  <2>2. documents' \in [Keys -> Entries \cup {Nil}] /\ refCount' \in [Entries -> Nat]
    BY <1>1, <1>2, <2>1 DEF IInv, TypeOK
  <2> QED BY <1>1, <1>2, <1>4, <2>1, <2>2 DEF IInv, TypeOK
<1>6. OneCall' /\ \A g \in Holders : Knows(g)' /\ Current(g)'
  <2>1. Knows(h)' /\ Current(h)'
    BY <1>4 DEF IInv, TypeOK, Knows, Current, Releasing
  <2>2. \A g \in Holders : g # h => pc[g] = "idle" /\ key[g] = Nil /\ pc'[g] = pc[g] /\ key'[g] = key[g]
    BY <1>1, <1>4, OthersIdle DEF IInv, TypeOK
  <2> QED BY <2>1, <2>2, OnlyOneMoves
<1>7. Distinct'
  BY <1>1, <1>2 DEF IInv, TypeOK, Distinct
<1>8. ASSUME NEW k \in Keys
      PROVE  /\ documents'[k] = Nil => References(k)' = {}
             /\ documents'[k] # Nil => /\ refCount'[documents'[k]] = Cardinality(References(k)')
                                       /\ References(k)' # {}
  <2>1. Cardinality(References(k)') = 0 <=> References(k)' = {}
    BY DecrementReferences, FS_EmptySet
  <2>2. CASE k = m
    <3>1. Cardinality(References(k)') = count[h] - 1
      BY <1>3, <2>2, DecrementReferences
    <3>2. documents'[k] = (IF count[h] - 1 = 0 THEN Nil ELSE e) /\ refCount'[e] = count[h] - 1
      BY <1>1, <1>2, <2>2 DEF IInv, TypeOK
    <3> QED BY <1>2, <2>1, <3>1, <3>2
  <2>3. CASE k # m
    <3>1. Cardinality(References(k)') = Cardinality(References(k))
      BY <2>3, DecrementReferences
    <3>2. documents'[k] = documents[k]
      BY <1>1, <2>3 DEF IInv, TypeOK
    <3>3. documents[k] # Nil => documents[k] # e
      BY <1>2, <2>3 DEF IInv, Distinct
    <3>4. documents[k] # Nil => refCount'[documents[k]] = refCount[documents[k]]
      BY <1>1, <1>2, <3>3 DEF IInv, TypeOK
    <3>5. documents[k] # Nil => References(k) # {}
      BY <1>1, OthersIdle DEF IInv, Counted
    <3>6. Cardinality(References(k)) = 0 <=> References(k) = {}
      BY ReferencesFinite, FS_EmptySet
    <3> QED BY <2>1, <3>1, <3>2, <3>4, <3>5, <3>6 DEF IInv, Counted
  <2> QED BY <2>2, <2>3
<1>9. Counted'
  BY <1>8 DEF Counted
<1> QED BY <1>5, <1>6, <1>7, <1>9 DEF IInv

\* Steps of a call, one lemma each.
LEMMA NextIInv ==
  ASSUME Sequential, IInv, [Next]_vars
  PROVE  IInv'
<1>1. CASE ChangeText
  BY <1>1, ChangeTextIInv
<1>2. ASSUME NEW h \in Holders, (\E o \in Options : BeginAcquire(h, o)) \/ BeginRelease(h)
      PROVE  IInv'
  BY <1>2, BeginIInv
<1>3. ASSUME NEW h \in Holders, Step(h)
      PROVE  IInv'
  BY <1>3, LoadIInv, CompareIInv, LockStaleIInv, LoadOrStoreIInv, LockNewIInv, ReadCountIInv,
     WriteCountIInv, ReleaseNothingIInv, ReleaseLoadIInv, LockReleaseIInv, DecrementIInv DEF Step
<1>4. CASE UNCHANGED vars
  <2> USE <1>4 DEF vars, registry, locals
  <2>1. TypeOK' /\ OneCall' /\ Distinct'
    BY DEF IInv, TypeOK, OneCall, Distinct
  <2>2. \A h \in Holders : Knows(h)' /\ Current(h)'
    BY DEF IInv, Knows, Current
  <2>3. \A k \in Keys : References(k)' = References(k)
    BY SameReferences
  <2>4. Counted'
    BY <2>3 DEF IInv, Counted
  <2> QED BY <2>1, <2>2, <2>4 DEF IInv
<1> QED BY <1>1, <1>2, <1>3, <1>4 DEF Next

-----------------------------------------------------------------------------
\* The counts of documentregistry.go are the numbers of references at every step
\* of every call, as long as the calls come one at a time.
THEOREM RegistryInvariant ==
  ASSUME Sequential
  PROVE  Spec => []IInv
<1>1. Init => IInv
  BY InitIInv
<1>2. IInv /\ [Next]_vars => IInv'
  BY NextIInv
<1> QED BY <1>1, <1>2, PTL DEF Spec

\* Between calls an entry exists exactly for the keys some program holds, and its
\* count is the number of those programs (documentregistry.go:49, :50).
THEOREM CountsAreExact ==
  ASSUME Sequential
  PROVE  Spec => []RefCountExact
<1>1. IInv => RefCountExact
  <2> SUFFICES ASSUME IInv, Quiescent, NEW k \in Keys
               PROVE  IF HoldersOf(k) = {}
                      THEN documents[k] = Nil
                      ELSE documents[k] # Nil /\ refCount[documents[k]] = Cardinality(HoldersOf(k))
    BY DEF RefCountExact
  <2>1. References(k) = HoldersOf(k) \X {"held"}
    BY DEF References, Quiescent, Releasing
  <2>2. IsFiniteSet(HoldersOf(k)) /\ Cardinality(HoldersOf(k)) \in Nat
    BY RegistryAssumption, FS_Subset, FS_CardinalityType DEF HoldersOf
  <2>3. IsFiniteSet({"held"}) /\ Cardinality({"held"}) = 1
    BY FS_Singleton
  <2>4. Cardinality(References(k)) = Cardinality(HoldersOf(k)) * 1
    BY <2>1, <2>2, <2>3, FS_Product
  <2>5. References(k) = {} <=> HoldersOf(k) = {}
    <3>1. References(k) = {} => HoldersOf(k) = {}
      BY HeldAreReferences
    <3>2. HoldersOf(k) = {} => HoldersOf(k) \X {"held"} = {}
      OBVIOUS
    <3> QED BY <2>1, <3>1, <3>2
  <2>6. documents[k] # Nil => References(k) # {}
    BY DEF IInv, Counted, Quiescent
  <2> QED BY <2>2, <2>4, <2>5, <2>6 DEF IInv, Counted
<1> QED BY <1>1, RegistryInvariant, PTL

\* A program is handed the file as it is now, not as it was parsed before
\* (documentregistry.go:46).
THEOREM CurrentVersionIsReturned ==
  ASSUME Sequential
  PROVE  Spec => []ReturnsCurrentVersion
<1>1. IInv => ReturnsCurrentVersion
  BY DEF IInv, Current, Releasing, ReturnsCurrentVersion
<1> QED BY <1>1, RegistryInvariant, PTL
=============================================================================
