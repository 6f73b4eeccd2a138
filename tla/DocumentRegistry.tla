--------------------------- MODULE DocumentRegistry ---------------------------
(***************************************************************************)
(* project.DocumentRegistry (internal/project/documentregistry.go): source *)
(* files shared between the programs of several projects, with a reference *)
(* count per entry.                                                        *)
(*                                                                         *)
(* The model follows one file (one tspath.Path and its ScriptInfo); keys   *)
(* of different paths never meet.  A holder is a place in some project's   *)
(* program that refers to the file: the project that has it, or, when two  *)
(* names denote the file (case-insensitive names), one of the two places   *)
(* in the same program.  AcquireDocument and ReleaseDocument are broken    *)
(* into their accesses to the map and to the entry, because the loader     *)
(* calls GetSourceFile from many goroutines (fileloader.go) and the entry  *)
(* is read and counted without its lock on one path.                       *)
(*                                                                         *)
(* A definition whose comment begins with "Variant" is the next one with a *)
(* plausible bug; the specification does not use it.                       *)
(***************************************************************************)
EXTENDS Integers, FiniteSets

CONSTANTS
    Holders,     \* places in programs that may refer to the file
    Options,     \* SourceFileAffectingCompilerOptions values
    InfoKind,    \* scriptInfo.scriptKind, from the editor's language id
    FileKind,    \* sourceFile.ScriptKind, from the file name
    Entries,     \* heap cells for *registryEntry
    MayOverlap,  \* pairs of holders whose calls may run at the same time
    MaxVersion,  \* bound on the ScriptInfo's version
    Nil          \* no entry, no key, no document, lock free

Keys == Options \X {InfoKind, FileKind}
Versions == 0..MaxVersion
Documents == [key : Keys, version : Versions]

ASSUME RegistryAssumption ==
    /\ IsFiniteSet(Holders)
    /\ MaxVersion \in Nat
    /\ MayOverlap \subseteq Holders \X Holders
    /\ Nil \notin Holders \cup Keys \cup Entries \cup Documents

VARIABLES
    version,    \* scriptInfo.version
    documents,  \* r.documents
    source,     \* entry.sourceFile.Version
    refCount,   \* entry.refCount
    lock,       \* entry.mu
    held,       \* the document in the holder's program, named by the key it releases
    pc,         \* where the holder's call is
    key,        \* the key AcquireDocument computed, Nil in ReleaseDocument
    entry,      \* the entry a call works on
    count,      \* the value of refCount a call has read
    got         \* the version of the document getDocumentWorker returned

registry == <<documents, source, refCount, lock>>
locals == <<pc, key, entry, count, got>>
vars == <<version, registry, held, locals>>

Init ==
    /\ version = 0
    /\ documents = [k \in Keys |-> Nil]
    /\ source = [e \in Entries |-> 0]
    /\ refCount = [e \in Entries |-> 0]
    /\ lock = [e \in Entries |-> Nil]
    /\ held = [h \in Holders |-> Nil]
    /\ pc = [h \in Holders |-> "idle"]
    /\ key = [h \in Holders |-> Nil]
    /\ entry = [h \in Holders |-> Nil]
    /\ count = [h \in Holders |-> 0]
    /\ got = [h \in Holders |-> 0]

MayStart(h) ==
    /\ pc[h] = "idle"
    /\ \A g \in Holders : pc[g] # "idle" => <<g, h>> \in MayOverlap

\* The next place of h, where a local variable may be set as well.
Goto(h, place) == pc' = [pc EXCEPT ![h] = place]

\* An edit: the service changes a ScriptInfo only between two updates.
ChangeText ==
    /\ \A h \in Holders : pc[h] = "idle"
    /\ version < MaxVersion
    /\ version' = version + 1
    /\ UNCHANGED <<registry, held, locals>>

\* AcquireDocument under options o computes the key.
BeginAcquire(h, o) ==
    /\ MayStart(h)
    /\ key' = [key EXCEPT ![h] = <<o, InfoKind>>]
    /\ Goto(h, "load")
    /\ UNCHANGED <<version, registry, held, entry, count, got>>

\* getDocumentWorker looks the key up.
Load(h) ==
    /\ pc[h] = "load"
    /\ entry' = [entry EXCEPT ![h] = documents[key[h]]]
    /\ Goto(h, IF documents[key[h]] = Nil THEN "store" ELSE "compare")
    /\ UNCHANGED <<version, registry, held, key, count, got>>

\* Variant: the versions are not compared.
CompareNothing(h) ==
    /\ pc[h] = "compare"
    /\ Goto(h, "read")
    /\ UNCHANGED <<version, registry, held, key, entry, count, got>>

\* It reads the entry's version without the lock; when the versions match the
\* count is raised without the lock too.
Compare(h) ==
    /\ pc[h] = "compare"
    /\ Goto(h, IF source[entry[h]] = version THEN "read" ELSE "lockStale")
    /\ UNCHANGED <<version, registry, held, key, entry, count, got>>

\* A stale entry gets a new parse, under the lock.
LockStale(h) ==
    /\ pc[h] = "lockStale"
    /\ lock[entry[h]] = Nil
    /\ lock' = [lock EXCEPT ![entry[h]] = h]
    /\ source' = [source EXCEPT ![entry[h]] = version]
    /\ Goto(h, "read")
    /\ UNCHANGED <<version, documents, refCount, held, key, entry, count, got>>

Unused(e) == (\A k \in Keys : documents[k] # e) /\ (\A g \in Holders : entry[g] # e)

\* No entry was found: parse, then LoadOrStore an entry with count zero.
LoadOrStore(h) ==
    /\ pc[h] = "store"
    /\ \/ /\ documents[key[h]] = Nil
          /\ \E e \in Entries :
                /\ Unused(e)
                /\ documents' = [documents EXCEPT ![key[h]] = e]
                /\ source' = [source EXCEPT ![e] = version]
                /\ refCount' = [refCount EXCEPT ![e] = 0]
                /\ entry' = [entry EXCEPT ![h] = e]
       \/ /\ documents[key[h]] # Nil
          /\ entry' = [entry EXCEPT ![h] = documents[key[h]]]
          /\ UNCHANGED <<documents, source, refCount>>
    /\ Goto(h, "lockNew")
    /\ UNCHANGED <<version, lock, held, key, count, got>>

LockNew(h) ==
    /\ pc[h] = "lockNew"
    /\ lock[entry[h]] = Nil
    /\ lock' = [lock EXCEPT ![entry[h]] = h]
    /\ Goto(h, "read")
    /\ UNCHANGED <<version, documents, source, refCount, held, key, entry, count, got>>

\* entry.refCount++ reads the count ...
ReadCount(h) ==
    /\ pc[h] = "read"
    /\ count' = [count EXCEPT ![h] = refCount[entry[h]]]
    /\ Goto(h, "write")
    /\ UNCHANGED <<version, registry, held, key, entry, got>>

\* The deferred Unlock; on the path of matching versions the lock was not taken.
Unlock(h) ==
    lock' = [lock EXCEPT ![entry[h]] = IF @ = h THEN Nil ELSE @]

\* ... and writes it back, after which getDocumentWorker returns.
WriteCount(h) ==
    /\ pc[h] = "write"
    /\ refCount' = [refCount EXCEPT ![entry[h]] = count[h] + 1]
    /\ got' = [got EXCEPT ![h] = source[entry[h]]]
    /\ Unlock(h)
    /\ entry' = [entry EXCEPT ![h] = Nil]
    /\ count' = [count EXCEPT ![h] = 0]
    /\ Goto(h, "release")
    /\ UNCHANGED <<version, documents, source, held, key>>

\* ReleaseDocument, when the file has left the holder's program.
BeginRelease(h) ==
    /\ MayStart(h)
    /\ held[h] # Nil
    /\ Goto(h, "release")
    /\ UNCHANGED <<version, registry, held, key, entry, count, got>>

\* The call ends.  The holder's program has the document that was acquired, or
\* none; its key is computed again at the release, from the parsed file's own
\* script kind.
Keep(h) ==
    /\ held' = [held EXCEPT ![h] =
                   IF key[h] = Nil THEN Nil
                   ELSE [key |-> <<key[h][1], FileKind>>, version |-> got[h]]]
    /\ Goto(h, "idle")
    /\ key' = [key EXCEPT ![h] = Nil]
    /\ got' = [got EXCEPT ![h] = 0]

\* releaseDocumentWithKey: without an old file, or without an entry for its key,
\* nothing is released.
ReleaseNothing(h) ==
    /\ pc[h] = "release"
    /\ \/ held[h] = Nil
       \/ held[h] # Nil /\ documents[held[h].key] = Nil
    /\ Keep(h)
    /\ UNCHANGED <<version, registry, entry, count>>

ReleaseLoad(h) ==
    /\ pc[h] = "release"
    /\ held[h] # Nil
    /\ documents[held[h].key] # Nil
    /\ entry' = [entry EXCEPT ![h] = documents[held[h].key]]
    /\ Goto(h, "lockRelease")
    /\ UNCHANGED <<version, registry, held, key, count, got>>

\* entry.refCount-- reads the count under the lock ...
LockRelease(h) ==
    /\ pc[h] = "lockRelease"
    /\ lock[entry[h]] = Nil
    /\ lock' = [lock EXCEPT ![entry[h]] = h]
    /\ count' = [count EXCEPT ![h] = refCount[entry[h]]]
    /\ Goto(h, "decrement")
    /\ UNCHANGED <<version, documents, source, refCount, held, key, entry, got>>

\* Variant: the entry stays in the map when its count reaches zero.
DecrementOnly(h) ==
    /\ pc[h] = "decrement"
    /\ refCount' = [refCount EXCEPT ![entry[h]] = count[h] - 1]
    /\ Unlock(h)
    /\ entry' = [entry EXCEPT ![h] = Nil]
    /\ Keep(h)
    /\ count' = [count EXCEPT ![h] = 0]
    /\ UNCHANGED <<version, documents, source>>

\* ... writes it back and, at zero, deletes the key and calls the hook.
Decrement(h) ==
    /\ pc[h] = "decrement"
    /\ refCount' = [refCount EXCEPT ![entry[h]] = count[h] - 1]
    /\ documents' = IF count[h] - 1 = 0
                    THEN [documents EXCEPT ![held[h].key] = Nil]
                    ELSE documents
    /\ Unlock(h)
    /\ entry' = [entry EXCEPT ![h] = Nil]
    /\ Keep(h)
    /\ count' = [count EXCEPT ![h] = 0]
    /\ UNCHANGED <<version, source>>

Step(h) ==
    \/ Load(h)
    \/ Compare(h)
    \/ LockStale(h)
    \/ LoadOrStore(h)
    \/ LockNew(h)
    \/ ReadCount(h)
    \/ WriteCount(h)
    \/ ReleaseNothing(h)
    \/ ReleaseLoad(h)
    \/ LockRelease(h)
    \/ Decrement(h)

Next ==
    \/ ChangeText
    \/ \E h \in Holders :
           \/ \E o \in Options : BeginAcquire(h, o)
           \/ BeginRelease(h)
           \/ Step(h)

Spec == Init /\ [][Next]_vars

-----------------------------------------------------------------------------
Quiescent == \A h \in Holders : pc[h] = "idle"

\* Who holds a document of key k.
HoldersOf(k) == {h \in Holders : held[h] # Nil /\ held[h].key = k}

TypeOK ==
    /\ version \in Versions
    /\ documents \in [Keys -> Entries \cup {Nil}]
    /\ source \in [Entries -> Versions]
    /\ refCount \in [Entries -> Nat]
    /\ lock \in [Entries -> Holders \cup {Nil}]
    /\ held \in [Holders -> Documents \cup {Nil}]
    /\ pc \in [Holders -> {"idle", "load", "compare", "lockStale", "store", "lockNew", "read",
                           "write", "release", "lockRelease", "decrement"}]
    /\ key \in [Holders -> Keys \cup {Nil}]
    /\ entry \in [Holders -> Entries \cup {Nil}]
    /\ count \in [Holders -> Nat]
    /\ got \in [Holders -> Versions]

\* The uses of the registry the conditions below are about: one call at a time,
\* and script infos whose kind is that of the file parsed.
Sequential == MayOverlap = {} /\ InfoKind = FileKind

Releasing == {"release", "lockRelease", "decrement"}

\* What the count of key k's entry counts: the documents in programs, and the one
\* just acquired that is about to replace a program's old document.
References(k) ==
    (HoldersOf(k) \X {"held"})
        \cup ({h \in Holders : pc[h] \in Releasing /\ key[h] = k} \X {"new"})

OneCall == \A g, h \in Holders : pc[g] # "idle" /\ pc[h] # "idle" => g = h

\* What a call knows where it is.
Knows(h) ==
    /\ pc[h] = "idle" => key[h] = Nil
    /\ pc[h] \notin {"idle"} \cup Releasing => key[h] # Nil
    /\ key[h] # Nil => key[h][2] = FileKind
    /\ pc[h] \in {"compare", "lockStale", "lockNew", "read", "write"} =>
           entry[h] # Nil /\ entry[h] = documents[key[h]]
    /\ pc[h] = "store" => documents[key[h]] = Nil
    /\ pc[h] = "release" => key[h] # Nil \/ held[h] # Nil
    /\ pc[h] \in {"lockRelease", "decrement"} =>
           held[h] # Nil /\ entry[h] # Nil /\ entry[h] = documents[held[h].key]
    /\ pc[h] \in {"write", "decrement"} => count[h] = refCount[entry[h]]

\* The document being acquired is the current one.
Current(h) ==
    /\ pc[h] \in {"lockNew", "read", "write"} => source[entry[h]] = version
    /\ pc[h] \in Releasing /\ key[h] # Nil => got[h] = version

Distinct ==
    \A k, l \in Keys : documents[k] # Nil /\ documents[k] = documents[l] => k = l

\* An entry's count is the number of references to its key; it may be zero only
\* while the call that made the entry has not counted itself.
Counted ==
    \A k \in Keys :
        /\ documents[k] = Nil => References(k) = {}
        /\ documents[k] # Nil => refCount[documents[k]] = Cardinality(References(k))
        /\ documents[k] # Nil /\ References(k) = {} =>
               \E h \in Holders : pc[h] \in {"lockNew", "read", "write"} /\ key[h] = k

\* The inductive invariant of sequential uses.
IInv ==
    /\ TypeOK
    /\ OneCall
    /\ \A h \in Holders : Knows(h) /\ Current(h)
    /\ Distinct
    /\ Counted

\* Between calls an entry exists exactly for the keys somebody holds, and its
\* count is the number of those who do: acquiring a document for the key one
\* already holds is a no-op to the count (documentregistry.go:50), and the last
\* one to let go removes the entry (:49).
RefCountExact ==
    Quiescent =>
        \A k \in Keys :
            IF HoldersOf(k) = {}
            THEN documents[k] = Nil
            ELSE documents[k] # Nil /\ refCount[documents[k]] = Cardinality(HoldersOf(k))

\* "gets a SourceFile from the registry if it exists as the same version tracked
\* by the ScriptInfo" (documentregistry.go:46): a program is never handed a
\* document older than the text it was asked for.
ReturnsCurrentVersion ==
    \A h \in Holders : pc[h] = "release" /\ key[h] # Nil => got[h] = version
=============================================================================
