---------------------------- MODULE ModuleExports ----------------------------
(***************************************************************************)
(* What a module exports, and what an import stands for (the alias and     *)
(* module parts of checker/checker.go).  An alias is resolved on demand    *)
(* and remembers its target; export * collects the names of other modules, *)
(* in circles too; and whether a name may only be used as a type depends   *)
(* on every step of the way to it.                                         *)
(*                                                                         *)
(* The modules are TypeScript files with export declarations only: no      *)
(* export =, no ambient modules or augmentations, no CommonJS.             *)
(***************************************************************************)
EXTENDS Sequences, SequencesExt, FiniteSets

CONSTANTS
  Programs,    \* of records [exports, stars]
  Orders       \* the orders in which a symbol table may be gone over: sequences of names

VARIABLES
  exports,     \* module to name to entry
  stars,       \* module to its export * declarations, in order
  links        \* what the checker remembers of symbols

vars == <<exports, stars, links>>

\* An entry is [kind, from, name, typeOnly]: "local"; "from", for export { name } from; or
\* "namespace", for export * as.  A star is [from, typeOnly].
Modules == DOMAIN exports
OwnNames(m) == {n \in DOMAIN exports[m] : exports[m][n].kind # "none"}

\* A symbol is a module and a name in it; the module itself goes by the name "*".
Unknown == <<"unknown", "unknown">>
Resolving == <<"resolving", "resolving">>
Nil == <<"nil", "nil">>
Entry(s) == exports[s[1]][s[2]]
Names == UNION {DOMAIN exports[m] : m \in Modules}
Aliases == Modules \X Names
IsAlias(s) == s[1] \in Modules /\ s[2] \in OwnNames(s[1]) /\ Entry(s).kind # "local"
IsTypeOnlyDeclaration(s) == IsAlias(s) /\ Entry(s).typeOnly

Result(x, s) == [x EXCEPT !.result = s]

-----------------------------------------------------------------------------
\* An alias is type-only if what it stands for is: decided at most once, unless overwriteEmpty.
MarkFrom(x, s, target, overwriteEmpty) ==
  IF target # Nil /\ (s \notin x.typeOnlyResolved \/ (overwriteEmpty /\ s \notin x.typeOnly))
  THEN [x EXCEPT !.typeOnlyResolved = @ \cup {s},
                 !.typeOnly = IF IsTypeOnlyDeclaration(target) \/ target \in @ THEN @ \cup {s} ELSE @]
  ELSE x

MarkIfTypeOnly(x, s, immediate, final, overwriteEmpty, star) ==
  LET first == MarkFrom(x, s, immediate, overwriteEmpty)
  IN  IF IsTypeOnlyDeclaration(s) \/ star THEN [x EXCEPT !.typeOnly = @ \cup {s}]
      ELSE IF s \in first.typeOnly THEN first ELSE MarkFrom(first, s, final, overwriteEmpty)

RECURSIVE ResolveAlias(_, _), Visit(_, _, _, _)

ResolveSymbol(x, s) == IF IsAlias(s) THEN ResolveAlias(x, s) ELSE Result(x, s)

\* The second of two symbols of one name is resolved after the first, and compared with it.
Compared(acc, n, second, target) ==
  [acc EXCEPT !.w.x = second, !.clashes = IF second.result # target THEN @ \cup {n} ELSE @]

CompareWith(acc, n, first, symbol) == Compared(acc, n, ResolveSymbol(first, symbol), first.result)

\* Variant: the default export comes along.
ExtendNameVariant(acc, n, source) ==
  IF n \notin DOMAIN source THEN acc
  ELSE IF n \notin DOMAIN acc.nested THEN [acc EXCEPT !.nested = (n :> source[n]) @@ @]
  ELSE CompareWith(acc, n, ResolveSymbol(acc.w.x, acc.nested[n]), source[n])

\* One name of a table is added to another.
ExtendName(acc, n, source) ==
  IF n \notin DOMAIN source \/ n = "default" THEN acc
  ELSE IF n \notin DOMAIN acc.nested THEN [acc EXCEPT !.nested = (n :> source[n]) @@ @]
  ELSE CompareWith(acc, n, ResolveSymbol(acc.w.x, acc.nested[n]), source[n])

\* The table of the module visited last.
ExtendExportSymbols(acc) ==
  FoldLeft(LAMBDA a, n : ExtendName(a, n, a.w.table), acc, acc.w.x.order)

VisitStars(w, m, isTypeOnly) ==
  FoldLeft(LAMBDA acc, star :
             ExtendExportSymbols([acc EXCEPT !.w = Visit(@, star.from, star.typeOnly, isTypeOnly \/ star.typeOnly)]),
           [w |-> w, nested |-> << >>, clashes |-> {}], stars[m])

\* A module's own names hide those of its stars, and their clashes.
Collected(c, m, starTypeOnly) ==
  LET table == [n \in OwnNames(m) |-> <<m, n>>] @@ c.nested
  IN  [c.w EXCEPT !.x.duplicates = @ \cup {<<m, n>> : n \in c.clashes \ OwnNames(m)},
                  !.table = table, !.starNames = IF starTypeOnly THEN @ \cup DOMAIN table ELSE @]

\* The exports of a module, its own and those of its stars, each module once.
Visit(w, m, starTypeOnly, isTypeOnly) ==
  LET named == IF isTypeOnly THEN w ELSE [w EXCEPT !.valueNames = @ \cup OwnNames(m)]
  IN  IF m \in w.visited THEN [named EXCEPT !.table = << >>]
      ELSE Collected(VisitStars([named EXCEPT !.visited = @ \cup {m}], m, isTypeOnly), m, starTypeOnly)

KeepExports(w, m) ==
  [w.x EXCEPT !.resolvedExports = (m :> w.table) @@ @, !.typeOnlyStars = (m :> w.starNames \ w.valueNames) @@ @]

GetExportsOfModule(x, m) ==
  IF m \in DOMAIN x.resolvedExports THEN x
  ELSE KeepExports(Visit([x |-> x, visited |-> {}, valueNames |-> {}, starNames |-> {}, table |-> << >>], m, FALSE, FALSE), m)

\* dontResolve gives the next alias on the way and not its end.
Target(x, s, dontResolve) == IF dontResolve THEN Result(x, s) ELSE ResolveSymbol(x, s)

MarkMissing(x, s, symbol) == IF symbol = Nil THEN [x EXCEPT !.missing = @ \cup {s}] ELSE x

\* found resolves s, by way of symbol.
MarkFound(found, s, symbol, star) ==
  MarkMissing(MarkIfTypeOnly(found, s, symbol, found.result, FALSE, star), s, symbol)

MemberOf(table, s, dontResolve) ==
  LET m == Entry(s).from
      n == Entry(s).name
      symbol == IF n \in DOMAIN table.resolvedExports[m] THEN table.resolvedExports[m][n] ELSE Nil
  IN  MarkFound(Target(table, symbol, dontResolve), s, symbol, n \in table.typeOnlyStars[m])

GetExternalModuleMember(x, s, dontResolve) == MemberOf(GetExportsOfModule(x, Entry(s).from), s, dontResolve)

MarkDefault(x, s) == MarkIfTypeOnly(x, s, x.result, Nil, FALSE, FALSE)

GetTargetOfModuleDefault(x, s, dontResolve) ==
  LET m == Entry(s).from
      symbol == IF "default" \in OwnNames(m) THEN <<m, "default">> ELSE Nil
  IN  MarkDefault(MarkFound(Target(x, symbol, dontResolve), s, symbol, FALSE), s)

MarkMember(x, s) == MarkIfTypeOnly(x, s, Nil, x.result, FALSE, FALSE)

GetTargetOfAliasDeclaration(x, s, dontResolve) ==
  LET m == <<Entry(s).from, "*">>
  IN  IF Entry(s).kind = "namespace" THEN Result(MarkIfTypeOnly(x, s, m, m, FALSE, FALSE), m)
      ELSE IF Entry(s).name = "default" THEN GetTargetOfModuleDefault(x, s, dontResolve)
      ELSE MarkMember(GetExternalModuleMember(x, s, dontResolve), s)

\* The alias came upon itself if something else was put down for it on the way.
Resolved(done, s) ==
  LET target == IF done.result = Nil THEN Unknown ELSE done.result
  IN  IF done.aliasTarget[s] = Resolving THEN Result([done EXCEPT !.aliasTarget[s] = target], target)
      ELSE Result([done EXCEPT !.circular = @ \cup {s}], done.aliasTarget[s])

ResolveAlias(x, s) ==
  IF s \notin DOMAIN x.aliasTarget
  THEN Resolved(GetTargetOfAliasDeclaration([x EXCEPT !.aliasTarget = (s :> Resolving) @@ @], s, FALSE), s)
  ELSE IF x.aliasTarget[s] = Resolving THEN Result([x EXCEPT !.aliasTarget[s] = Unknown], Unknown)
  ELSE Result(x, x.aliasTarget[s])

MarkImmediate(x, s, final) == MarkIfTypeOnly(x, s, x.result, final, TRUE, FALSE)

\* getImmediateAliasedSymbol.  TypeOnlyAlias asks it once for an alias, so that the target it keeps
\* is never read again here.
MarkUse(x, s) == MarkImmediate(GetTargetOfAliasDeclaration(x, s, TRUE), s, x.result)

\* getTypeOnlyAliasDeclaration: the flag is set first, for the resolution may come back here.
TypeOnlyAlias(x, s) ==
  IF s \in x.typeOnlyResolved THEN x
  ELSE MarkUse(ResolveSymbol([x EXCEPT !.typeOnlyResolved = @ \cup {s}], s), s)

-----------------------------------------------------------------------------
Links(order) ==
  [aliasTarget |-> << >>, typeOnlyResolved |-> {}, typeOnly |-> {}, resolvedExports |-> << >>,
   typeOnlyStars |-> << >>, duplicates |-> {}, missing |-> {}, circular |-> {}, result |-> Nil, order |-> order]

Init ==
  /\ \E p \in Programs : exports = p.exports /\ stars = p.stars
  /\ \E order \in Orders : links = Links(order)

CheckAlias(s) == IsAlias(s) /\ links' = Result(ResolveAlias(links, s), Nil)

CheckExports(m) == links' = Result(GetExportsOfModule(links, m), Nil)

CheckUse(s) == IsAlias(s) /\ links' = Result(TypeOnlyAlias(links, s), Nil)

Next ==
  /\ (\E s \in Aliases : CheckAlias(s) \/ CheckUse(s)) \/ (\E m \in Modules : CheckExports(m))
  /\ UNCHANGED <<exports, stars>>

Spec == Init /\ [][Next]_vars

-----------------------------------------------------------------------------
\* What is remembered is about symbols there are, and no alias is left being resolved.
TypeOK ==
  /\ DOMAIN links.aliasTarget \subseteq Aliases
  /\ \A s \in DOMAIN links.aliasTarget :
       links.aliasTarget[s] = Unknown \/ (links.aliasTarget[s][1] \in Modules /\ ~IsAlias(links.aliasTarget[s]))
  /\ links.typeOnlyResolved \cup links.typeOnly \cup links.circular \cup links.missing \subseteq Aliases
  /\ DOMAIN links.resolvedExports = DOMAIN links.typeOnlyStars
  /\ \A m \in DOMAIN links.resolvedExports : OwnNames(m) \subseteq DOMAIN links.resolvedExports[m]

-----------------------------------------------------------------------------
(***************************************************************************)
(* What the language says: the ways from a name of a module to a           *)
(* declaration, each with whether it has a type-only step.                 *)
(***************************************************************************)
RECURSIVE Ways(_, _, _, _)
Ways(m, n, seen, typeOnly) ==
  LET next == seen \cup {<<m, n>>}
      e == exports[m][n]
  IN  IF <<m, n>> \in seen THEN {}
      ELSE IF n \notin OwnNames(m)
      THEN UNION {Ways(star.from, n, next, typeOnly \/ star.typeOnly) :
                  star \in {t \in ToSet(stars[m]) : n # "default"}}
      ELSE IF e.kind = "from" THEN Ways(e.from, e.name, next, typeOnly \/ e.typeOnly)
      ELSE {[end |-> IF e.kind = "local" THEN <<m, n>> ELSE <<e.from, "*">>, typeOnly |-> typeOnly \/ e.typeOnly]}

Bindings(m, n) == {w.end : w \in Ways(m, n, {}, FALSE)}

\* A name stands for what it leads to; for nothing, if that is nothing or a name was reported missing.
Stands(x, m, n) ==
  \/ x.circular # {}
  \/ x.result \in Bindings(m, n)
  \/ x.result \in {Nil, Unknown} /\ (Bindings(m, n) = {} \/ x.missing # {})

(***************************************************************************)
(* Unless a definition was reported circular, every name stands for what   *)
(* it leads to, for one of them if it leads to several, whatever was asked *)
(* before and in whatever order tables are gone over.  A name all of whose *)
(* ways have a type-only step may only be used as a type, and one none of  *)
(* whose ways has one, as a value too.  And names are reported to collide  *)
(* only if they do.                                                        *)
(***************************************************************************)
ExportsAreTheLanguages ==
  /\ \A m \in DOMAIN links.resolvedExports : \A n \in Names :
       Stands(IF n \in DOMAIN links.resolvedExports[m] THEN ResolveSymbol(links, links.resolvedExports[m][n])
                                                       ELSE Result(links, Nil), m, n)
  /\ \A s \in DOMAIN links.aliasTarget : Stands(Result(links, links.aliasTarget[s]), s[1], s[2])
  /\ links.circular = {} =>
       \A s \in links.typeOnlyResolved :
         LET ways == Ways(s[1], s[2], {}, FALSE)
         IN  Cardinality(Bindings(s[1], s[2])) = 1 =>
               /\ (\A w \in ways : w.typeOnly) => s \in links.typeOnly
               /\ (\A w \in ways : ~w.typeOnly) => s \notin links.typeOnly
  /\ links.circular = {} /\ links.missing = {} =>
       \A d \in links.duplicates :
         Cardinality(UNION {Bindings(star.from, d[2]) : star \in ToSet(stars[d[1]])}) > 1
=============================================================================
