------------------------------- MODULE Relater -------------------------------
(***************************************************************************)
(* Is one type assignable to another? (checker/relater.go).  Types refer   *)
(* to each other, in circles too: a comparison that comes back to a pair   *)
(* it is comparing assumes that the pair is related, and answers "maybe".  *)
(* What it finds out goes into a cache that outlives it, relation, which   *)
(* must hold no answer that rests on an assumption that fails later.       *)
(*                                                                         *)
(* The types are primitive ones, unions, and object types with required    *)
(* properties and call signatures: no intersections, literals, generics,   *)
(* optional properties or index signatures.  The relation is assignability *)
(* with strictFunctionTypes.                                               *)
(***************************************************************************)
EXTENDS Integers, Sequences, SequencesExt, FiniteSets

CONSTANTS
  Graphs,      \* sets of declarations: functions from types to what they are
  Asked,       \* the types that questions are about
  DepthLimit   \* 100 in the code

VARIABLES
  decl,        \* the program's types, one of Graphs
  relation,    \* the cache: pairs of types to "succeeded", "failed" or "overflow"
  overflowed   \* a comparison was given up

vars == <<decl, relation, overflowed>>

\* A type is [kind, props, calls, members]: kind is "primitive", "object" or "union"; a property is
\* [name, type]; a call signature is [method, params, ret].
IsUnion(t) == decl[t].kind = "union"
IsObject(t) == decl[t].kind = "object"
IsPrimitive(t) == decl[t].kind = "primitive"

PropertiesOfType(t) == decl[t].props
SignaturesOfType(t) == decl[t].calls
Names(t) == {p.name : p \in ToSet(PropertiesOfType(t))}
TypeOfProperty(t, name) == (CHOOSE p \in ToSet(PropertiesOfType(t)) : p.name = name).type

\* A function type: a single call signature and nothing else.
HasSingleCallSignature(t) == IsObject(t) /\ PropertiesOfType(t) = <<>> /\ Len(SignaturesOfType(t)) = 1

-----------------------------------------------------------------------------
(***************************************************************************)
(* A comparison at work is a record: the cache, the keys whose outcome is  *)
(* not known yet, the types being compared on either side, the sides that  *)
(* look infinite, whether it gave up, and the last result.                 *)
(***************************************************************************)
Compared(x, r) == [x EXCEPT !.result = r]

Both(p, q) == IF "False" \in {p, q} THEN "False" ELSE IF "Maybe" \in {p, q} THEN "Maybe" ELSE "True"

\* result &= related, until one is False.
AllOf(x, list, Step(_, _)) ==
  FoldLeft(LAMBDA y, e : IF y.result = "False" THEN y
                         ELSE LET z == Step(y, e) IN Compared(z, Both(y.result, z.result)),
           Compared(x, "True"), list)

\* Until one is not False.
AnyOf(x, list, Step(_, _)) ==
  FoldLeft(LAMBDA y, e : IF y.result = "False" THEN Step(y, e) ELSE y, Compared(x, "False"), list)

Indices(list) == [i \in DOMAIN list |-> i]

\* The third time a type is on the stack it looks like one of an infinite series.
IsDeeplyNestedType(t, stack) == Cardinality({i \in DOMAIN stack : stack[i] = t}) >= 3

\* The member of a union that an error message is about.
BestMatchingType(s, t) ==
  LET members == decl[t].members
      overlap(i) == Cardinality(Names(s) \cap Names(members[i]))
      callable == {i \in DOMAIN members : SignaturesOfType(members[i]) # <<>>}
      best == {i \in DOMAIN members : overlap(i) > 0 /\ \A j \in DOMAIN members : overlap(j) <= overlap(i)}
  IN  IF SignaturesOfType(s) # <<>> /\ callable # {} THEN {members[Min(callable)]}
      ELSE IF best # {} THEN {members[Max(best)]} ELSE {}

\* The keys that were left on the stack since start are decided or forgotten.
ResetMaybeStack(x, start, succeeded) ==
  LET keys == {x.maybe[i] : i \in start + 1..Len(x.maybe)}
  IN  [x EXCEPT !.maybe = SubSeq(@, 1, start),
                !.cache = IF succeeded THEN [k \in keys |-> "succeeded"] @@ @ ELSE @]

PushType(x, s, t, sides) ==
  LET sources == IF "source" \in sides THEN Append(x.sources, s) ELSE x.sources
      targets == IF "target" \in sides THEN Append(x.targets, t) ELSE x.targets
  IN  [x EXCEPT !.maybe = Append(@, <<s, t>>), !.sources = sources, !.targets = targets,
                !.expanding = @ \cup {side \in sides :
                                        IF side = "source" THEN IsDeeplyNestedType(s, sources)
                                                           ELSE IsDeeplyNestedType(t, targets)}]

\* Variant: what is maybe true is recorded at every depth.
RecordResultVariant(x, key, start) ==
  IF x.result = "False" THEN ResetMaybeStack([x EXCEPT !.cache = (key :> "failed") @@ @], start, FALSE)
  ELSE ResetMaybeStack(x, start, TRUE)

\* The end of recursiveTypeRelatedTo, back at the depth where it began.
RecordResult(x, key, start) ==
  CASE x.result = "False" ->
         ResetMaybeStack([x EXCEPT !.cache = (key :> "failed") @@ @], start, FALSE)
    [] x.result = "True" \/ (x.result = "Maybe" /\ x.sources = <<>> /\ x.targets = <<>>) -> ResetMaybeStack(x, start, TRUE)
    [] OTHER -> x

RECURSIVE IsRelatedTo(_, _, _, _, _), SignatureRelatedTo(_, _, _, _, _)

EachTypeRelatedToType(x, s, t, report) ==
  LET sources == decl[s].members
      targets == decl[t].members
      mapped == IsUnion(t) /\ Len(sources) >= Len(targets) /\ Len(sources) % Len(targets) = 0
      whole(y, i) == IsRelatedTo(y, sources[i], t, {"source"}, report)
  IN  AllOf(x, Indices(sources), LAMBDA y, i :
        IF ~mapped THEN whole(y, i)
        ELSE LET z == IsRelatedTo(y, sources[i], targets[((i - 1) % Len(targets)) + 1], {"source", "target"}, FALSE)
             IN  IF z.result # "False" THEN z ELSE whole(z, i))

TypeRelatedToSomeType(x, s, t, report) ==
  LET found == AnyOf(x, decl[t].members, LAMBDA y, m : IsRelatedTo(y, s, m, {"target"}, FALSE))
      best == BestMatchingType(s, t)
  IN  IF s \in ToSet(decl[t].members) THEN Compared(x, "True")
      ELSE IF found.result # "False" \/ ~report \/ IsPrimitive(s) \/ best = {} THEN found
      ELSE Compared(IsRelatedTo(found, s, CHOOSE m \in best : TRUE, {"target"}, TRUE), "False")

UnionRelatedTo(x, s, t, report) ==
  IF IsUnion(s) THEN EachTypeRelatedToType(x, s, t, report) ELSE TypeRelatedToSomeType(x, s, t, report)

PropertiesRelatedTo(x, s, t, report) ==
  IF ~ Names(t) \subseteq Names(s) THEN Compared(x, "False")
  ELSE AllOf(x, PropertiesOfType(t),
             LAMBDA y, p : IsRelatedTo(y, TypeOfProperty(s, p.name), p.type, {"source", "target"}, report))

\* Each signature of the target is matched by one of the source.
SignaturesRelatedTo(x, s, t, report) ==
  LET sources == SignaturesOfType(s)
  IN  AllOf(x, SignaturesOfType(t), LAMBDA y, target :
        AnyOf(y, Indices(sources), LAMBDA z, i :
          SignatureRelatedTo(z, sources[i], target, "none", report /\ i = 1)))

\* Methods, and the callbacks of methods, are compared in both directions.
ParameterRelatedTo(x, s, t, mode, strict, report) ==
  IF s = t THEN Compared(x, "True")
  ELSE IF mode = "none" /\ HasSingleCallSignature(s) /\ HasSingleCallSignature(t)
  THEN SignatureRelatedTo(x, SignaturesOfType(t)[1], SignaturesOfType(s)[1],
                          IF strict THEN "strictCallback" ELSE "bivariantCallback", report)
  ELSE LET covariant == IF mode = "none" /\ ~strict THEN IsRelatedTo(x, s, t, {"source", "target"}, FALSE)
                                                    ELSE Compared(x, "False")
       IN  IF covariant.result # "False" THEN covariant
           ELSE IsRelatedTo(covariant, t, s, {"source", "target"}, report)

ReturnRelatedTo(x, s, t, mode, report) ==
  LET flipped == IF mode = "bivariantCallback" THEN IsRelatedTo(x, t, s, {"source", "target"}, FALSE)
                                               ELSE Compared(x, "False")
  IN  IF flipped.result # "False" THEN flipped
      ELSE IsRelatedTo(flipped, s, t, {"source", "target"}, report)

SignatureRelatedTo(x, s, t, mode, report) ==
  LET strict == mode = "none" /\ ~t.method
      params == AllOf(x, Indices(s.params), LAMBDA y, i :
                  ParameterRelatedTo(y, s.params[i], t.params[i], mode, strict, report))
      return == ReturnRelatedTo(params, s.ret, t.ret, mode, report)
  IN  IF Len(s.params) > Len(t.params) THEN Compared(x, "False")
      ELSE IF params.result = "False" \/ t.ret = "void" THEN params
      ELSE Compared(return, Both(params.result, return.result))

StructuredTypeRelatedTo(x, s, t, report) ==
  IF IsUnion(s) \/ IsUnion(t) THEN UnionRelatedTo(x, s, t, report)
  ELSE LET properties == PropertiesRelatedTo(x, s, t, report)
           signatures == SignaturesRelatedTo(properties, s, t, report)
       IN  IF properties.result = "False" THEN properties
           ELSE Compared(signatures, Both(properties.result, signatures.result))

RecursiveTypeRelatedTo(x, s, t, sides, report) ==
  LET key == <<s, t>>
      entry == IF key \in DOMAIN x.cache THEN x.cache[key] ELSE "none"
      inner == PushType(x, s, t, sides)
      done == IF inner.expanding = {"source", "target"} THEN Compared(inner, "Maybe")
              ELSE StructuredTypeRelatedTo(inner, s, t, report)
  IN  CASE x.overflow -> Compared(x, "False")
        [] ~x.overflow /\ entry # "none" /\ ~(report /\ entry = "failed") ->
             Compared(x, IF entry = "succeeded" THEN "True" ELSE "False")
        [] OTHER ->
             IF key \in ToSet(x.maybe) THEN Compared(x, "Maybe")
             ELSE IF DepthLimit \in {Len(x.sources), Len(x.targets)}
             THEN Compared([x EXCEPT !.overflow = TRUE], "False")
             ELSE RecordResult([done EXCEPT !.sources = x.sources, !.targets = x.targets,
                                            !.expanding = x.expanding],
                               key, Len(x.maybe))

\* The comparisons with a union of fewer than four types are not worth caching.
SkipCaching(s, t) ==
  \/ IsUnion(s) /\ Len(decl[s].members) < 4 /\ ~IsUnion(t)
  \/ IsUnion(t) /\ Len(decl[t].members) < 4 /\ IsPrimitive(s)

IsRelatedTo(x, s, t, sides, report) ==
  IF s = t THEN Compared(x, "True")
  ELSE IF IsPrimitive(t) /\ ~IsUnion(s) THEN Compared(x, "False")
  ELSE IF SkipCaching(s, t) THEN UnionRelatedTo(x, s, t, report)
  ELSE RecursiveTypeRelatedTo(x, s, t, sides, report)

-----------------------------------------------------------------------------
Types == DOMAIN decl

Init ==
  /\ decl \in Graphs
  /\ relation = << >>
  /\ overflowed = FALSE

\* The comparison that a question starts.
Comparison(s, t, report) ==
  IsRelatedTo([cache |-> relation, maybe |-> <<>>, sources |-> <<>>, targets |-> <<>>,
               expanding |-> {}, overflow |-> FALSE, result |-> "False"],
              s, t, {"source", "target"}, report)

CheckTypeRelatedTo(s, t, report) ==
  LET done == Comparison(s, t, report)
  IN  /\ relation' = IF done.overflow THEN (<<s, t>> :> "overflow") @@ done.cache ELSE done.cache
      /\ overflowed' = (overflowed \/ done.overflow)
      /\ UNCHANGED decl

\* isTypeRelatedTo looks into the cache itself when both are object types.
InCache(s, t) == IsObject(s) /\ IsObject(t) /\ s # t /\ <<s, t>> \in DOMAIN relation

IsTypeRelatedTo(s, t) == ~InCache(s, t) /\ CheckTypeRelatedTo(s, t, FALSE)

Answer(s, t) == IF InCache(s, t) THEN relation[<<s, t>>] = "succeeded"
                ELSE Comparison(s, t, FALSE).result # "False"

Next == \E s, t \in Asked : IsTypeRelatedTo(s, t) \/ CheckTypeRelatedTo(s, t, TRUE)

Spec == Init /\ [][Next]_vars

\* The cache knows pairs of the program's types, never one type twice, and its answers.
TypeOK ==
  /\ overflowed \in BOOLEAN
  /\ \A k \in DOMAIN relation : k \in Types \X Types /\ k[1] # k[2]
  /\ \A k \in DOMAIN relation : relation[k] \in {"succeeded", "failed"} \/ (relation[k] = "overflow" /\ overflowed)

-----------------------------------------------------------------------------
(***************************************************************************)
(* What assignable means, without a cache: the largest relation that every *)
(* pair of it keeps.                                                       *)
(***************************************************************************)
RECURSIVE SignatureHolds(_, _, _, _)
SignatureHolds(R, s, t, mode) ==
  LET parameter(p, q) ==
        IF mode = "none" /\ HasSingleCallSignature(p) /\ HasSingleCallSignature(q)
        THEN SignatureHolds(R, SignaturesOfType(q)[1], SignaturesOfType(p)[1],
                            IF t.method THEN "bivariantCallback" ELSE "strictCallback")
        ELSE <<q, p>> \in R \/ (mode = "none" /\ t.method /\ <<p, q>> \in R)
  IN  /\ Len(s.params) <= Len(t.params)
      /\ \A i \in DOMAIN s.params : s.params[i] = t.params[i] \/ parameter(s.params[i], t.params[i])
      /\ \/ t.ret = "void" \/ <<s.ret, t.ret>> \in R
         \/ mode = "bivariantCallback" /\ <<t.ret, s.ret>> \in R

Holds(R, s, t) ==
  \/ s = t
  \/ IsUnion(s) /\ \A m \in ToSet(decl[s].members) : <<m, t>> \in R
  \/ ~IsUnion(s) /\ IsUnion(t) /\ \E m \in ToSet(decl[t].members) : <<s, m>> \in R
  \/ /\ ~IsUnion(s) /\ IsObject(t) /\ Names(t) \subseteq Names(s)
     /\ \A n \in Names(t) : <<TypeOfProperty(s, n), TypeOfProperty(t, n)>> \in R
     /\ \A target \in ToSet(SignaturesOfType(t)) :
          \E source \in ToSet(SignaturesOfType(s)) : SignatureHolds(R, source, target, "none")

RECURSIVE LargestWithin(_)
LargestWithin(R) ==
  LET kept == {p \in R : Holds(R, p[1], p[2])} IN IF kept = R THEN R ELSE LargestWithin(kept)

Assignable == LargestWithin(Types \X Types)

(***************************************************************************)
(* Every entry of the cache is what the definition says, whatever was      *)
(* asked before and in whatever order, and so is every answer to come.     *)
(* Once a comparison was given up, types that are assignable may be said   *)
(* not to be; the other way round, never.                                  *)
(***************************************************************************)
CacheIsTrue ==
  LET assignable == Assignable
  IN  /\ \A k \in DOMAIN relation : relation[k] = "succeeded" => k \in assignable
      /\ \A s, t \in Asked : Answer(s, t) => <<s, t>> \in assignable
      /\ ~overflowed =>
           /\ \A k \in DOMAIN relation : k \in assignable => relation[k] = "succeeded"
           /\ \A s, t \in Asked : <<s, t>> \in assignable => Answer(s, t) \/ Comparison(s, t, FALSE).overflow
=============================================================================
