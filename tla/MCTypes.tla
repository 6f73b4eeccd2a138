------------------------------- MODULE MCTypes -------------------------------
(***************************************************************************)
(* Small programs for Relater: what their types are.                       *)
(***************************************************************************)
EXTENDS Sequences, TLC

Primitive == [kind |-> "primitive", props |-> <<>>, calls |-> <<>>, members |-> <<>>]
Union(members) == [kind |-> "union", props |-> <<>>, calls |-> <<>>, members |-> members]
Interface(props) == [kind |-> "object", props |-> props, calls |-> <<>>, members |-> <<>>]
Callable(calls) == [kind |-> "object", props |-> <<>>, calls |-> calls, members |-> <<>>]

Property(name, type) == [name |-> name, type |-> type]
Function(params, ret) == [method |-> FALSE, params |-> params, ret |-> ret]
Method(params, ret) == [method |-> TRUE, params |-> params, ret |-> ret]

Primitives == [t \in {"number", "string", "void"} |-> Primitive]

\* Three interfaces that refer to each other, directly, through a union, as a parameter of a function
\* or of a method, or as the result of a callback.
PlainTypes ==
  {("A" :> Interface(<<Property("p", x), Property("z", "number")>>)) @@
   ("B" :> Interface(<<Property("p", y), Property("z", v)>>)) @@
   ("C" :> Interface(<<Property("p", w)>>)) @@
   ("AorB" :> Union(<<"A", "B">>)) @@
   ("takesA" :> Callable(<<Function(<<"A">>, "void")>>)) @@
   ("takesB" :> Callable(<<Method(<<"B">>, "void")>>)) @@
   ("givesA" :> Callable(<<Function(<<>>, "A")>>)) @@
   ("givesC" :> Callable(<<Function(<<>>, "C")>>)) @@
   ("calls" :> Callable(<<Function(<<"givesA">>, "number")>>)) @@
   ("callsBack" :> Callable(<<Method(<<"givesC">>, "number")>>)) @@ Primitives :
     x \in {"A", "B", "AorB", "takesA", "calls"}, y \in {"A", "C", "takesB", "callsBack"},
     w \in {"A", "C", "AorB", "takesB"}, v \in {"number", "string"}}

\* interface A { n: Overloaded; z: number }     interface B { n: Single; z: string }
\* interface S { a: A }                         interface T { a: B }
\* interface Overloaded { (x: T, y: number): void; (): void }
\* interface Single { (x: S, y: string): void }
OverloadedTypes ==
  {("A" :> Interface(<<Property("n", "Overloaded"), Property("z", "number")>>)) @@
   ("B" :> Interface(<<Property("n", "Single"), Property("z", "string")>>)) @@
   ("S" :> Interface(<<Property("a", "A")>>)) @@ ("T" :> Interface(<<Property("a", "B")>>)) @@
   ("Overloaded" :> Callable(<<Function(<<"T", "number">>, "void"), Function(<<>>, "void")>>)) @@
   ("Single" :> Callable(<<Function(<<"S", "string">>, "void")>>)) @@ Primitives}
=============================================================================
