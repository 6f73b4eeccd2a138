---------------------------- MODULE FoldInduction ----------------------------
(***************************************************************************)
(* Induction over the rounds of a loop.  The models write a loop of the    *)
(* code as FoldLeft of its body over the sequence it goes through; what    *)
(* the body keeps, the loop keeps.  The body and what it keeps are         *)
(* constants of this module, because no prover here can put an operator in *)
(* the place of a theorem's parameter: a module of proofs has an INSTANCE  *)
(* of this one for each loop.  The module extends as little as it can,     *)
(* since each INSTANCE repeats it all.                                     *)
(***************************************************************************)
EXTENDS Integers, Sequences

CONSTANTS
  step(_, _, _),   \* the body: what is the same in every round, the state, the element
  Inv(_, _, _)     \* what it keeps: of a value fixed before the loop, the rounds made, the state

\* The greatest of a set of numbers, chosen as the library's Max chooses it.
Last(s) == CHOOSE x \in s : \A y \in s : x >= y

\* Induction, for a set of numbers.
Induction == \A X : 0 \in X /\ (\A k \in Nat : k \in X => k + 1 \in X) => Nat \subseteq X

\* The state after the elements of seq at a set of places: what FoldLeft goes by.
IsRun(g, ctx, S, seq, s0) ==
  g = [s \in SUBSET s0 |-> IF s = {} THEN S ELSE step(ctx, g[s \ {Last(s)}], seq[Last(s)])]

\* FoldLeft(LAMBDA T, x : step(ctx, T, x), S, seq)
Over(ctx, S, seq) == (CHOOSE g : IsRun(g, ctx, S, seq, DOMAIN seq))[DOMAIN seq]

-----------------------------------------------------------------------------
\* The greatest of a set of numbers up to k + 1 that has k + 1.
LEMMA Greatest ==
  ASSUME NEW k \in Nat, NEW s \in SUBSET (1..(k + 1)), k + 1 \in s
  PROVE  Last(s) = k + 1 /\ s \ {Last(s)} \in SUBSET (1..k)
<1>1. \A x \in s : x \in Int /\ k + 1 >= x
  OBVIOUS
<1>2. Last(s) \in s /\ \A y \in s : Last(s) >= y
  BY <1>1 DEF Last
<1>3. PICK m : m = Last(s)
  OBVIOUS
<1>4. m \in s /\ m >= k + 1 /\ m \in Int /\ k + 1 >= m
  BY <1>1, <1>2, <1>3
<1>5. m = k + 1
  BY <1>4
<1> QED BY <1>3, <1>5

\* The first k + 1 numbers.
LEMMA UpTo ==
  ASSUME NEW k \in Nat
  PROVE  /\ Last(1..(k + 1)) = k + 1 /\ 1..(k + 1) # {}
         /\ 1..(k + 1) \ {k + 1} = 1..k
<1>1. k + 1 \in 1..(k + 1) /\ 1..(k + 1) \in SUBSET (1..(k + 1))
  OBVIOUS
<1>2. Last(1..(k + 1)) = k + 1
  BY <1>1, Greatest
<1>3. \A x : x \in 1..(k + 1) \ {k + 1} <=> x \in 1..k
  OBVIOUS
<1>4. 1..(k + 1) \ {k + 1} = 1..k
  BY <1>3
<1> QED BY <1>1, <1>2, <1>4

\* The function that Over is the last value of exists.
LEMMA Steps ==
  ASSUME Induction, NEW ctx, NEW S, NEW seq, NEW k \in Nat
  PROVE  \E g : IsRun(g, ctx, S, seq, 1..k)
<1> DEFINE P(n) == \E g : IsRun(g, ctx, S, seq, 1..n)
           X == {n \in Nat : P(n)}
<1>1. P(0)
  <2>1. SUBSET (1..0) = {{}}
    OBVIOUS
  <2> DEFINE g == [s \in SUBSET (1..0) |-> S]
  <2>2. g = [s \in SUBSET (1..0) |-> IF s = {} THEN S ELSE step(ctx, g[s \ {Last(s)}], seq[Last(s)])]
    BY <2>1
  <2> HIDE DEF g
  <2> QED BY <2>2 DEF IsRun
<1>2. ASSUME NEW n \in Nat, P(n) PROVE P(n + 1)
  <2>1. PICK g : g = [s \in SUBSET (1..n) |-> IF s = {} THEN S ELSE step(ctx, g[s \ {Last(s)}], seq[Last(s)])]
    BY <1>2 DEF IsRun
  <2> DEFINE h == [s \in SUBSET (1..(n + 1)) |->
                     IF n + 1 \in s THEN step(ctx, g[s \ {n + 1}], seq[n + 1]) ELSE g[s]]
             rhs(s) == IF s = {} THEN S ELSE step(ctx, h[s \ {Last(s)}], seq[Last(s)])
  <2>2. ASSUME NEW s \in SUBSET (1..(n + 1)), n + 1 \in s PROVE h[s] = rhs(s)
    <3>1. Last(s) = n + 1 /\ s \ {n + 1} \in SUBSET (1..n) /\ s \ {n + 1} \in SUBSET (1..(n + 1)) /\ s # {}
      BY <2>2, Greatest
    <3>2. h[s \ {n + 1}] = g[s \ {n + 1}]
      BY <3>1
    <3>3. h[s] = step(ctx, g[s \ {n + 1}], seq[n + 1])
      BY <2>2
    <3> HIDE DEF h
    <3> QED BY <3>1, <3>2, <3>3
  <2>3. ASSUME NEW s \in SUBSET (1..(n + 1)), n + 1 \notin s PROVE h[s] = rhs(s)
    <3>1. s \in SUBSET (1..n)
      BY <2>3
    <3>2. h[s] = g[s]
      BY <2>3
    <3>3. CASE s = {}
      <4>1. g[s] = S
        BY <2>1, <3>1, <3>3
      <4> HIDE DEF h
      <4> QED BY <3>2, <3>3, <4>1
    <3>4. CASE s # {}
      <4>1. g[s] = step(ctx, g[s \ {Last(s)}], seq[Last(s)])
        BY <2>1, <3>1, <3>4
      <4>2. s \ {Last(s)} \in SUBSET (1..(n + 1)) /\ n + 1 \notin s \ {Last(s)}
        BY <2>3
      <4>3. h[s \ {Last(s)}] = g[s \ {Last(s)}]
        BY <4>2
      <4> HIDE DEF h
      <4> QED BY <3>2, <3>4, <4>1, <4>3
    <3> QED BY <3>3, <3>4
  <2>4. \A s \in SUBSET (1..(n + 1)) : h[s] = rhs(s)
    BY <2>2, <2>3
  <2>5. h = [s \in SUBSET (1..(n + 1)) |-> rhs(s)]
    <3>1. h = [s \in SUBSET (1..(n + 1)) |-> h[s]]
      OBVIOUS
    <3> HIDE DEF h, rhs
    <3> QED BY <2>4, <3>1
  <2> HIDE DEF h
  <2> QED BY <2>5 DEF IsRun
<1>3. Nat \subseteq X
  <2> HIDE DEF P
  <2>1. 0 \in X /\ \A m \in Nat : m \in X => m + 1 \in X
    BY <1>1, <1>2
  <2> HIDE DEF X
  <2> QED BY <2>1 DEF Induction
<1> QED BY <1>3

\* What holds after k rounds when it held after the rounds before holds when the loop ends.
LEMMA LoopReaches ==
  ASSUME Induction, NEW c0, NEW ctx, NEW S, NEW X, NEW seq \in Seq(X), Inv(c0, 0, S),
         \A k \in 0..(Len(seq) - 1) : \A T : Inv(c0, k, T) => Inv(c0, k + 1, step(ctx, T, seq[k + 1]))
  PROVE  Inv(c0, Len(seq), Over(ctx, S, seq))
<1> DEFINE n == Len(seq)
           iter == CHOOSE g : IsRun(g, ctx, S, seq, 1..n)
<1>1. n \in Nat /\ DOMAIN seq = 1..n
  OBVIOUS
<1>2. iter = [s \in SUBSET (1..n) |-> IF s = {} THEN S ELSE step(ctx, iter[s \ {Last(s)}], seq[Last(s)])]
  <2>1. \E g : IsRun(g, ctx, S, seq, 1..n)
    <3> HIDE DEF n
    <3> QED BY <1>1, Steps
  <2> QED BY <2>1 DEF IsRun
<1>3. Over(ctx, S, seq) = iter[1..n]
  BY <1>1 DEF Over
<1> HIDE DEF iter
<1> DEFINE K == {k \in Nat : k <= n => Inv(c0, k, iter[1..k])}
<1>4. 0 \in K
  <2>1. 1..0 = {} /\ 1..0 \in SUBSET (1..n)
    BY <1>1
  <2>2. iter[1..0] = S
    BY <1>2, <2>1
  <2> QED BY <2>2
<1>5. ASSUME NEW k \in Nat, k \in K PROVE k + 1 \in K
  <2> SUFFICES ASSUME k + 1 <= n PROVE Inv(c0, k + 1, iter[1..(k + 1)])
    OBVIOUS
  <2>1. /\ Last(1..(k + 1)) = k + 1 /\ 1..(k + 1) # {} /\ 1..(k + 1) \in SUBSET (1..n)
        /\ 1..(k + 1) \ {k + 1} = 1..k
    <3> HIDE DEF K
    <3>1. 1..(k + 1) \in SUBSET (1..n)
      BY <1>1
    <3> QED BY <3>1, UpTo
  <2>2. iter[1..(k + 1)] = step(ctx, iter[1..k], seq[k + 1])
    BY <1>2, <2>1
  <2>3. k \in 0..(n - 1) /\ Inv(c0, k, iter[1..k])
    BY <1>1, <1>5
  <2> QED BY <2>2, <2>3
<1>6. Nat \subseteq K
  <2> HIDE DEF K
  <2> QED BY <1>4, <1>5 DEF Induction
<1> QED BY <1>1, <1>3, <1>6

\* What the body keeps, the loop keeps.
THEOREM LoopKeeps ==
  ASSUME Induction, NEW c0, NEW ctx, NEW S, NEW X, NEW seq \in Seq(X), Inv(c0, 0, S),
         \A k \in Nat : \A T : \A x \in X : Inv(c0, k, T) => Inv(c0, k + 1, step(ctx, T, x))
  PROVE  Inv(c0, Len(seq), Over(ctx, S, seq))
<1>1. \A k \in 0..(Len(seq) - 1) : k \in Nat /\ seq[k + 1] \in X
  OBVIOUS
<1>2. \A k \in 0..(Len(seq) - 1) : \A T : Inv(c0, k, T) => Inv(c0, k + 1, step(ctx, T, seq[k + 1]))
  BY <1>1
<1> QED BY <1>2, LoopReaches
=============================================================================
