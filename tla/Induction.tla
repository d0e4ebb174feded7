------------------------------ MODULE Induction ------------------------------
(***************************************************************************)
(* Induction over the naturals in a form the proofs of the other modules    *)
(* can cite: the property is a set, not an operator.  It comes from the      *)
(* least elements of well-founded orders.  The proofs use it for what the    *)
(* recursive functions of the models compute.                               *)
(***************************************************************************)
EXTENDS Naturals, WellFoundedInduction, TLAPS

\* A set that holds 0 and, with a number, the next one holds them all.
LEMMA InductionOnSet ==
    ASSUME NEW S, 0 \in S, \A n \in Nat : n \in S => n + 1 \in S
    PROVE  Nat \subseteq S
  <1> DEFINE T == Nat \ S
             R == OpToRel(<, Nat)
  <1> SUFFICES ASSUME T # {} PROVE FALSE
    OBVIOUS
  <1>1. \A x, y \in Nat : x < y => <<x, y>> \in R
    BY DEF OpToRel
  <1>2. IsWellFoundedOn(R, Nat)  BY NatLessThanWellFounded
  <1>3. \E x \in T : \A y \in T : <<y, x>> \notin R
    <2>1. T \subseteq Nat  OBVIOUS
    <2> HIDE DEF R, T
    <2>2. QED  BY <1>2, <2>1, WFMin
  <1>4. PICK x \in T : \A y \in T : <<y, x>> \notin R
    BY <1>3
  <1> HIDE DEF R
  <1>5. x # 0 /\ x - 1 \in Nat /\ x - 1 < x /\ x - 1 + 1 = x
    BY <1>4
  <1>6. x - 1 \notin T  BY <1>1, <1>4, <1>5
  <1>7. QED  BY <1>4, <1>5, <1>6

\* The steps of recursive functions over 0 .. n with values in V: the value at i from
\* the one at i - 1; and the functions they determine.
Steps(V, n) == [V \X (1 .. n) -> V]
Computes(g, V, start, n, step) ==
    /\ g \in [0 .. n -> V] /\ g[0] = start
    /\ \A i \in 1 .. n : g[i] = step[<<g[i - 1], i>>]

\* A recursive function exists, and its values have the type of its steps'.
LEMMA RecursiveFunction ==
    ASSUME NEW V, NEW start \in V, NEW n \in Nat, NEW step \in Steps(V, n)
    PROVE  \E g : Computes(g, V, start, n, step)
  <1> DEFINE Solves(g, m) == g[0] = start /\ \A i \in 1 .. m : g[i] = step[<<g[i - 1], i>>]
             S == {m \in Nat : m <= n => \E g \in [0 .. m -> V] : Solves(g, m)}
  <1>1. 0 \in S
    <2>1. [i \in 0 .. 0 |-> start] \in [0 .. 0 -> V]  OBVIOUS
    <2>2. Solves([i \in 0 .. 0 |-> start], 0)  OBVIOUS
    <2>3. QED  BY <2>1, <2>2
  <1>2. ASSUME NEW m \in Nat, m \in S PROVE m + 1 \in S
    <2> SUFFICES ASSUME m + 1 <= n PROVE \E h \in [0 .. m + 1 -> V] : Solves(h, m + 1)
      OBVIOUS
    <2>1. PICK g \in [0 .. m -> V] : Solves(g, m)  BY <1>2
    <2> DEFINE new == step[<<g[m], m + 1>>]
               h == [i \in 0 .. m + 1 |-> IF i = m + 1 THEN new ELSE g[i]]
    <2>2. new \in V
      <3>1. m \in 0 .. m /\ m + 1 \in 1 .. n  OBVIOUS
      <3>2. <<g[m], m + 1>> \in V \X (1 .. n)  BY <2>1, <3>1
      <3>3. QED  BY <3>2 DEF Steps
    <2>3. h \in [0 .. m + 1 -> V]
      <3>1. \A i \in 0 .. m + 1 : i # m + 1 => i \in 0 .. m  OBVIOUS
      <3> HIDE DEF new
      <3>2. QED  BY <2>2, <3>1
    <2>4. h[0] = start /\ h[m + 1] = new /\ \A i \in 0 .. m : h[i] = g[i]
      <3>1. 0 \in 0 .. m + 1 /\ 0 # m + 1 /\ m + 1 \in 0 .. m + 1
            /\ \A i \in 0 .. m : i \in 0 .. m + 1 /\ i # m + 1
        OBVIOUS
      <3> HIDE DEF new
      <3>2. QED  BY <2>1, <3>1
    <2>5. ASSUME NEW i \in 1 .. m + 1 PROVE h[i] = step[<<h[i - 1], i>>]
      <3>1. CASE i = m + 1
        <4>1. m \in 0 .. m /\ i - 1 = m  BY <3>1
        <4> HIDE DEF h
        <4>2. QED  BY <2>4, <3>1, <4>1
      <3>2. CASE i # m + 1
        <4>1. i \in 1 .. m /\ i \in 0 .. m /\ i - 1 \in 0 .. m  BY <3>2
        <4> HIDE DEF h
        <4>2. h[i] = g[i] /\ h[i - 1] = g[i - 1]  BY <2>4, <4>1
        <4>3. QED  BY <2>1, <4>1, <4>2
      <3>3. QED  BY <3>1, <3>2
    <2> HIDE DEF h, new
    <2>6. QED  BY <2>3, <2>4, <2>5
  <1>3. n \in S
    <2> HIDE DEF S
    <2>1. QED  BY <1>1, <1>2, InductionOnSet
  <1>4. QED  BY <1>3 DEF Computes

\* Two functions that take the same steps ...
Alike(g, h, n) == g[0] = h[0] /\ \A i \in 1 .. n : g[i - 1] = h[i - 1] => g[i] = h[i]

\* ... are equal.
LEMMA SameSteps ==
    ASSUME NEW n \in Nat, NEW g, NEW h, Alike(g, h, n)
    PROVE  \A i \in 0 .. n : g[i] = h[i]
  <1> DEFINE S == {m \in Nat : m <= n => g[m] = h[m]}
  <1>1. 0 \in S  BY DEF Alike
  <1>2. ASSUME NEW m \in Nat, m \in S PROVE m + 1 \in S
    <2> SUFFICES ASSUME m + 1 <= n PROVE g[m + 1] = h[m + 1]
      OBVIOUS
    <2>1. m + 1 \in 1 .. n /\ m + 1 - 1 = m /\ g[m] = h[m]  BY <1>2
    <2>2. QED  BY <2>1 DEF Alike
  <1>3. Nat \subseteq S
    <2> HIDE DEF S
    <2>1. QED  BY <1>1, <1>2, InductionOnSet
  <1>4. \A i \in 0 .. n : i \in Nat /\ i <= n  OBVIOUS
  <1>5. QED  BY <1>3, <1>4

\* A recursive function over all numbers exists, too: its value at n is that of the
\* one over 0 .. n.
ComputesAll(f, V, start, step) ==
    /\ f \in [Nat -> V] /\ f[0] = start
    /\ \A i \in Nat : f[i + 1] = step[<<f[i], i + 1>>]

LEMMA RecursiveOnNaturals ==
    ASSUME NEW V, NEW start \in V, NEW step \in [V \X Nat -> V]
    PROVE  \E f : ComputesAll(f, V, start, step)
  <1> DEFINE until[n \in Nat] == CHOOSE g : Computes(g, V, start, n, step)
             f == [n \in Nat |-> until[n][n]]
  <1>1. ASSUME NEW n \in Nat PROVE Computes(until[n], V, start, n, step)
    <2> DEFINE some == [x \in V \X (1 .. n) |-> step[x]]
    <2>1. \A x \in V \X (1 .. n) : x \in V \X Nat /\ step[x] \in V
      OBVIOUS
    <2>2. some \in Steps(V, n)  BY <2>1 DEF Steps
    <2> HIDE DEF some
    <2>3. PICK g : Computes(g, V, start, n, some)  BY <2>2, RecursiveFunction
    <2>4. Computes(g, V, start, n, step)
      <3>1. ASSUME NEW i \in 1 .. n PROVE some[<<g[i - 1], i>>] = step[<<g[i - 1], i>>]
        <4>1. i - 1 \in 0 .. n  OBVIOUS
        <4>2. <<g[i - 1], i>> \in V \X (1 .. n)  BY <2>3, <4>1 DEF Computes
        <4>3. QED  BY <4>2 DEF some
      <3>2. QED  BY <2>3, <3>1 DEF Computes
    <2>5. until[n] = CHOOSE h : Computes(h, V, start, n, step)
      OBVIOUS
    <2> HIDE DEF until
    <2>6. QED  BY <2>4, <2>5
  <1> HIDE DEF until
  <1>2. ASSUME NEW n \in Nat PROVE f[n] = until[n][n] /\ f[n] \in V
    <2>1. n \in 0 .. n /\ until[n] \in [0 .. n -> V]  BY <1>1 DEF Computes
    <2>2. QED  BY <2>1
  <1>3. f \in [Nat -> V]  BY <1>2
  <1>4. f[0] = start  BY <1>1, <1>2 DEF Computes
  <1>5. ASSUME NEW i \in Nat PROVE f[i + 1] = step[<<f[i], i + 1>>]
    <2> DEFINE n == i + 1
               g == until[i]
               h == until[n]
    <2>1. n \in Nat /\ n - 1 = i /\ i \in 0 .. i /\ n \in 1 .. n /\ i <= n
      OBVIOUS
    <2>2. Computes(g, V, start, i, step) /\ Computes(h, V, start, n, step)
      BY <1>1, <2>1
    <2>3. f[i] = g[i] /\ f[n] = h[n]  BY <1>2, <2>1
    <2> HIDE DEF f, g, h
    <2>4. Alike(g, h, i)
      <3>1. \A j \in 1 .. i : j \in 1 .. n  OBVIOUS
      <3>2. \A j \in 1 .. i : g[j] = step[<<g[j - 1], j>>] /\ h[j] = step[<<h[j - 1], j>>]
        BY <2>2, <3>1 DEF Computes
      <3>3. g[0] = h[0]  BY <2>2 DEF Computes
      <3>4. QED  BY <3>2, <3>3 DEF Alike
    <2>5. g[i] = h[i]  BY <2>1, <2>4, SameSteps
    <2>6. h[n] = step[<<h[i], n>>]
      <3>1. h[n] = step[<<h[n - 1], n>>]  BY <2>1, <2>2 DEF Computes
      <3>2. QED  BY <2>1, <3>1
    <2>7. QED  BY <2>3, <2>5, <2>6
  <1> HIDE DEF f
  <1>6. ComputesAll(f, V, start, step)  BY <1>3, <1>4, <1>5 DEF ComputesAll
  <1>7. QED  BY <1>6
=============================================================================
